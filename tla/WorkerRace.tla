------------------------------ MODULE WorkerRace ------------------------------
(***************************************************************************)
(* run_race_apply_verify (src/src/sophyane/race_execution.py): rounds that *)
(* race the workers, apply the winner's action to the workspace, verify it *)
(* and start a repair round where the verdict is bad; and the race itself, *)
(* AdaptiveRace.run (race_runtime.py), whose workers end at any time, or   *)
(* never, while the coordinator waits, judges and waits a last grace time. *)
(*                                                                         *)
(* What a worker answers is decided when it is judged: nothing looks at it *)
(* before.  A workspace is what its first failing verification says of it. *)
(***************************************************************************)
EXTENDS Naturals, FiniteSets

CONSTANTS
    Worker,
    Score,      \* scores a validator gives
    Minimum,    \* minimum_score
    MaxRounds,
    Requests,   \* kinds of request: success_mode, and whether a browser must open
    Failure,    \* failing verifications that differ (command, code, output)
    None        \* no worker

ASSUME RaceAssumption ==
    /\ Score \subseteq Nat /\ Minimum \in Nat
    /\ MaxRounds \in Nat \ {0}
    /\ Requests \subseteq [mode : {"pytest", "applied", "plan_ok"}, browser : BOOLEAN]
    /\ None \notin Worker

\* A workspace without a verifier, a green one, or its first failure.
Report == {"none", "green"} \cup Failure

\* What the coordinator knows of a worker; at: when it was judged.
Verdict == [judged : BOOLEAN, valid : BOOLEAN, score : Nat, at : Nat]

Unjudged == [judged |-> FALSE, valid |-> FALSE, score |-> 0, at |-> 0]

VARIABLES
    pc,         \* where the calling thread is
    request, baseline, report, outcome,     \* locals of run_race_apply_verify
    round,
    applied,    \* what this round applied
    opened,     \* has a browser action been applied?
    owner,      \* of the write lease
    ws,         \* the workspace
    ended,      \* workers whose future is done
    pending, batch, fresh,  \* futures to wait for, to judge; valid ones judged
    verdict, errors,        \* candidates and errors of the race
    winner,
    clock,      \* verdicts so far
    expired     \* has the deadline passed?

call == <<request, baseline, report, outcome, round, applied, opened, owner, ws>>
race == <<ended, pending, batch, fresh, verdict, errors, winner, clock, expired>>
vars == <<pc, request, baseline, report, outcome, round, applied, opened, owner, ws,
          ended, pending, batch, fresh, verdict, errors, winner, clock, expired>>

Racing == {"check", "wait", "judge", "grace", "graced", "finish"}

Init ==
    /\ pc = "start" /\ request \in Requests
    /\ ws \in Report /\ baseline = "none" /\ report = "none"
    /\ outcome = "open" /\ round = 0
    /\ applied = "nothing" /\ opened = FALSE /\ owner = None
    /\ ended = {} /\ pending = {} /\ batch = {} /\ fresh = {}
    /\ verdict = [w \in Worker |-> Unjudged] /\ errors = {}
    /\ winner = None /\ clock = 0 /\ expired = FALSE

Return(result) == pc' = "stop" /\ outcome' = result

\* continue: the next round, if there is one.
NextRound ==
    IF round < MaxRounds
    THEN pc' = "round" /\ UNCHANGED outcome
    ELSE Return("exhausted")

-----------------------------------------------------------------------------
(* The race *)

\* Every worker has a thread of its own and starts at once.  Threads of
\* earlier rounds may still run; nobody reads their futures any more.
StartRace ==
    /\ pc = "round" /\ pc' = "check"
    /\ round' = round + 1 /\ applied' = "nothing"
    /\ ended' = {} /\ pending' = Worker /\ batch' = {} /\ fresh' = {}
    /\ verdict' = [w \in Worker |-> Unjudged] /\ errors' = {}
    /\ winner' = None /\ clock' = 0 /\ expired' = FALSE
    /\ report' = "none"     \* no report of an earlier round is read
    /\ UNCHANGED <<request, baseline, outcome, opened, owner, ws>>

WorkerEnds(w) ==
    /\ pc \in Racing /\ w \notin ended
    /\ ended' = ended \cup {w}
    /\ UNCHANGED <<pc, pending, batch, fresh, verdict, errors, winner, clock, expired, call>>

Expires ==
    /\ pc \in Racing /\ ~expired
    /\ expired' = TRUE
    /\ UNCHANGED <<pc, ended, pending, batch, fresh, verdict, errors, winner, clock, call>>

\* The top of the loop: futures done by now are not looked at after the deadline.
Check ==
    /\ pc = "check"
    /\ pc' = IF pending = {} \/ expired THEN "finish" ELSE "wait"
    /\ UNCHANGED <<race, call>>

\* Mutation of Wait: wait() without the remaining time.
WaitForever ==
    /\ pc = "wait" /\ pending \cap ended # {}
    /\ batch' = pending \cap ended /\ pending' = pending \ ended /\ fresh' = {}
    /\ pc' = "judge"
    /\ UNCHANGED <<ended, verdict, errors, winner, clock, expired, call>>

Wait ==
    /\ pc = "wait" /\ (pending \cap ended # {} \/ expired)
    /\ batch' = pending \cap ended /\ pending' = pending \ ended /\ fresh' = {}
    /\ pc' = IF pending \cap ended = {} THEN "finish" ELSE "judge"
    /\ UNCHANGED <<ended, verdict, errors, winner, clock, expired, call>>

Good(v) == v.judged /\ v.valid /\ v.score >= Minimum

\* The validator judges the proposal of w.
Judges(w, valid, score) ==
    /\ batch' = batch \ {w} /\ clock' = clock + 1
    /\ verdict' = [verdict EXCEPT ![w] = [judged |-> TRUE, valid |-> valid,
                                          score |-> score, at |-> clock + 1]]

Judge(w) ==
    /\ pc = "judge" /\ w \in batch
    /\ \E valid \in BOOLEAN, score \in Score :
          /\ Judges(w, valid, score)
          /\ fresh' = IF Good(verdict'[w]) THEN fresh \cup {w} ELSE fresh
    /\ UNCHANGED <<pc, ended, pending, errors, winner, expired, call>>

\* The worker, or the validator over its proposal, raised.
Fault(w) ==
    /\ pc \in {"judge", "graced"} /\ w \in batch
    /\ batch' = batch \ {w} /\ errors' = errors \cup {w}
    /\ UNCHANGED <<pc, ended, pending, fresh, verdict, winner, clock, expired, call>>

\* A KeyboardInterrupt of a worker is the host's: it ends the whole call.
Interrupt(w) ==
    /\ pc \in {"judge", "graced"} /\ w \in batch
    /\ Return("interrupted")
    /\ UNCHANGED <<race, request, baseline, report, round, applied, opened, owner, ws>>

\* The better score, and of two equal ones the earlier.
Beats(v, w) ==
    \/ v.score > w.score
    \/ v.score = w.score /\ v.at <= w.at

PickWinner ==
    /\ pc = "judge" /\ batch = {}
    /\ IF fresh = {}
       THEN pc' = "check" /\ UNCHANGED winner
       ELSE /\ pc' = IF pending = {} THEN "finish" ELSE "grace"
            /\ \E w \in fresh :
                  /\ \A v \in fresh : Beats(verdict[w], verdict[v])
                  /\ winner' = w
    /\ UNCHANGED <<ended, pending, batch, fresh, verdict, errors, clock, expired, call>>

\* The grace time is over, or everybody is done.
GraceEnds ==
    /\ pc = "grace" /\ pc' = "graced"
    /\ batch' = pending \cap ended /\ pending' = pending \ ended
    /\ UNCHANGED <<ended, fresh, verdict, errors, winner, clock, expired, call>>

\* Mutation of JudgeGraced: the last good proposal wins.
JudgeGracedLast(w) ==
    /\ pc = "graced" /\ w \in batch
    /\ \E valid \in BOOLEAN, score \in Score :
          /\ Judges(w, valid, score)
          /\ winner' = IF Good(verdict'[w]) THEN w ELSE winner
    /\ UNCHANGED <<pc, ended, pending, fresh, errors, expired, call>>

JudgeGraced(w) ==
    /\ pc = "graced" /\ w \in batch
    /\ \E valid \in BOOLEAN, score \in Score :
          /\ Judges(w, valid, score)
          /\ winner' = IF Good(verdict'[w]) /\ score > verdict[winner].score THEN w ELSE winner
    /\ UNCHANGED <<pc, ended, pending, fresh, errors, expired, call>>

GraceJudged ==
    /\ pc = "graced" /\ batch = {} /\ pc' = "finish"
    /\ UNCHANGED <<race, call>>

\* A winner is reported with everyone it left behind.
Finish ==
    /\ pc = "finish"
    /\ IF winner = None
       THEN Return("no winner") /\ UNCHANGED errors
       ELSE pc' = "choose" /\ errors' = errors \cup pending /\ UNCHANGED outcome
    /\ UNCHANGED <<ended, pending, batch, fresh, verdict, winner, clock, expired,
                   request, baseline, report, round, applied, opened, owner, ws>>

-----------------------------------------------------------------------------
(* A round *)

\* The baseline is the report on the workspace before anything is applied.
Baseline ==
    /\ pc = "start" /\ pc' = "round"
    /\ baseline' = IF request.mode = "applied" THEN "none" ELSE ws
    /\ UNCHANGED <<request, report, outcome, round, applied, opened, owner, ws, race>>

\* The winner proposes no action: a plan is enough, or feeds the next round.
NoAction ==
    /\ pc = "choose"
    /\ IF request.mode = "plan_ok" THEN Return("ok") ELSE NextRound
    /\ UNCHANGED <<request, baseline, report, round, applied, opened, owner, ws, race>>

Acquire ==
    /\ pc = "choose"
    /\ IF owner \in {None, winner}
       THEN owner' = winner /\ pc' = "apply" /\ UNCHANGED outcome
       ELSE Return("locked") /\ UNCHANGED owner
    /\ UNCHANGED <<request, baseline, report, round, applied, opened, ws, race>>

\* Mutation of ApplyFails: without its continue, the round goes on to verify.
ApplyFailsOn ==
    /\ pc = "apply" /\ owner = winner
    /\ owner' = None /\ ws' \in Report /\ pc' = "verify"
    /\ UNCHANGED <<request, baseline, report, outcome, round, applied, opened, race>>

\* A command that fails may have changed the workspace: nothing is undone.
ApplyFails ==
    /\ pc = "apply" /\ owner = winner
    /\ owner' = None /\ ws' \in Report /\ NextRound
    /\ UNCHANGED <<request, baseline, report, round, applied, opened, race>>

\* A file is written, a command runs, a browser opens.
Apply(kind) ==
    /\ pc = "apply" /\ owner = winner
    /\ owner' = None /\ applied' = kind /\ pc' = "verify"
    /\ ws' \in IF kind = "browser" THEN {ws} ELSE Report
    /\ opened' = (opened \/ kind = "browser")
    /\ UNCHANGED <<request, baseline, report, outcome, round, race>>

\* A mere answer does not do where an artifact is asked for.
Respond ==
    /\ pc = "apply" /\ owner = winner
    /\ owner' = None /\ applied' = "respond"
    /\ \/ NextRound
       \/ pc' = "verify" /\ UNCHANGED outcome
    /\ UNCHANGED <<request, baseline, report, round, opened, ws, race>>

Verify ==
    /\ pc = "verify" /\ pc' = "review"
    /\ report' = IF request.mode = "applied" THEN "none" ELSE ws
    /\ UNCHANGED <<request, baseline, outcome, round, applied, opened, owner, ws, race>>

\* The verification command is not installed, before the first round or now.
VerifyRaises ==
    /\ pc \in {"start", "verify"} /\ request.mode # "applied"
    /\ Return("raised")
    /\ UNCHANGED <<request, baseline, report, round, applied, opened, owner, ws, race>>

\* The semantic judge, asked only about changed paths, rejects or lets pass.
Review ==
    /\ pc = "review"
    /\ \/ applied = "write" /\ NextRound
       \/ pc' = "deliver" /\ UNCHANGED outcome
    /\ UNCHANGED <<request, baseline, report, round, applied, opened, owner, ws, race>>

\* Where a browser is asked for, it opens and the call succeeds, whatever the
\* verification reported; if it does not open, the report decides.
Deliver ==
    /\ pc = "deliver"
    /\ \/ /\ request.browser /\ applied = "write" /\ ~opened
          /\ opened' = TRUE /\ Return("ok")
       \/ pc' = "decide" /\ UNCHANGED <<opened, outcome>>
    /\ UNCHANGED <<request, baseline, report, round, applied, owner, ws, race>>

\* The verdict: no verifier, all green, or a failure the baseline had too.
Decide ==
    /\ pc = "decide"
    /\ IF request.mode # "pytest" \/ report \in {"none", "green", baseline}
       THEN Return("ok") ELSE NextRound
    /\ UNCHANGED <<request, baseline, report, round, applied, opened, owner, ws, race>>

-----------------------------------------------------------------------------
(* Behaviours *)

\* The calling thread: the coordinator of the race and the rounds around it.
Step ==
    \/ Baseline \/ StartRace \/ Check \/ Wait
    \/ \E w \in Worker : Judge(w) \/ Fault(w) \/ Interrupt(w) \/ JudgeGraced(w)
    \/ PickWinner \/ GraceEnds \/ GraceJudged \/ Finish
    \/ NoAction \/ Acquire \/ ApplyFails \/ Respond
    \/ \E kind \in {"write", "run", "browser"} : Apply(kind)
    \/ Verify \/ VerifyRaises \/ Review \/ Deliver \/ Decide

Next == Step \/ Expires \/ \E w \in Worker : WorkerEnds(w)

Spec == Init /\ [][Next]_vars

\* Time passes and the calling thread runs; workers may hang forever.
FairSpec == Spec /\ WF_vars(Step) /\ WF_vars(Expires)

-----------------------------------------------------------------------------
(* Properties *)

\* Types; a worker is in one place of the race.
TypeOK ==
    /\ pc \in Racing \cup {"start", "round", "choose", "apply", "verify", "review",
                           "deliver", "decide", "stop"}
    /\ request \in [mode : {"pytest", "applied", "plan_ok"}, browser : BOOLEAN]
    /\ {baseline, report, ws} \subseteq Report
    /\ outcome \in {"open", "ok", "no winner", "exhausted", "locked", "raised", "interrupted"}
    /\ round \in 0..MaxRounds
    /\ applied \in {"nothing", "write", "run", "browser", "respond"}
    /\ opened \in BOOLEAN /\ owner \in Worker \cup {None}
    /\ ended \subseteq Worker /\ pending \subseteq Worker
    /\ batch \subseteq Worker /\ fresh \subseteq Worker
    /\ verdict \in [Worker -> Verdict] /\ errors \subseteq Worker
    /\ winner \in Worker \cup {None} /\ clock \in Nat /\ expired \in BOOLEAN

\* A race is fair.  A winner is good, no other good proposal the race has seen
\* has a better score or the same one earlier, and every worker is reported
\* once, as a candidate or as an error.  A race without a winner has seen no
\* good proposal, and has heard of every worker unless the deadline passed.
RaceIsFair ==
    /\ pc \in {"choose", "apply", "verify", "review", "deliver", "decide"} =>
          /\ winner # None /\ Good(verdict[winner])
          /\ \A w \in Worker : Good(verdict[w]) => Beats(verdict[winner], verdict[w])
          /\ \A w \in Worker : verdict[w].judged <=> w \notin errors
    /\ outcome = "no winner" =>
          /\ \A w \in Worker : ~Good(verdict[w])
          /\ \A w \in Worker : expired \/ (verdict[w].judged <=> w \notin errors)

\* A call that reports success applied something in its last round, but for a
\* mere plan, and on a verified request the workspace as it stands shows no
\* failure that was not there before the call, or the round wrote and a browser
\* opened: that the code takes for success whatever the verification said.
SuccessStands ==
    outcome = "ok" /\ request.mode # "plan_ok" =>
        /\ applied # "nothing"
        /\ request.mode = "pytest" =>
              \/ ws \in {"none", "green", baseline}
              \/ request.browser /\ applied = "write" /\ opened

\* The lease is free whenever nothing is being applied, and only the winner
\* has it then: no round finds the workspace locked.
LeaseIsFree ==
    /\ IF pc = "apply" THEN owner = winner ELSE owner = None
    /\ outcome # "locked"

\* The call ends, even if no worker ever does.
RunEnds == <>(pc = "stop")
=============================================================================
