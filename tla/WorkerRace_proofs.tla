--------------------------- MODULE WorkerRace_proofs ---------------------------
(***************************************************************************)
(* Proofs about WorkerRace, for every set of workers, every scores and any *)
(* number of rounds, and whatever workers, validators and actions do.      *)
(***************************************************************************)
EXTENDS WorkerRace, Descent, FiniteSetTheorems, TLAPS

\* A worker is in one place of a race: waited for, to be judged, a candidate,
\* or an error.
Partition ==
    \A w \in Worker :
        /\ w \in pending => w \notin batch /\ ~verdict[w].judged /\ w \notin errors
        /\ w \in batch => ~verdict[w].judged /\ w \notin errors
        /\ verdict[w].judged => w \notin errors
        /\ w \in pending \/ w \in batch \/ verdict[w].judged \/ w \in errors

Stamped == \A w \in Worker : verdict[w].judged => verdict[w].at <= clock

NobodyGood == \A w \in Worker : ~Good(verdict[w])

Best ==
    /\ winner # None /\ Good(verdict[winner])
    /\ \A w \in Worker : Good(verdict[w]) => Beats(verdict[winner], verdict[w])

\* What the race knows, at each place of its coordinator.
RaceOK ==
    /\ pc \in Racing => Partition /\ Stamped
    /\ pc \in {"check", "wait", "judge"} => winner = None
    /\ pc \in {"check", "wait", "grace", "finish"} => batch = {}
    /\ pc \in {"check", "wait"} => NobodyGood
    /\ pc = "judge" => fresh = {w \in Worker : Good(verdict[w])}
    /\ pc \in {"grace", "graced"} => Best
    /\ pc = "finish" => \/ Best
                        \/ winner = None /\ NobodyGood /\ (expired \/ pending = {})

\* What the rounds know.
RoundOK ==
    /\ pc \in {"start", "round"} => round < MaxRounds
    /\ pc = "stop" <=> outcome # "open"
    /\ pc \in {"verify", "review", "deliver", "decide"} => applied # "nothing"
    /\ pc \in {"review", "deliver", "decide"} /\ request.mode = "pytest" => report = ws

RunInv == TypeOK /\ LeaseIsFree /\ RaceOK /\ RoundOK /\ RaceIsFair /\ SuccessStands

-----------------------------------------------------------------------------
LEMMA InitInv == Init => RunInv
  <1> SUFFICES ASSUME Init PROVE RunInv
    OBVIOUS
  <1>1. TypeOK
    <2>1. request \in [mode : {"pytest", "applied", "plan_ok"}, browser : BOOLEAN]
      BY RaceAssumption DEF Init
    <2>2. verdict \in [Worker -> Verdict]
      BY DEF Init, Verdict, Unjudged
    <2>3. round \in 0..MaxRounds
      BY RaceAssumption DEF Init
    <2> QED BY <2>1, <2>2, <2>3 DEF Init, TypeOK, Report
  <1>2. LeaseIsFree /\ RaceOK /\ RoundOK /\ RaceIsFair /\ SuccessStands
    BY RaceAssumption DEF Init, LeaseIsFree, RaceOK, RoundOK, RaceIsFair, SuccessStands, Racing
  <1> QED BY <1>1, <1>2 DEF RunInv

\* A verdict is given to a worker of the batch, later than all before it.
LEMMA JudgesKeeps ==
    ASSUME RunInv, pc \in {"judge", "graced"}, NEW w \in batch,
           NEW valid \in BOOLEAN, NEW score \in Score, Judges(w, valid, score),
           UNCHANGED <<pending, errors>>
    PROVE  /\ w \in Worker /\ batch' \subseteq Worker
           /\ verdict' \in [Worker -> Verdict] /\ clock' \in Nat
           /\ verdict'[w] = [judged |-> TRUE, valid |-> valid, score |-> score, at |-> clock + 1]
           /\ \A u \in Worker : u # w => verdict'[u] = verdict[u]
           /\ ~Good(verdict[w])
           /\ Partition' /\ Stamped'
  <1>1. /\ w \in Worker /\ batch \subseteq Worker /\ verdict \in [Worker -> Verdict] /\ clock \in Nat
        /\ score \in Nat /\ Partition /\ Stamped
    BY RaceAssumption DEF RunInv, TypeOK, RaceOK, Racing
  <1>2. /\ batch' = batch \ {w} /\ clock' = clock + 1
        /\ verdict'[w] = [judged |-> TRUE, valid |-> valid, score |-> score, at |-> clock + 1]
        /\ \A u \in Worker : u # w => verdict'[u] = verdict[u]
        /\ verdict' \in [Worker -> Verdict]
    BY <1>1 DEF Judges, Verdict
  <1>3. ~Good(verdict[w])
    BY <1>1 DEF Partition, Good
  <1>4. Partition'
    BY <1>1, <1>2 DEF Partition
  <1>5. Stamped'
    <2> SUFFICES ASSUME NEW u \in Worker, verdict'[u].judged PROVE verdict'[u].at <= clock'
      BY DEF Stamped
    <2>1. verdict[u].at \in Nat
      BY <1>1 DEF Verdict
    <2>2. CASE u = w
      BY <1>1, <1>2, <2>2
    <2>3. CASE u # w
      BY <1>1, <1>2, <2>1, <2>3 DEF Stamped
    <2> QED BY <2>2, <2>3
  <1> QED BY <1>1, <1>2, <1>3, <1>4, <1>5

\* A step that leaves the call alone, or the race, keeps the other's types.
LEMMA RaceTypes ==
    ASSUME TypeOK, call' = call, pc' \in Racing,
           ended' \subseteq Worker, pending' \subseteq Worker, batch' \subseteq Worker,
           fresh' \subseteq Worker, verdict' \in [Worker -> Verdict], errors' \subseteq Worker,
           winner' \in Worker \cup {None}, clock' \in Nat, expired' \in BOOLEAN
    PROVE  TypeOK'
  BY DEF TypeOK, call

LEMMA RoundTypes ==
    ASSUME TypeOK, race' = race, request' = request,
           pc' \in {"round", "choose", "apply", "verify", "review", "deliver", "decide", "stop"},
           baseline' \in Report, report' \in Report, ws' \in Report,
           outcome' \in {"open", "ok", "exhausted", "locked", "raised"},
           round' \in 0..MaxRounds, applied' \in {"nothing", "write", "run", "browser", "respond"},
           opened' \in BOOLEAN, owner' \in Worker \cup {None}
    PROVE  TypeOK'
  BY DEF TypeOK, race

LEMMA FinishTypes ==
    ASSUME TypeOK, UNCHANGED <<ended, pending, batch, fresh, verdict, winner, clock, expired,
                               request, baseline, report, round, applied, opened, owner, ws>>,
           pc' \in {"choose", "stop"}, outcome' \in {"no winner", outcome}, errors' \subseteq Worker
    PROVE  TypeOK'
  <1>1. pc' \in Racing \cup {"start", "round", "choose", "apply", "verify", "review",
                            "deliver", "decide", "stop"}
    OBVIOUS
  <1>2. outcome' \in {"open", "ok", "no winner", "exhausted", "locked", "raised", "interrupted"}
    BY DEF TypeOK
  <1> QED BY <1>1, <1>2 DEF TypeOK

\* Every step of a race preserves the invariant.
LEMMA RaceStep ==
    ASSUME RunInv, pc \in Racing, Step \/ Expires \/ \E w \in Worker : WorkerEnds(w)
    PROVE  RunInv'
  <1> USE DEF RunInv
  <1>0. pc # "start" /\ pc # "round" /\ pc # "choose" /\ pc # "apply" /\ pc # "verify"
        /\ pc # "review" /\ pc # "deliver" /\ pc # "decide" /\ pc # "stop"
    BY DEF Racing
  <1>a. /\ ended \subseteq Worker /\ pending \subseteq Worker /\ batch \subseteq Worker
        /\ fresh \subseteq Worker /\ errors \subseteq Worker /\ winner \in Worker \cup {None}
        /\ verdict \in [Worker -> Verdict] /\ clock \in Nat /\ expired \in BOOLEAN
    BY DEF TypeOK
  <1>1. ASSUME UNCHANGED <<pc, pending, batch, fresh, verdict, errors, winner, clock, call>>,
               ended' \subseteq Worker, expired' \in BOOLEAN, expired => expired'
        PROVE  RunInv'
    <2>1. TypeOK'
      BY <1>1, <1>a, RaceTypes
    <2>2. (LeaseIsFree /\ RoundOK /\ SuccessStands)'
      BY <1>1 DEF LeaseIsFree, RoundOK, SuccessStands, call
    <2>3. RaceOK'
      BY <1>1 DEF RaceOK, Partition, Stamped, NobodyGood, Best
    <2>4. RaceIsFair'
      BY <1>1 DEF RaceIsFair, call
    <2> QED BY <2>1, <2>2, <2>3, <2>4
  <1>2. CASE \E w \in Worker : WorkerEnds(w)
    <2>1. PICK w \in Worker : WorkerEnds(w)
      BY <1>2
    <2>2. /\ UNCHANGED <<pc, pending, batch, fresh, verdict, errors, winner, clock, expired, call>>
          /\ ended' = ended \cup {w}
      BY <2>1 DEF WorkerEnds
    <2>3. ended' \subseteq Worker /\ expired' \in BOOLEAN
      BY <2>2 DEF TypeOK
    <2> QED BY <1>1, <2>2, <2>3
  <1>3. CASE Expires
    BY <1>1, <1>3 DEF Expires, call, TypeOK
  <1>4. ASSUME call' = call, pc' \in Racing, TypeOK', RaceOK' PROVE RunInv'
    <2>1. LeaseIsFree' /\ RoundOK' /\ SuccessStands'
      BY <1>0, <1>4 DEF call, LeaseIsFree, RoundOK, SuccessStands, Racing
    <2>2. RaceIsFair'
      BY <1>0, <1>4 DEF call, RaceIsFair, RoundOK, Racing
    <2> QED BY <1>4, <2>1, <2>2
  <1>5. CASE Check
    <2>1. call' = call /\ race' = race /\ pc = "check"
          /\ pc' = IF pending = {} \/ expired THEN "finish" ELSE "wait"
      BY <1>5 DEF Check
    <2>2. TypeOK' /\ pc' \in Racing
      BY <1>a, <2>1, RaceTypes DEF race, Racing
    <2>3. RaceOK'
      BY <2>1 DEF RaceOK, race, Racing, Partition, Stamped, NobodyGood, Best
    <2> QED BY <1>4, <2>1, <2>2, <2>3
  <1>6. CASE Wait
    <2>1. /\ pc = "wait" /\ pc' = IF pending \cap ended = {} THEN "finish" ELSE "judge"
          /\ batch' = pending \cap ended /\ pending' = pending \ ended /\ fresh' = {}
          /\ (pending \cap ended # {} \/ expired)
          /\ UNCHANGED <<ended, verdict, errors, winner, clock, expired, call>>
      BY <1>6 DEF Wait
    <2>2. TypeOK' /\ pc' \in Racing
      BY <1>a, <2>1, RaceTypes DEF Racing
    <2>3. Partition' /\ Stamped' /\ NobodyGood'
      BY <2>1 DEF RaceOK, Racing, Partition, Stamped, NobodyGood
    <2>4. fresh' = {w \in Worker : Good(verdict'[w])}
      BY <2>1, <2>3 DEF NobodyGood
    <2>5. RaceOK'
      BY <2>1, <2>3, <2>4 DEF RaceOK
    <2> QED BY <1>4, <2>1, <2>2, <2>5
  <1>7. ASSUME NEW w \in Worker, Judge(w) PROVE RunInv'
    <2>1. PICK valid \in BOOLEAN, score \in Score :
             /\ pc = "judge" /\ w \in batch /\ Judges(w, valid, score)
             /\ fresh' = IF Good(verdict'[w]) THEN fresh \cup {w} ELSE fresh
             /\ UNCHANGED <<pc, ended, pending, errors, winner, expired, call>>
      BY <1>7 DEF Judge
    <2>2. /\ batch' \subseteq Worker /\ verdict' \in [Worker -> Verdict] /\ clock' \in Nat
          /\ \A u \in Worker : u # w => verdict'[u] = verdict[u]
          /\ ~Good(verdict[w]) /\ Partition' /\ Stamped'
      BY <2>1, JudgesKeeps
    <2>3. TypeOK' /\ pc' \in Racing
      <3>1. fresh' \subseteq Worker
        BY <2>1 DEF TypeOK
      <3>2. UNCHANGED <<pc, ended, pending, errors, winner, expired>> /\ call' = call
        BY <2>1
      <3>3. pc \in Racing /\ TypeOK
        OBVIOUS
      <3> QED BY <2>2, <3>1, <3>2, <3>3 DEF TypeOK, call
    <2>4. fresh' = {u \in Worker : Good(verdict'[u])}
      BY <2>1, <2>2 DEF RaceOK
    <2>5. RaceOK'
      BY <2>1, <2>2, <2>4 DEF RaceOK
    <2> QED BY <1>4, <2>1, <2>3, <2>5
  <1>8. ASSUME NEW w \in Worker, Fault(w) PROVE RunInv'
    <2>1. /\ pc \in {"judge", "graced"} /\ w \in batch
          /\ batch' = batch \ {w} /\ errors' = errors \cup {w}
          /\ UNCHANGED <<pc, ended, pending, fresh, verdict, winner, clock, expired, call>>
      BY <1>8 DEF Fault
    <2>2. TypeOK' /\ pc' \in Racing
      <3>1. batch' \subseteq Worker /\ errors' \subseteq Worker
        BY <2>1 DEF TypeOK
      <3>2. pc \in Racing /\ TypeOK
        OBVIOUS
      <3> QED BY <1>a, <2>1, <3>1, <3>2, RaceTypes
    <2>3. Partition' /\ Stamped'
      BY <2>1 DEF RaceOK, Racing, Partition, Stamped
    <2>4. RaceOK'
      BY <2>1, <2>3 DEF RaceOK, Best
    <2> QED BY <1>4, <2>1, <2>2, <2>4
  <1>9. ASSUME NEW w \in Worker, Interrupt(w) PROVE RunInv'
    <2>1. /\ pc' = "stop" /\ outcome' = "interrupted"
          /\ UNCHANGED <<race, request, baseline, report, round, applied, opened, owner, ws>>
      BY <1>9 DEF Interrupt, Return
    <2>2. TypeOK'
      BY <2>1 DEF TypeOK, race
    <2>3. LeaseIsFree' /\ RaceOK' /\ RoundOK'
      BY <1>0, <2>1 DEF LeaseIsFree, RaceOK, RoundOK, race, Racing
    <2>4. RaceIsFair' /\ SuccessStands'
      BY <2>1 DEF RaceIsFair, SuccessStands
    <2> QED BY <2>2, <2>3, <2>4
  <1>10. CASE PickWinner
    <2>1. /\ pc = "judge" /\ batch = {}
          /\ UNCHANGED <<ended, pending, batch, fresh, verdict, errors, clock, expired, call>>
      BY <1>10 DEF PickWinner
    <2>2. Partition' /\ Stamped'
      BY <2>1 DEF RaceOK, Racing, Partition, Stamped
    <2>3. CASE fresh = {}
      <3>1. pc' = "check" /\ winner' = winner
        BY <1>10, <2>3 DEF PickWinner
      <3>2. TypeOK' /\ pc' \in Racing
        BY <1>a, <2>1, <3>1, RaceTypes DEF Racing
      <3>3. RaceOK'
        BY <2>1, <2>2, <2>3, <3>1 DEF RaceOK, NobodyGood
      <3> QED BY <1>4, <2>1, <3>2, <3>3
    <2>4. CASE fresh # {}
      <3>1. /\ pc' = IF pending = {} THEN "finish" ELSE "grace"
            /\ winner' \in fresh /\ \A v \in fresh : Beats(verdict[winner'], verdict[v])
        BY <1>10, <2>4 DEF PickWinner
      <3>2. TypeOK' /\ pc' \in Racing
        BY <1>a, <2>1, <3>1, RaceTypes DEF Racing
      <3>3. Best'
        BY <2>1, <3>1, RaceAssumption DEF RaceOK, Best
      <3>4. RaceOK'
        BY <2>1, <2>2, <3>1, <3>3 DEF RaceOK
      <3> QED BY <1>4, <2>1, <3>2, <3>4
    <2> QED BY <2>3, <2>4
  <1>11. CASE GraceEnds
    <2>1. /\ pc = "grace" /\ pc' = "graced"
          /\ batch' = pending \cap ended /\ pending' = pending \ ended
          /\ UNCHANGED <<ended, fresh, verdict, errors, winner, clock, expired, call>>
      BY <1>11 DEF GraceEnds
    <2>2. TypeOK' /\ pc' \in Racing
      BY <1>a, <2>1, RaceTypes DEF Racing
    <2>3. RaceOK'
      BY <2>1 DEF RaceOK, Racing, Partition, Stamped, Best
    <2> QED BY <1>4, <2>1, <2>2, <2>3
  <1>12. ASSUME NEW w \in Worker, JudgeGraced(w) PROVE RunInv'
    <2>1. PICK valid \in BOOLEAN, score \in Score :
             /\ pc = "graced" /\ w \in batch /\ Judges(w, valid, score)
             /\ winner' = IF Good(verdict'[w]) /\ score > verdict[winner].score THEN w ELSE winner
             /\ UNCHANGED <<pc, ended, pending, fresh, errors, expired, call>>
      BY <1>12 DEF JudgeGraced
    <2>2. /\ batch' \subseteq Worker /\ verdict' \in [Worker -> Verdict] /\ clock' \in Nat
          /\ verdict'[w] = [judged |-> TRUE, valid |-> valid, score |-> score, at |-> clock + 1]
          /\ \A u \in Worker : u # w => verdict'[u] = verdict[u]
          /\ ~Good(verdict[w]) /\ Partition' /\ Stamped'
      BY <2>1, JudgesKeeps
    <2>3. TypeOK' /\ pc' \in Racing
      BY <1>a, <2>1, <2>2, RaceTypes DEF Racing
    <2>4. /\ Best /\ winner \in Worker /\ winner # w /\ clock \in Nat /\ score \in Nat
          /\ verdict[winner].at <= clock
          /\ \A u \in Worker : verdict[u].score \in Nat /\ verdict[u].at \in Nat
      BY <2>1, <2>2, RaceAssumption DEF RaceOK, TypeOK, Best, Good, Stamped, Racing, Verdict
    <2>5. Best'
      <3>1. CASE winner' = w /\ Good(verdict'[w]) /\ score > verdict[winner].score
        <4>1. winner' # None /\ Good(verdict'[winner'])
          BY <3>1, RaceAssumption
        <4>2. Beats(verdict'[w], verdict'[w])
          BY <2>2, <2>4 DEF Beats
        <4>3. ASSUME NEW u \in Worker, u # w, Good(verdict'[u])
              PROVE  Beats(verdict'[w], verdict'[u])
          <5>1. verdict'[u] = verdict[u] /\ Beats(verdict[winner], verdict[u])
            BY <2>2, <2>4, <4>3 DEF Best
          <5>2. verdict'[w].score = score
            BY <2>2
          <5> QED BY <2>4, <3>1, <5>1, <5>2 DEF Beats
        <4> QED BY <3>1, <4>1, <4>2, <4>3 DEF Best
      <3>2. CASE winner' = winner /\ ~(Good(verdict'[w]) /\ score > verdict[winner].score)
        <4> SUFFICES ASSUME NEW u \in Worker, Good(verdict'[u])
                     PROVE  Beats(verdict'[winner], verdict'[u])
          BY <2>2, <2>4, <3>2 DEF Best
        <4>1. CASE u = w
          <5>1. verdict'[winner] = verdict[winner]
            BY <2>2, <2>4
          <5>2. verdict'[w].score = score /\ verdict'[w].at = clock + 1
            BY <2>2
          <5>5. Good(verdict'[w])
            BY <4>1
          <5>6. ~(score > verdict[winner].score)
            BY <3>2, <5>5
          <5>3. verdict[winner].score \in Nat /\ verdict[winner].at \in Nat
            BY <2>4
          <5>4. \/ verdict[winner].score > score
                \/ verdict[winner].score = score /\ verdict[winner].at <= clock + 1
            <6>1. score \in Nat /\ clock \in Nat /\ verdict[winner].at <= clock
              BY <2>4
            <6> QED BY <5>3, <5>6, <6>1
          <5> QED BY <4>1, <5>1, <5>2, <5>4 DEF Beats
        <4>2. CASE u # w
          BY <2>2, <2>4, <3>2, <4>2 DEF Best
        <4> QED BY <4>1, <4>2
      <3> QED BY <2>1, <3>1, <3>2
    <2>6. RaceOK'
      BY <2>1, <2>2, <2>5 DEF RaceOK
    <2> QED BY <1>4, <2>1, <2>3, <2>6
  <1>13. CASE GraceJudged
    <2>1. /\ pc = "graced" /\ batch = {} /\ pc' = "finish" /\ race' = race /\ call' = call
      BY <1>13 DEF GraceJudged
    <2>2. TypeOK' /\ pc' \in Racing
      BY <1>a, <2>1, RaceTypes DEF race, Racing
    <2>3. RaceOK'
      BY <2>1 DEF RaceOK, race, Racing, Partition, Stamped, Best
    <2> QED BY <1>4, <2>1, <2>2, <2>3
  <1>14. CASE Finish
    <2>1. /\ pc = "finish"
          /\ UNCHANGED <<ended, pending, batch, fresh, verdict, winner, clock, expired,
                         request, baseline, report, round, applied, opened, owner, ws>>
          /\ \/ winner = None /\ pc' = "stop" /\ outcome' = "no winner" /\ errors' = errors
             \/ winner # None /\ pc' = "choose" /\ errors' = errors \cup pending /\ outcome' = outcome
      BY <1>14 DEF Finish, Return
    <2>2. TypeOK'
      <3>1. pc' \in {"stop", "choose"} /\ outcome' \in {"no winner", outcome}
        BY <2>1
      <3>2. errors' \subseteq Worker
        BY <1>a, <2>1
      <3> QED BY <2>1, <3>1, <3>2, FinishTypes
    <2>3. LeaseIsFree' /\ RaceOK' /\ RoundOK' /\ SuccessStands'
      BY <1>0, <2>1 DEF LeaseIsFree, RaceOK, RoundOK, SuccessStands, Racing
    <2>4. RaceIsFair'
      <3>1. Partition /\ batch = {}
        BY <2>1 DEF RaceOK, Racing
      <3>2. CASE winner = None
        <4>1. NobodyGood /\ (expired \/ pending = {})
          BY <2>1, <3>2 DEF RaceOK, Best
        <4> QED BY <2>1, <3>1, <3>2, <4>1 DEF RaceIsFair, NobodyGood, Partition
      <3>3. CASE winner # None
        <4>1. Best /\ outcome' = "open"
          BY <1>0, <2>1, <3>3 DEF RaceOK, RoundOK
        <4>2. \A w \in Worker : verdict'[w].judged <=> w \notin errors'
          BY <2>1, <3>1, <3>3 DEF Partition
        <4> QED BY <2>1, <3>3, <4>1, <4>2 DEF RaceIsFair, Best
      <3> QED BY <3>2, <3>3
    <2> QED BY <2>2, <2>3, <2>4
  <1> QED
    BY <1>0, <1>2, <1>3, <1>5, <1>6, <1>7, <1>8, <1>9, <1>10, <1>11, <1>12, <1>13, <1>14
       DEF Step, Baseline, StartRace, NoAction, Acquire, ApplyFails, Respond, Apply, Verify,
           VerifyRaises, Review, Deliver, Decide

\* Every step of a round outside its race preserves the invariant.
LEMMA RoundStep ==
    ASSUME RunInv, pc \notin Racing, Step
    PROVE  RunInv'
  <1> USE DEF RunInv
  <1>0. /\ pc # "check" /\ pc # "wait" /\ pc # "judge" /\ pc # "grace" /\ pc # "graced"
        /\ pc # "finish"
    BY DEF Racing
  <1>1. CASE StartRace
    <2>1. TypeOK'
      <3>1. round' \in 0..MaxRounds
        BY <1>1, RaceAssumption DEF StartRace, TypeOK, RoundOK
      <3>2. verdict' \in [Worker -> Verdict]
        BY <1>1 DEF StartRace, Unjudged, Verdict
      <3> QED BY <1>1, <3>1, <3>2 DEF StartRace, TypeOK, Racing, Report
    <2>2. LeaseIsFree' /\ RoundOK' /\ RaceIsFair' /\ SuccessStands'
      BY <1>1 DEF StartRace, LeaseIsFree, RoundOK, RaceIsFair, SuccessStands
    <2>3. RaceOK'
      BY <1>1 DEF StartRace, RaceOK, Racing, Partition, Stamped, NobodyGood, Good, Unjudged
    <2> QED BY <2>1, <2>2, <2>3
  \* Where the race is left alone, only the rounds need a look.
  <1>2. ASSUME race' = race, pc' \in {"round", "choose", "apply", "verify", "review", "deliver",
                                     "decide", "stop"},
               pc' = "choose" => pc = "choose",
               pc' \in {"apply", "verify", "review", "deliver", "decide"} =>
                   pc \in {"choose", "apply", "verify", "review", "deliver", "decide"},
               outcome' # "no winner",
               TypeOK', LeaseIsFree', RoundOK', SuccessStands'
        PROVE  RunInv'
    <2>1. RaceOK'
      BY <1>2 DEF RaceOK, Racing
    <2>2. RaceIsFair'
      BY <1>2 DEF RaceIsFair, race
    <2> QED BY <1>2, <2>1, <2>2
  <1>3. outcome = "open"
    <2>1. pc # "stop"
      BY DEF Step, Baseline, StartRace, Check, Wait, Judge, Fault, Interrupt, JudgeGraced, PickWinner,
             GraceEnds, GraceJudged, Finish, NoAction, Acquire, ApplyFails, Respond, Apply, Verify,
             VerifyRaises, Review, Deliver, Decide
    <2> QED BY <2>1 DEF RoundOK
  <1>4. ASSUME NextRound PROVE
          /\ pc' \in {"round", "stop"} /\ outcome' \in {"open", "exhausted"}
          /\ pc' = "stop" <=> outcome' # "open"
          /\ pc' = "round" => round < MaxRounds
    BY <1>3, <1>4 DEF NextRound, Return
  <1>a. /\ baseline \in Report /\ report \in Report /\ ws \in Report
        /\ round \in 0..MaxRounds /\ applied \in {"nothing", "write", "run", "browser", "respond"}
        /\ opened \in BOOLEAN /\ owner \in Worker \cup {None} /\ winner \in Worker \cup {None}
        /\ "none" \in Report
    BY DEF TypeOK, Report
  <1>5. CASE Baseline
    <2>1. TypeOK'
      BY <1>a, <1>3, <1>5, RoundTypes DEF Baseline
    <2>2. LeaseIsFree' /\ RoundOK' /\ SuccessStands' /\ outcome' # "no winner"
      BY <1>3, <1>5 DEF Baseline, LeaseIsFree, RoundOK, SuccessStands
    <2> QED BY <1>2, <1>5, <2>1, <2>2 DEF Baseline
  <1>6. CASE NoAction
    <2>1. /\ pc = "choose" /\ race' = race
          /\ UNCHANGED <<request, baseline, report, round, applied, opened, owner, ws>>
          /\ \/ request.mode = "plan_ok" /\ pc' = "stop" /\ outcome' = "ok"
             \/ NextRound
      BY <1>6 DEF NoAction, Return
    <2>2. TypeOK'
      BY <1>a, <1>3, <1>4, <2>1, RoundTypes
    <2>3. LeaseIsFree' /\ RoundOK' /\ SuccessStands' /\ outcome' # "no winner"
      BY <1>3, <1>4, <2>1 DEF LeaseIsFree, RoundOK, SuccessStands
    <2> QED BY <1>2, <1>4, <2>1, <2>2, <2>3
  <1>7. CASE Acquire
    <2>1. /\ pc = "choose" /\ race' = race /\ owner' = winner /\ pc' = "apply" /\ outcome' = outcome
          /\ UNCHANGED <<request, baseline, report, round, applied, opened, ws>>
      BY <1>7 DEF Acquire, LeaseIsFree
    <2>2. TypeOK'
      BY <1>a, <1>3, <2>1, RoundTypes
    <2>3. LeaseIsFree' /\ RoundOK' /\ SuccessStands' /\ outcome' # "no winner"
      BY <1>3, <2>1 DEF LeaseIsFree, RoundOK, SuccessStands, race
    <2> QED BY <1>2, <2>1, <2>2, <2>3
  <1>8. CASE ApplyFails
    <2>1. /\ pc = "apply" /\ race' = race /\ owner' = None /\ ws' \in Report /\ NextRound
          /\ UNCHANGED <<request, baseline, report, round, applied, opened>>
      BY <1>8 DEF ApplyFails
    <2>2. TypeOK'
      BY <1>a, <1>3, <1>4, <2>1, RoundTypes
    <2>3. LeaseIsFree' /\ RoundOK' /\ SuccessStands' /\ outcome' # "no winner"
      BY <1>4, <2>1 DEF LeaseIsFree, RoundOK, SuccessStands
    <2> QED BY <1>2, <1>4, <2>1, <2>2, <2>3
  <1>9. ASSUME NEW kind \in {"write", "run", "browser"}, Apply(kind) PROVE RunInv'
    <2>1. /\ pc = "apply" /\ race' = race /\ owner' = None /\ applied' = kind /\ pc' = "verify"
          /\ ws' \in Report /\ opened' = (opened \/ kind = "browser")
          /\ UNCHANGED <<request, baseline, report, outcome, round>>
      BY <1>9 DEF Apply, TypeOK
    <2>2. TypeOK'
      BY <1>a, <1>3, <2>1, RoundTypes
    <2>3. LeaseIsFree' /\ RoundOK' /\ SuccessStands' /\ outcome' # "no winner"
      BY <1>3, <2>1 DEF LeaseIsFree, RoundOK, SuccessStands
    <2> QED BY <1>2, <2>1, <2>2, <2>3
  <1>10. CASE Respond
    <2>1. /\ pc = "apply" /\ race' = race /\ owner' = None /\ applied' = "respond"
          /\ UNCHANGED <<request, baseline, report, round, opened, ws>>
          /\ NextRound \/ (pc' = "verify" /\ outcome' = outcome)
      BY <1>10 DEF Respond
    <2>2. TypeOK'
      BY <1>a, <1>3, <1>4, <2>1, RoundTypes
    <2>3. LeaseIsFree' /\ RoundOK' /\ SuccessStands' /\ outcome' # "no winner"
      BY <1>3, <1>4, <2>1 DEF LeaseIsFree, RoundOK, SuccessStands
    <2> QED BY <1>2, <1>4, <2>1, <2>2, <2>3
  <1>11. CASE Verify
    <2>1. /\ pc = "verify" /\ pc' = "review" /\ race' = race
          /\ report' = IF request.mode = "applied" THEN "none" ELSE ws
          /\ UNCHANGED <<request, baseline, outcome, round, applied, opened, owner, ws>>
      BY <1>11 DEF Verify
    <2>2. TypeOK'
      BY <1>a, <1>3, <2>1, RoundTypes
    <2>3. LeaseIsFree' /\ RoundOK' /\ SuccessStands' /\ outcome' # "no winner"
      BY <1>3, <2>1 DEF LeaseIsFree, RoundOK, SuccessStands
    <2> QED BY <1>2, <2>1, <2>2, <2>3
  <1>12. CASE VerifyRaises
    <2>1. /\ pc \in {"start", "verify"} /\ pc' = "stop" /\ outcome' = "raised" /\ race' = race
          /\ UNCHANGED <<request, baseline, report, round, applied, opened, owner, ws>>
      BY <1>12 DEF VerifyRaises, Return
    <2>2. TypeOK'
      BY <1>a, <1>3, <2>1, RoundTypes
    <2>3. LeaseIsFree' /\ RoundOK' /\ SuccessStands'
      BY <2>1 DEF LeaseIsFree, RoundOK, SuccessStands
    <2> QED BY <1>2, <2>1, <2>2, <2>3
  <1>13. CASE Review
    <2>1. /\ pc = "review" /\ race' = race
          /\ UNCHANGED <<request, baseline, report, round, applied, opened, owner, ws>>
          /\ NextRound \/ (pc' = "deliver" /\ outcome' = outcome)
      BY <1>13 DEF Review
    <2>2. TypeOK'
      BY <1>a, <1>3, <1>4, <2>1, RoundTypes
    <2>3. LeaseIsFree' /\ RoundOK' /\ SuccessStands' /\ outcome' # "no winner"
      BY <1>3, <1>4, <2>1 DEF LeaseIsFree, RoundOK, SuccessStands
    <2> QED BY <1>2, <1>4, <2>1, <2>2, <2>3
  <1>14. CASE Deliver
    <2>1. /\ pc = "deliver" /\ race' = race
          /\ UNCHANGED <<request, baseline, report, round, applied, owner, ws>>
          /\ \/ /\ request.browser /\ applied = "write" /\ opened' = TRUE
                /\ pc' = "stop" /\ outcome' = "ok"
             \/ opened' = opened /\ pc' = "decide" /\ outcome' = outcome
      BY <1>14 DEF Deliver, Return
    <2>2. TypeOK'
      BY <1>a, <1>3, <2>1, RoundTypes
    <2>3. LeaseIsFree' /\ RoundOK' /\ SuccessStands' /\ outcome' # "no winner"
      BY <1>3, <2>1 DEF LeaseIsFree, RoundOK, SuccessStands
    <2> QED BY <1>2, <2>1, <2>2, <2>3
  <1>15. CASE Decide
    <2>1. /\ pc = "decide" /\ race' = race
          /\ UNCHANGED <<request, baseline, report, round, applied, opened, owner, ws>>
          /\ \/ /\ request.mode # "pytest" \/ report \in {"none", "green", baseline}
                /\ pc' = "stop" /\ outcome' = "ok"
             \/ NextRound
      BY <1>15 DEF Decide, Return
    <2>2. TypeOK'
      BY <1>a, <1>3, <1>4, <2>1, RoundTypes
    <2>3. LeaseIsFree' /\ RoundOK' /\ SuccessStands' /\ outcome' # "no winner"
      BY <1>3, <1>4, <2>1 DEF LeaseIsFree, RoundOK, SuccessStands
    <2> QED BY <1>2, <1>4, <2>1, <2>2, <2>3
  <1> QED
    BY <1>0, <1>1, <1>5, <1>6, <1>7, <1>8, <1>9, <1>10, <1>11, <1>12, <1>13, <1>14, <1>15
       DEF Step, Check, Wait, Judge, Fault, Interrupt, JudgeGraced, PickWinner, GraceEnds,
           GraceJudged, Finish

LEMMA InvCorrect == Spec => []RunInv
  <1>1. RunInv /\ [Next]_vars => RunInv'
    <2> SUFFICES ASSUME RunInv, [Next]_vars PROVE RunInv'
      OBVIOUS
    <2>1. CASE UNCHANGED vars
      <3>1. TypeOK'
        <4>1. TypeOK
          BY DEF RunInv
        <4>2. /\ pc' = pc /\ request' = request /\ baseline' = baseline /\ report' = report
              /\ outcome' = outcome /\ round' = round /\ applied' = applied
              /\ owner' = owner /\ ws' = ws /\ ended' = ended /\ pending' = pending
              /\ batch' = batch /\ fresh' = fresh /\ verdict' = verdict /\ errors' = errors
              /\ winner' = winner /\ clock' = clock
          BY <2>1 DEF vars
        <4>3. opened' = opened /\ expired' = expired
          BY <2>1, Zenon DEF vars
        <4>4. opened' \in BOOLEAN /\ expired' \in BOOLEAN
          BY <4>1, <4>3 DEF TypeOK
        <4>5. /\ pc' \in Racing \cup {"start", "round", "choose", "apply", "verify", "review",
                                      "deliver", "decide", "stop"}
              /\ request' \in [mode : {"pytest", "applied", "plan_ok"}, browser : BOOLEAN]
              /\ {baseline', report', ws'} \subseteq Report
              /\ outcome' \in {"open", "ok", "no winner", "exhausted", "locked", "raised", "interrupted"}
          BY <4>1, <4>2 DEF TypeOK
        <4>6. /\ round' \in 0..MaxRounds
              /\ applied' \in {"nothing", "write", "run", "browser", "respond"}
              /\ owner' \in Worker \cup {None}
              /\ ended' \subseteq Worker /\ pending' \subseteq Worker
              /\ batch' \subseteq Worker /\ fresh' \subseteq Worker
              /\ verdict' \in [Worker -> Verdict] /\ errors' \subseteq Worker
              /\ winner' \in Worker \cup {None} /\ clock' \in Nat
          BY <4>1, <4>2 DEF TypeOK
        <4> QED BY <4>4, <4>5, <4>6 DEF TypeOK
      <3>4. LeaseIsFree' /\ RoundOK' /\ SuccessStands'
        <4>1. LeaseIsFree'
          BY <2>1 DEF vars, RunInv, LeaseIsFree
        <4>2. RoundOK'
          BY <2>1 DEF vars, RunInv, RoundOK
        <4>3. SuccessStands'
          BY <2>1 DEF vars, RunInv, SuccessStands
        <4> QED BY <4>1, <4>2, <4>3
      <3>2. RaceOK'
        BY <2>1 DEF vars, RunInv, RaceOK, Partition, Stamped, NobodyGood, Best
      <3>3. RaceIsFair'
        BY <2>1 DEF vars, RunInv, RaceIsFair
      <3> QED BY <3>1, <3>2, <3>3, <3>4 DEF RunInv
    <2>2. CASE Next
      BY <2>2, RaceStep, RoundStep DEF Next, Expires, WorkerEnds
    <2> QED BY <2>1, <2>2
  <1> QED BY <1>1, InitInv, PTL DEF Spec

-----------------------------------------------------------------------------
\* The locals of the call and of the race keep their types.
THEOREM TypeCorrect == Spec => []TypeOK
  BY InvCorrect, PTL DEF RunInv

\* The winner of a race is the best proposal the race has seen, and every
\* worker is reported once.
THEOREM FairCorrect == Spec => []RaceIsFair
  BY InvCorrect, PTL DEF RunInv

\* Success means that something was applied and, on a verified request, that
\* the workspace stands as it is or a browser opened on what was written.
THEOREM SuccessCorrect == Spec => []SuccessStands
  BY InvCorrect, PTL DEF RunInv

\* The lease is the winner's while its action is applied and free otherwise,
\* whichever way the round goes on.
THEOREM LeaseCorrect == Spec => []LeaseIsFree
  BY InvCorrect, PTL DEF RunInv

-----------------------------------------------------------------------------
(* Every call shrinks *)

\* How far a round has come; the loop of a race is one place.
Ahead ==
    CASE pc = "start" -> 11
      [] pc \in {"check", "wait", "judge"} -> 10
      [] pc = "grace" -> 9
      [] pc = "graced" -> 8
      [] pc = "finish" -> 7
      [] pc = "choose" -> 6
      [] pc = "apply" -> 5
      [] pc = "verify" -> 4
      [] pc = "review" -> 3
      [] pc = "deliver" -> 2
      [] pc = "decide" -> 1
      [] OTHER -> 0

\* The loop waits, judges, and looks again.
LoopLeft == CASE pc = "judge" -> 2 [] pc = "check" -> 1 [] OTHER -> 0

\* What is left of a call: rounds, the rest of this one, and in its race the
\* workers to wait for and the proposals to judge.
Left == <<MaxRounds - round, Ahead, Cardinality(pending), LoopLeft, Cardinality(batch)>>

CallShrinks == [][Step => pc # "stop" /\ (pc' = "stop" \/ Below(5, Left', Left))]_vars

\* What is left is left alone by the workers and by the clock.
OthersKeepLeft == [][~Step => UNCHANGED Left]_vars

LEMMA LeftType ==
    ASSUME IsFiniteSet(Worker), TypeOK
    PROVE  /\ Left \in Tuples(5)
           /\ IsFiniteSet(pending) /\ IsFiniteSet(batch)
  <1>1. IsFiniteSet(pending) /\ IsFiniteSet(batch)
    BY FS_Subset DEF TypeOK
  <1>2. Cardinality(pending) \in Nat /\ Cardinality(batch) \in Nat
    BY <1>1, FS_CardinalityType
  <1>a. round \in 0 .. MaxRounds
    BY DEF TypeOK
  <1>3. MaxRounds - round \in Nat
    BY <1>a, RaceAssumption
  <1>4. Ahead \in Nat /\ LoopLeft \in Nat
    BY DEF Ahead, LoopLeft
  <1> QED BY <1>1, <1>2, <1>3, <1>4 DEF Left, Tuples

\* One part falls and those before it stay.
LEMMA LeftFalls ==
    ASSUME \/ (MaxRounds - round)' < MaxRounds - round
           \/ round' = round /\ Ahead' < Ahead
           \/ /\ UNCHANGED <<round, Ahead>>
              /\ \/ Cardinality(pending)' < Cardinality(pending)
                 \/ pending' = pending /\ LoopLeft' < LoopLeft
                 \/ /\ UNCHANGED <<pending, LoopLeft>>
                    /\ Cardinality(batch)' < Cardinality(batch)
    PROVE  Below(5, Left', Left)
  BY DEF Below, Left

\* The coordinator of a race comes to its end.
LEMMA RaceFalls ==
    ASSUME IsFiniteSet(Worker), RunInv,
           \/ Check \/ Wait \/ PickWinner \/ GraceEnds \/ GraceJudged \/ Finish
           \/ \E w \in Worker : Judge(w) \/ Fault(w) \/ Interrupt(w) \/ JudgeGraced(w)
    PROVE  pc # "stop" /\ (pc' = "stop" \/ Below(5, Left', Left))
  <1>0. TypeOK /\ IsFiniteSet(pending) /\ IsFiniteSet(batch)
    BY LeftType DEF RunInv
  <1>1. CASE Check
    <2>1. /\ pc = "check" /\ pc' \in {"finish", "wait"} /\ UNCHANGED <<round, pending>>
      BY <1>1 DEF Check, race, call
    <2>2. Ahead' < Ahead \/ (Ahead' = Ahead /\ LoopLeft' < LoopLeft)
      BY <2>1 DEF Ahead, LoopLeft
    <2> QED BY <2>1, <2>2, LeftFalls
  <1>2. CASE Wait
    <2>1. /\ pc = "wait" /\ round' = round /\ pending' = pending \ ended
          /\ pc' = IF pending \cap ended = {} THEN "finish" ELSE "judge"
      BY <1>2 DEF Wait, call
    <2>2. CASE pending \cap ended = {}
      <3>1. Ahead' < Ahead
        BY <2>1, <2>2 DEF Ahead
      <3> QED BY <2>1, <3>1, LeftFalls
    <2>3. CASE pending \cap ended # {}
      <3>1. Ahead' = Ahead
        BY <2>1, <2>3 DEF Ahead
      <3>2. Cardinality(pending') < Cardinality(pending)
        BY <1>0, <2>1, <2>3, FewerElements
      <3> QED BY <2>1, <3>1, <3>2, LeftFalls
    <2> QED BY <2>2, <2>3
  <1>3. CASE PickWinner
    <2>1. pc = "judge" /\ pc' \in {"check", "finish", "grace"} /\ UNCHANGED <<round, pending>>
      BY <1>3 DEF PickWinner, call
    <2>2. Ahead' < Ahead \/ (Ahead' = Ahead /\ LoopLeft' < LoopLeft)
      BY <2>1 DEF Ahead, LoopLeft
    <2> QED BY <2>1, <2>2, LeftFalls
  <1>4. CASE GraceEnds \/ GraceJudged \/ Finish
    <2>1. /\ round' = round
          /\ \/ pc = "grace" /\ pc' = "graced"
             \/ pc = "graced" /\ pc' = "finish"
             \/ pc = "finish" /\ pc' \in {"stop", "choose"}
      BY <1>4 DEF GraceEnds, GraceJudged, Finish, Return, call
    <2>2. pc' = "stop" \/ Ahead' < Ahead
      BY <2>1 DEF Ahead
    <2> QED BY <2>1, <2>2, LeftFalls
  <1>5. ASSUME NEW w \in Worker, Judge(w) \/ Fault(w) \/ JudgeGraced(w)
        PROVE  pc # "stop" /\ (pc' = "stop" \/ Below(5, Left', Left))
    <2>1. /\ pc \in {"judge", "graced"} /\ w \in batch /\ batch' = batch \ {w}
          /\ UNCHANGED <<pc, round, pending>>
      BY <1>5 DEF Judge, Fault, JudgeGraced, Judges, call
    <2>2. UNCHANGED <<Ahead, LoopLeft>>
      BY <2>1 DEF Ahead, LoopLeft
    <2>3. Cardinality(batch') < Cardinality(batch)
      BY <1>0, <2>1, FewerElements
    <2> QED BY <2>1, <2>2, <2>3, LeftFalls
  <1>6. ASSUME NEW w \in Worker, Interrupt(w) PROVE pc # "stop" /\ pc' = "stop"
    BY <1>6 DEF Interrupt, Return
  <1> QED BY <1>1, <1>2, <1>3, <1>4, <1>5, <1>6

LEMMA StepFalls ==
    ASSUME IsFiniteSet(Worker), RunInv, Step
    PROVE  pc # "stop" /\ (pc' = "stop" \/ Below(5, Left', Left))
  <1>1. CASE StartRace
    <2>1. round \in 0 .. MaxRounds
      BY DEF RunInv, TypeOK
    <2>2. pc = "round" /\ round' = round + 1
      BY <1>1 DEF StartRace
    <2>3. (MaxRounds - round)' < MaxRounds - round
      BY <2>1, <2>2, RaceAssumption
    <2> QED BY <2>2, <2>3, LeftFalls
  <1>2. ASSUME round' = round,
               \/ pc = "start" /\ pc' = "round"
               \/ pc = "choose" /\ pc' \in {"apply", "round", "stop"}
               \/ pc = "apply" /\ pc' \in {"verify", "round", "stop"}
               \/ pc = "verify" /\ pc' = "review"
               \/ pc \in {"start", "verify"} /\ pc' = "stop"
               \/ pc = "review" /\ pc' \in {"deliver", "round", "stop"}
               \/ pc = "deliver" /\ pc' \in {"decide", "stop"}
               \/ pc = "decide" /\ pc' \in {"round", "stop"}
        PROVE  pc # "stop" /\ (pc' = "stop" \/ Below(5, Left', Left))
    <2>1. pc # "stop" /\ (pc' = "stop" \/ Ahead' < Ahead)
      BY <1>2 DEF Ahead
    <2> QED BY <1>2, <2>1, LeftFalls
  <1>3. CASE Baseline \/ NoAction \/ Acquire \/ ApplyFails \/ Respond \/ Verify \/ VerifyRaises
             \/ Review \/ Deliver \/ Decide \/ \E kind \in {"write", "run", "browser"} : Apply(kind)
    BY <1>2, <1>3 DEF Baseline, NoAction, Acquire, ApplyFails, Respond, Verify, VerifyRaises,
                      Review, Deliver, Decide, Apply, NextRound, Return
  <1> QED BY <1>1, <1>3, RaceFalls DEF Step

\* Whatever workers, validators and actions do: each step of the calling thread
\* leaves less of the call, in a well-founded order that neither a worker nor
\* the clock can set back, so that the thread never runs for ever.
THEOREM CallsShrink ==
    ASSUME IsFiniteSet(Worker)
    PROVE  Spec => [](Left \in Tuples(5)) /\ CallShrinks /\ OthersKeepLeft
  <1>1. Spec => []RunInv
    BY InvCorrect
  <1>2. RunInv => Left \in Tuples(5)
    BY LeftType DEF RunInv
  <1>3. RunInv => [Step => pc # "stop" /\ (pc' = "stop" \/ Below(5, Left', Left))]_vars
    BY StepFalls
  <1>4. [Next]_vars => [~Step => UNCHANGED Left]_vars
    <2> SUFFICES ASSUME Next, ~Step PROVE UNCHANGED Left
      OBVIOUS
    <2>1. UNCHANGED <<pc, round, pending, batch>>
      BY DEF Next, Expires, WorkerEnds, call
    <2> QED BY <2>1 DEF Left, Ahead, LoopLeft
  <1> QED BY <1>1, <1>2, <1>3, <1>4, PTL DEF Spec, CallShrinks, OthersKeepLeft

-----------------------------------------------------------------------------
(* Every call goes on *)

\* The coordinator finds what its next step needs: a winner among the good
\* proposals it has just judged, the score of the winner it compares the late
\* ones with, the lease it took.
HasNext ==
    /\ pc = "judge" /\ fresh # {} =>
          \E w \in fresh : \A v \in fresh : Beats(verdict[w], verdict[v])
    /\ pc \in {"grace", "graced"} => winner \in Worker /\ verdict[winner].judged
    /\ pc = "apply" => owner = winner

LEMMA WinnerExists ==
    ASSUME IsFiniteSet(Worker), TypeOK, fresh # {}
    PROVE  \E w \in fresh : \A v \in fresh : Beats(verdict[w], verdict[v])
  <1> DEFINE R == {p \in Worker \X Worker : Beats(verdict[p[1]], verdict[p[2]])}
  <1>0. fresh \subseteq Worker
    BY DEF TypeOK
  <1>1. IsFiniteSet(fresh)
    BY <1>0, FS_Subset
  <1>2. \A w \in fresh : verdict[w].score \in Nat /\ verdict[w].at \in Nat
    BY <1>0 DEF TypeOK, Verdict
  <1>3. \A x, y \in fresh : <<x, y>> \in R \/ <<y, x>> \in R
    BY <1>0, <1>2 DEF Beats
  <1>4. \A x, y, z \in fresh : <<x, y>> \in R /\ <<y, z>> \in R => <<x, z>> \in R
    BY <1>0, <1>2 DEF Beats
  <1>5. PICK w \in fresh : \A v \in fresh : <<w, v>> \in R
    <2> HIDE DEF R
    <2> QED BY <1>1, <1>3, <1>4, BestExists
  <1> QED BY <1>5

\* No call is ever stuck between two steps: together with CallsShrink it comes
\* to its end, whenever the clock runs.
THEOREM CallsGoOn ==
    ASSUME IsFiniteSet(Worker)
    PROVE  Spec => []HasNext
  <1>1. Spec => []RunInv
    BY InvCorrect
  <1>2. ASSUME RunInv PROVE HasNext
    <2>1. fresh # {} => \E w \in fresh : \A v \in fresh : Beats(verdict[w], verdict[v])
      BY <1>2, WinnerExists DEF RunInv
    <2>2. pc \in {"grace", "graced"} => winner \in Worker /\ verdict[winner].judged
      BY <1>2 DEF RunInv, TypeOK, RaceOK, Best, Good
    <2>3. pc = "apply" => owner = winner
      BY <1>2 DEF RunInv, LeaseIsFree
    <2> QED BY <2>1, <2>2, <2>3 DEF HasNext
  <1> QED BY <1>1, <1>2, PTL

=============================================================================
