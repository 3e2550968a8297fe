---------------------------- MODULE MCWorkerRace ----------------------------
(* Instances of WorkerRace for TLC. *)
EXTENDS WorkerRace

CONSTANTS local, api, harness, f1, f2

\* A repair, a page to show in the browser with and without a verification, and
\* a plan.
AllRequests ==
    {[mode |-> "pytest", browser |-> FALSE],
     [mode |-> "pytest", browser |-> TRUE],
     [mode |-> "applied", browser |-> TRUE],
     [mode |-> "plan_ok", browser |-> FALSE]}
=============================================================================
