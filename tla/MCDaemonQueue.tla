---------------------------- MODULE MCDaemonQueue ----------------------------
(* Instances of DaemonQueue for TLC. *)
EXTENDS DaemonQueue, TLC

CONSTANTS build, test, deploy, broken, timer, agent

\* In the order of their creation: what waits for what comes later.
QueueCreated == deploy :> 1 @@ build :> 2 @@ test :> 3 @@ broken :> 4
QueueDeps == deploy :> {broken} @@ build :> {} @@ test :> {build} @@ broken :> {}
QueueAttempts == deploy :> 1 @@ build :> 2 @@ test :> 1 @@ broken :> 1
=============================================================================
