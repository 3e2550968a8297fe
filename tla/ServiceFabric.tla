---------------------------- MODULE ServiceFabric ----------------------------
(***************************************************************************)
(* The supervisor of src/src/sophyane/service_fabric/supervisor.py: it     *)
(* starts the services of a manifest in dependency order, reconciles what  *)
(* runs with a manifest and stops everything in reverse.                   *)
(*                                                                         *)
(* The table of running services is in memory; the processes live in       *)
(* sessions of their own and outlive a supervisor that is killed.  As both *)
(* callers under src/ do, an exception of start_manifest or reconcile, a   *)
(* key interrupt included, is followed by stop_all.                        *)
(*                                                                         *)
(* A start takes two steps: Popen makes the process, and only later is it  *)
(* put in the table.  Nothing in between raises by itself, but a key       *)
(* interrupt may strike there, and no one has that process any more.       *)
(*                                                                         *)
(* A dict keeps its keys in the order of their insertion; slot[s] is that  *)
(* order, with the number of the process that was inserted as its stamp.   *)
(***************************************************************************)
EXTENDS Integers, Sequences, FiniteSets

CONSTANTS
    Services,        \* service names
    Manifests,       \* manifests the callers hand over
    Order,           \* Order[m]: what _order makes of m
    Deps,            \* Deps[s]: depends_on
    Policy,          \* Policy[s]: the restart policy
    None,            \* no manifest yet
    MaxCopies,       \* bound: processes started
    MaxDeaths,       \* bound: processes that end on their own
    MaxSupervisors   \* bound: supervisors, one after the other

Listed(m) == {Order[m][i] : i \in DOMAIN Order[m]}

\* s comes before t in the order of m.
Precedes(m, s, t) ==
    \E i, j \in DOMAIN Order[m] : i < j /\ Order[m][i] = s /\ Order[m][j] = t

ASSUME FabricAssumption ==
    /\ Order \in [Manifests -> Seq(Services)]
    /\ Deps \in [Services -> SUBSET Services]
    /\ Policy \in [Services -> {"no", "on-failure", "always"}]
    /\ MaxCopies \in Nat /\ MaxDeaths \in Nat /\ MaxSupervisors \in Nat \ {0}
    /\ None \notin Manifests

\* What _order returns, MCServiceFabric shows of the depth-first walk itself:
\* each service once, after all its dependencies.
ASSUME Topological ==
    \A m \in Manifests :
        /\ \A i, j \in DOMAIN Order[m] : Order[m][i] = Order[m][j] => i = j
        /\ \A s \in Listed(m) : \A d \in Deps[s] : Precedes(m, d, s)

VARIABLES
    proc,      \* every process started: its service, exit code and supervisor
    copy,      \* copy[s]: the process the table has for s, 0 for none
    slot,      \* slot[s]: the place of s in the table
    loose,     \* the process that was started and is not in the table, or 0
    pc,        \* what the supervisor does
    todo,      \* services the current call has not reached
    manifest,  \* argument of the current or last call
    file,      \* processes the state file calls alive
    sup,       \* number of the supervisor
    deaths     \* processes that ended on their own

table == <<copy, slot>>
vars == <<proc, copy, slot, loose, pc, todo, manifest, file, sup, deaths>>

Idle == {"idle", "started", "reconciled"}
Busy == {"start", "drop", "walk", "stop"}

Alive(c) == c # 0 /\ proc[c].code = "up"
Own(c) == proc[c].by = sup
Held == {s \in Services : copy[s] # 0}
Running(s) == Alive(copy[s])

\* Mutation of IsNext: a service before what it depends on.
IsNextPreorder(s) == s \in todo /\ \A t \in todo \ {s} : Precedes(manifest, t, s)

\* The next service of a walk over the manifest, and of one over the table.
IsNext(s) == s \in todo /\ \A t \in todo \ {s} : Precedes(manifest, s, t)
IsOldest(s) == s \in todo /\ \A t \in todo \ {s} : slot[s] < slot[t]

\* Mutation of IsNewest: stop_all in the order of the table.
IsOldestToo(s) == s \in todo /\ \A t \in todo \ {s} : slot[s] < slot[t]

IsNewest(s) == s \in todo /\ \A t \in todo \ {s} : slot[t] < slot[s]

Init ==
    /\ proc = <<>>
    /\ copy = [s \in Services |-> 0] /\ slot = copy /\ loose = 0
    /\ pc = "idle" /\ todo = {} /\ manifest = None
    /\ file = {} /\ sup = 1 /\ deaths = 0

-----------------------------------------------------------------------------
(* Starting and stopping one service *)

\* start_service as far as Popen: the process is there, the table does not
\* have it, and the walk is still at s.
Launch(s) ==
    /\ proc' = Append(proc, [svc |-> s, code |-> "up", by |-> sup])
    /\ loose' = Len(proc) + 1
    /\ UNCHANGED todo

\* Nothing to start for s.
Pass(s) == todo' = todo \ {s} /\ UNCHANGED <<proc, loose>>

\* Mutation of EnsureRunning: start_service without its look at the table.
EnsureAnother(s) == Launch(s)

EnsureRunning(s) == IF Running(s) THEN Pass(s) ELSE Launch(s)

Pop(s) ==
    /\ copy' = [copy EXCEPT ![s] = 0]
    /\ slot' = [slot EXCEPT ![s] = 0]

\* Mutation of Stopped: the entry goes without a wait for the process.
StoppedUnasked(s) == Pop(s) /\ UNCHANGED proc

\* stop_service: what is dead is forgotten, what lives is killed first.
Stopped(s) ==
    /\ Pop(s)
    /\ proc' = IF Running(s) THEN [proc EXCEPT ![copy[s]].code = "failed"]
                             ELSE proc

-----------------------------------------------------------------------------
(* The calls *)

Room == Len(proc) + Cardinality(Services) <= MaxCopies

StartManifest(m) ==
    /\ pc \in Idle /\ Room
    /\ pc' = "start" /\ todo' = Listed(m) /\ manifest' = m
    /\ UNCHANGED <<proc, table, loose, file, sup, deaths>>

StartService(s) ==
    /\ pc = "start" /\ loose = 0 /\ IsNext(s)
    /\ EnsureRunning(s)
    /\ UNCHANGED <<table, pc, manifest, file, sup, deaths>>

\* The rest of start_service: self.running[name] = running.  A key that is in
\* the table already keeps its place.
Enter(s) ==
    /\ pc \in {"start", "walk"} /\ loose # 0 /\ s = proc[loose].svc
    /\ copy' = [copy EXCEPT ![s] = loose]
    /\ slot' = [slot EXCEPT ![s] = IF copy[s] = 0 THEN loose ELSE @]
    /\ loose' = 0 /\ todo' = todo \ {s}
    /\ UNCHANGED <<proc, pc, manifest, file, sup, deaths>>

\* Mutation of Reconcile: what the manifest does not list is left alone.
ReconcileListed(m) ==
    /\ pc \in Idle /\ Room
    /\ pc' = "drop" /\ todo' = {} /\ manifest' = m
    /\ UNCHANGED <<proc, table, loose, file, sup, deaths>>

Reconcile(m) ==
    /\ pc \in Idle /\ Room
    /\ pc' = "drop" /\ todo' = Held \ Listed(m) /\ manifest' = m
    /\ UNCHANGED <<proc, table, loose, file, sup, deaths>>

DropService(s) ==
    /\ pc = "drop" /\ IsOldest(s)
    /\ Stopped(s)
    /\ todo' = todo \ {s}
    /\ UNCHANGED <<loose, pc, manifest, file, sup, deaths>>

Dropped ==
    /\ pc = "drop" /\ todo = {}
    /\ pc' = "walk" /\ todo' = Listed(manifest)
    /\ UNCHANGED <<proc, table, loose, manifest, file, sup, deaths>>

\* Mutation of MustRestart: "always" is taken for "on-failure".
MustRestartFailed(s) == Policy[s] # "no" /\ proc[copy[s]].code = "failed"

MustRestart(s) ==
    \/ Policy[s] = "always"
    \/ Policy[s] = "on-failure" /\ proc[copy[s]].code = "failed"

\* What has ended and comes back is popped first, so it goes to the end.
Returns(s) == copy[s] # 0 /\ ~Running(s) /\ MustRestart(s)

WalkService(s) ==
    /\ pc = "walk" /\ loose = 0 /\ IsNext(s)
    /\ \/ copy[s] = 0 /\ Launch(s) /\ UNCHANGED table
       \/ Returns(s) /\ Pop(s) /\ Launch(s)
       \/ copy[s] # 0 /\ ~Returns(s) /\ Pass(s) /\ UNCHANGED table
    /\ UNCHANGED <<pc, manifest, file, sup, deaths>>

\* Mutation of Persist: only start_manifest writes the file.
PersistStart ==
    /\ pc \in {"start", "walk"} /\ todo = {}
    /\ file' = IF pc = "start" THEN {copy[s] : s \in {s \in Held : Running(s)}} ELSE file
    /\ pc' = IF pc = "start" THEN "started" ELSE "reconciled"
    /\ UNCHANGED <<proc, table, loose, todo, manifest, sup, deaths>>

\* _persist and the return.
Persist ==
    /\ pc \in {"start", "walk"} /\ todo = {}
    /\ file' = {copy[s] : s \in {s \in Held : Running(s)}}
    /\ pc' = IF pc = "start" THEN "started" ELSE "reconciled"
    /\ UNCHANGED <<proc, table, loose, todo, manifest, sup, deaths>>

StopAll ==
    /\ pc \in Idle
    /\ pc' = "stop" /\ todo' = Held
    /\ UNCHANGED <<proc, table, loose, manifest, file, sup, deaths>>

\* Mutation of StopService: it waits for a process that is gone already.
StopServiceLive(s) ==
    /\ pc = "stop" /\ IsNewest(s) /\ Running(s)
    /\ Stopped(s)
    /\ todo' = todo \ {s}
    /\ UNCHANGED <<loose, pc, manifest, file, sup, deaths>>

StopService(s) ==
    /\ pc = "stop" /\ IsNewest(s)
    /\ Stopped(s)
    /\ todo' = todo \ {s}
    /\ UNCHANGED <<loose, pc, manifest, file, sup, deaths>>

AllStopped ==
    /\ pc = "stop" /\ todo = {}
    /\ pc' = "stopped"
    /\ UNCHANGED <<proc, table, loose, todo, manifest, file, sup, deaths>>

-----------------------------------------------------------------------------
(* Failures *)

\* Popen raises, or the user interrupts while no process is loose: the
\* caller's finally clause.  A restart has popped the service it could not
\* start.
Raises ==
    /\ pc \in {"start", "drop", "walk"} /\ loose = 0
    /\ \/ UNCHANGED table
       \/ pc = "walk" /\ \E s \in todo : IsNext(s) /\ Returns(s) /\ Pop(s)
    /\ pc' = "stop" /\ todo' = {s \in Services : copy'[s] # 0}
    /\ UNCHANGED <<proc, loose, manifest, file, sup, deaths>>

\* The user interrupts between Popen and the table, which the handler of
\* start_service does not see: stop_all follows, and the process stays loose.
LosesTrack ==
    /\ pc \in {"start", "walk"} /\ loose # 0
    /\ pc' = "stop" /\ todo' = Held
    /\ UNCHANGED <<proc, table, loose, manifest, file, sup, deaths>>

\* stop_all ends where it is, and no one calls it again.
StopBreaks ==
    /\ pc = "stop" /\ pc' = "broken" /\ todo' = {}
    /\ UNCHANGED <<proc, table, loose, manifest, file, sup, deaths>>

\* The process survives SIGKILL for longer than the second wait.
StopHangs ==
    /\ \E s \in todo : IsNewest(s) /\ Running(s)
    /\ StopBreaks

\* A process ends on its own.
Dies(c) ==
    /\ deaths < MaxDeaths /\ Alive(c)
    /\ \E code \in {"clean", "failed"} : proc' = [proc EXCEPT ![c].code = code]
    /\ deaths' = deaths + 1
    /\ UNCHANGED <<table, loose, pc, todo, manifest, file, sup>>

\* The supervisor ended, or is killed, and a new one begins: with an empty
\* table, whatever still runs.
NewSupervisor ==
    /\ sup < MaxSupervisors
    /\ sup' = sup + 1
    /\ copy' = [s \in Services |-> 0] /\ slot' = [s \in Services |-> 0]
    /\ loose' = 0 /\ pc' = "idle" /\ todo' = {} /\ manifest' = None
    /\ UNCHANGED <<proc, file, deaths>>

Step ==
    \/ \E s \in Services :
           StartService(s) \/ Enter(s) \/ DropService(s) \/ WalkService(s) \/ StopService(s)
    \/ Dropped \/ Persist \/ AllStopped \/ StopHangs

Next ==
    \/ Step
    \/ \E m \in Manifests : StartManifest(m) \/ Reconcile(m)
    \/ StopAll \/ Raises \/ LosesTrack \/ StopBreaks \/ NewSupervisor
    \/ \E c \in DOMAIN proc : Dies(c)

Spec == Init /\ [][Next]_vars

\* Every wait of the supervisor has a timeout.  service_cli reconciles in a
\* loop for as long as it supervises.
FairSpec ==
    /\ Spec
    /\ WF_vars(Step)
    /\ \A m \in Manifests : WF_vars(Reconcile(m))

-----------------------------------------------------------------------------
(* Properties *)

\* The type of every variable; a place in the table exactly for what it holds.
TypeOK ==
    /\ proc \in Seq([svc : Services, code : {"up", "clean", "failed"}, by : Nat])
    /\ copy \in [Services -> {0} \cup DOMAIN proc]
    /\ slot \in [Services -> {0} \cup DOMAIN proc]
    /\ \A s \in Services : copy[s] = 0 <=> slot[s] = 0
    /\ loose \in {0} \cup DOMAIN proc
    /\ pc \in Idle \cup Busy \cup {"stopped", "broken"}
    /\ todo \subseteq Services
    /\ manifest \in Manifests \cup {None}
    /\ file \subseteq DOMAIN proc
    /\ sup \in Nat /\ deaths \in Nat

\* Of the live processes a supervisor started, each is the one its table has
\* for that service, so there is one per service and each can be stopped -
\* through failed starts, restarts, changes of the manifest and processes that
\* end in between.  One alone may be missing: the process of the start that
\* is going on, or that the user interrupted before the table had it; between
\* two calls none is.  It says nothing of what another supervisor left running.
Owned ==
    \A c \in DOMAIN proc :
        Own(c) /\ Alive(c) => copy[proc[c].svc] = c \/ (c = loose /\ pc \notin Idle)

\* When stop_all returns, no process this supervisor ever started is alive,
\* unless the user interrupted a start between Popen and the table, and then
\* at most the process of that start.
StoppedMeansGone ==
    pc = "stopped" => \A c \in DOMAIN proc : Own(c) /\ Alive(c) => c = loose

\* After a call that returned, the table has every service of the manifest
\* and, after reconcile, no other.
TableIsManifest ==
    /\ pc = "started" => Listed(manifest) \subseteq Held
    /\ pc = "reconciled" => Listed(manifest) = Held

\* Between two calls the state file names every live process of the table,
\* so a user can find them when the supervisor is killed.
FileNamesTheLiving ==
    pc \in {"started", "reconciled"} =>
        \A s \in Services : Running(s) => copy[s] \in file

\* A process is started when all its service depends on has been started and
\* is still in the table, also when it is one that failed and comes back.
StartsOverDependencies ==
    [][ \A c \in DOMAIN proc' \ DOMAIN proc :
            \A d \in Deps[proc'[c].svc] : copy[d] # 0 ]_vars

\* The processes of this supervisor for service s.
Copies(s) == {c \in DOMAIN proc : Own(c) /\ proc[c].svc = s}

\* stop_all takes a service from under a live one that depends on it only if
\* the service was started more than once: a restart moves it to the end of
\* the table.
StopsDependentsFirst ==
    [][ \A s, t \in Services :
            /\ pc = "stop" /\ pc' = "stop"
            /\ Running(s) /\ copy'[s] = 0
            /\ s \in Deps[t] /\ Running(t)
            => Cardinality(Copies(s)) > 1 ]_vars

\* The process of an interrupted start, once the call is over for it.
Lost(c) == c = loose /\ pc \in {"stop", "stopped", "broken"}

\* The process that a service now stands for: the one being started or that of
\* the table.
Current(s) ==
    IF loose # 0 /\ ~Lost(loose) /\ proc[loose].svc = s THEN loose ELSE copy[s]

\* What a service is to those who run it: up while a process of this supervisor
\* lives that is not lost, ended as its current process did, or out.
Shown(s) ==
    IF \E c \in Copies(s) : Alive(c) /\ ~Lost(c) THEN "up"
    ELSE IF Current(s) = 0 THEN "out" ELSE proc[Current(s)].code

\* The calls are those of the fleet, the two phases of reconcile being one.
Fleet == INSTANCE ServiceFleet WITH
           state <- [s \in Services |-> Shown(s)],
           stray <- {proc[c].svc : c \in {c \in DOMAIN proc : Lost(c) /\ Alive(c)}},
           call <- IF pc \in Idle THEN "none"
                   ELSE IF pc \in {"drop", "walk"} THEN "reconcile" ELSE pc,
           wanted <- IF manifest = None THEN {} ELSE Listed(manifest)

\* Taken together, whatever fails in whatever call: the fabric is such a fleet.
ImplementsFleet == Fleet!Spec

\* Every call ends, whatever its processes do.
CallsEnd == pc \in Busy ~> pc \notin Busy

\* A service of policy "always" that every manifest lists and that has ended
\* runs again, unless the supervision ends or TLC's bound on copies is met.
Heals ==
    \A s \in Services :
        (Policy[s] = "always" /\ s \in Held /\ ~Running(s))
            ~> (Running(s) \/ pc \in {"stopped", "broken"} \/ ~Room)
=============================================================================
