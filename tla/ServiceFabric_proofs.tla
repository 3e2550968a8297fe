------------------------- MODULE ServiceFabric_proofs -------------------------
(***************************************************************************)
(* Proofs about ServiceFabric: its types, that a supervisor keeps track of *)
(* every process it started until it has stopped them all, but for one     *)
(* that a key interrupt took from it, that the table follows the manifest, *)
(* and that services start over their dependencies.                        *)
(***************************************************************************)
EXTENDS ServiceFabric, Descent, FiniteSetTheorems, TLAPS

Process == [svc : Services, code : {"up", "clean", "failed"}, by : Nat]

\* The processes and the table: an entry is a process of this supervisor for
\* that service, and what lives is in the table or loose; what is loose is the
\* process started last and no entry.
TableOK ==
    /\ proc \in Seq(Process)
    /\ copy \in [Services -> {0} \cup DOMAIN proc]
    /\ slot \in [Services -> {0} \cup DOMAIN proc]
    /\ \A s \in Services : copy[s] = 0 <=> slot[s] = 0
    /\ sup \in Nat
    /\ \A c \in DOMAIN proc : proc[c].by <= sup
    /\ \A s \in Services : copy[s] # 0 => proc[copy[s]].svc = s /\ Own(copy[s])
    /\ \A c \in DOMAIN proc : Own(c) /\ Alive(c) => copy[proc[c].svc] = c \/ c = loose
    /\ loose \in {0, Len(proc)}
    /\ loose # 0 => Own(loose) /\ \A s \in Services : copy[s] # loose /\ slot[s] # loose

\* A process is loose while its service is the next of a walk, or because the
\* walk was interrupted there.
LooseOK ==
    loose # 0 =>
        /\ pc \in {"start", "walk", "stop", "stopped", "broken"}
        /\ pc \in {"start", "walk"} =>
               \A s \in Services : s = proc[loose].svc => IsNext(s) /\ ~Running(s)

\* What each kind of call has done to the table so far.
CallOK ==
    /\ pc \in Idle \cup Busy \cup {"stopped", "broken"}
    /\ todo \subseteq Services
    /\ manifest \in Manifests \cup {None}
    /\ file \subseteq DOMAIN proc
    /\ deaths \in Nat
    /\ pc \in {"start", "drop", "walk", "started", "reconciled"} => manifest \in Manifests
    /\ pc \in {"start", "walk"} =>
           todo \subseteq Listed(manifest) /\ Listed(manifest) \ todo \subseteq Held
    /\ pc = "drop" => todo = Held \ Listed(manifest)
    /\ pc = "walk" => Held \subseteq Listed(manifest)
    /\ pc = "stop" => todo = Held
    /\ pc = "stopped" => Held = {}
    /\ TableIsManifest

FabricInv == TableOK /\ LooseOK /\ CallOK

-----------------------------------------------------------------------------
(* What the helpers do to the table *)

LEMMA ListedServices ==
    ASSUME NEW m \in Manifests
    PROVE  Listed(m) \subseteq Services
  <1>1. Order[m] \in Seq(Services)
    BY FabricAssumption
  <1> QED BY <1>1 DEF Listed

\* Every process has a service.
LEMMA EntryType ==
    ASSUME proc \in Seq(Process), NEW c \in DOMAIN proc
    PROVE  proc[c].svc \in Services
  <1>1. proc[c] \in Process
    OBVIOUS
  <1> QED BY <1>1 DEF Process

\* The end of a process changes its code and nothing else.
LEMMA CodeChange ==
    ASSUME proc \in Seq(Process), NEW c \in DOMAIN proc,
           NEW code \in {"clean", "failed"}, proc' = [proc EXCEPT ![c].code = code]
    PROVE  /\ DOMAIN proc' = DOMAIN proc
           /\ proc' \in Seq(Process)
           /\ proc'[c].code = code
           /\ \A d \in DOMAIN proc : /\ proc'[d].svc = proc[d].svc /\ proc'[d].by = proc[d].by
                                     /\ proc'[d].code = "up" => proc[d].code = "up"
  <1> DEFINE r == [proc[c] EXCEPT !.code = code]
  <1>1. proc[c] \in Process
    OBVIOUS
  <1>2. r \in Process /\ r.code = code /\ r.svc = proc[c].svc /\ r.by = proc[c].by
    BY <1>1 DEF Process
  <1>3. proc' = [proc EXCEPT ![c] = r]
    OBVIOUS
  <1> HIDE DEF r
  <1>4. DOMAIN proc' = DOMAIN proc /\ proc' \in Seq(Process) /\ proc'[c] = r
        /\ \A d \in DOMAIN proc \ {c} : proc'[d] = proc[d]
    BY <1>2, <1>3
  <1> QED BY <1>2, <1>4

\* The process table after a start.
LEMMA ProcAppend ==
    ASSUME proc \in Seq(Process), NEW p \in Process, proc' = Append(proc, p)
    PROVE  /\ proc' \in Seq(Process) /\ Len(proc') = Len(proc) + 1
           /\ \A c \in DOMAIN proc : proc'[c] = proc[c]
           /\ proc'[Len(proc) + 1] = p
           /\ DOMAIN proc = 1..Len(proc) /\ DOMAIN proc' = 1..Len(proc) + 1
  OBVIOUS

\* A process that is started is loose, and the table is as it was, or the
\* service of the process was popped.
LEMMA LaunchKeeps ==
    ASSUME TableOK, NEW s \in Services, Launch(s), loose = 0, sup' = sup,
           UNCHANGED table \/ (~Running(s) /\ Pop(s))
    PROVE  /\ TableOK' /\ DOMAIN proc \subseteq DOMAIN proc'
           /\ loose' # 0 /\ proc'[loose'].svc = s
           /\ \A c \in DOMAIN proc : proc'[c] = proc[c]
           /\ \A t \in Services : Running(t)' => Running(t)
           /\ Held' \subseteq Held /\ Held \ {s} \subseteq Held'
  <1> DEFINE n == Len(proc) + 1
             p == [svc |-> s, code |-> "up", by |-> sup]
  <1>1. proc \in Seq(Process) /\ p \in Process /\ n \in Nat /\ Len(proc) \in Nat
    BY DEF TableOK, Process
  <1>2. /\ proc' \in Seq(Process) /\ Len(proc') = n /\ loose' = n
        /\ \A c \in DOMAIN proc : proc'[c] = proc[c]
        /\ proc'[n] = p
        /\ DOMAIN proc = 1..Len(proc) /\ DOMAIN proc' = 1..n
    <2>1. proc' = Append(proc, p) /\ loose' = n
      BY DEF Launch
    <2> QED BY <1>1, <2>1, ProcAppend
  <1>3. /\ copy \in [Services -> 0..Len(proc)] /\ slot \in [Services -> 0..Len(proc)]
        /\ \A t \in Services : copy[t] = 0 <=> slot[t] = 0
    BY <1>1, <1>2 DEF TableOK
  <1>4. /\ copy' \in [Services -> 0..Len(proc)] /\ slot' \in [Services -> 0..Len(proc)]
        /\ \A t \in Services : copy'[t] = 0 <=> slot'[t] = 0
        /\ \A t \in Services \ {s} : copy'[t] = copy[t]
        /\ copy'[s] \in {0, copy[s]}
        /\ copy'[s] = 0 \/ copy' = copy
    BY <1>1, <1>3 DEF Pop, table
  <1>5. \A c \in DOMAIN proc' : proc'[c].by <= sup
    BY <1>1, <1>2 DEF TableOK
  <1>6. \A t \in Services : copy'[t] # 0 => proc'[copy'[t]].svc = t /\ proc'[copy'[t]].by = sup
    <2> SUFFICES ASSUME NEW t \in Services, copy'[t] # 0
                 PROVE  proc'[copy'[t]].svc = t /\ proc'[copy'[t]].by = sup
      OBVIOUS
    <2>1. copy'[t] = copy[t] /\ copy[t] \in DOMAIN proc
      BY <1>2, <1>3, <1>4
    <2>2. proc[copy[t]].svc = t /\ proc[copy[t]].by = sup
      BY <2>1 DEF TableOK, Own
    <2> QED BY <1>2, <2>1, <2>2
  <1>7. ASSUME NEW c \in DOMAIN proc', proc'[c].by = sup, proc'[c].code = "up", c # 0, c # n
        PROVE  copy'[proc'[c].svc] = c
    <2>1. c \in DOMAIN proc /\ proc'[c] = proc[c]
      BY <1>1, <1>2, <1>7
    <2>2. copy[proc[c].svc] = c /\ proc[c].svc \in Services
      BY <1>1, <1>7, <2>1, EntryType DEF TableOK, Own, Alive
    <2>3. proc[c].svc = s /\ ~Running(s) => FALSE
      BY <1>7, <2>1, <2>2 DEF Running, Alive
    <2> QED BY <1>4, <2>1, <2>2, <2>3 DEF table
  <1>8. \A t \in Services : copy'[t] # n /\ slot'[t] # n
    BY <1>1, <1>4
  <1>9. TableOK'
    BY <1>1, <1>2, <1>4, <1>5, <1>6, <1>7, <1>8 DEF TableOK, Own, Alive
  <1>10. \A t \in Services : Running(t)' => Running(t)
    BY <1>2, <1>3, <1>4 DEF Running, Alive
  <1> QED BY <1>1, <1>2, <1>4, <1>9, <1>10 DEF Held

\* What is loose becomes the entry of its service, which had no live one.
LEMMA EnterKeeps ==
    ASSUME TableOK, NEW s \in Services, ~Running(s), loose # 0, s = proc[loose].svc,
           copy' = [copy EXCEPT ![s] = loose],
           slot' = [slot EXCEPT ![s] = IF copy[s] = 0 THEN loose ELSE slot[s]],
           loose' = 0, UNCHANGED <<proc, sup>>
    PROVE  TableOK' /\ Held' = Held \cup {s}
  <1>1. /\ proc \in Seq(Process) /\ loose = Len(proc) /\ loose \in DOMAIN proc
        /\ copy \in [Services -> {0} \cup DOMAIN proc] /\ slot \in [Services -> {0} \cup DOMAIN proc]
        /\ \A t \in Services : copy[t] = 0 <=> slot[t] = 0
    BY DEF TableOK
  <1>2. /\ copy'[s] = loose /\ \A t \in Services \ {s} : copy'[t] = copy[t]
        /\ copy' \in [Services -> {0} \cup DOMAIN proc] /\ slot' \in [Services -> {0} \cup DOMAIN proc]
        /\ \A t \in Services : copy'[t] = 0 <=> slot'[t] = 0
    BY <1>1
  <1>3. \A t \in Services : copy'[t] # 0 => proc[copy'[t]].svc = t /\ proc[copy'[t]].by = sup
    BY <1>1, <1>2 DEF TableOK, Own
  <1>4. ASSUME NEW c \in DOMAIN proc, proc[c].by = sup, Alive(c)
        PROVE  copy'[proc[c].svc] = c
    <2>1. proc[c].svc \in Services
      BY <1>1, EntryType
    <2>2. copy[proc[c].svc] = c \/ c = loose
      BY <1>4 DEF TableOK, Own
    <2> QED BY <1>2, <1>4, <2>1, <2>2 DEF Running
  <1>5. TableOK'
    BY <1>1, <1>2, <1>3, <1>4 DEF TableOK, Own, Alive
  <1> QED BY <1>1, <1>2, <1>5 DEF Held

\* The end of one process changes no entry.
LEMMA EndKeeps ==
    ASSUME TableOK, NEW c \in DOMAIN proc, NEW code \in {"clean", "failed"},
           proc' = [proc EXCEPT ![c].code = code], UNCHANGED <<copy, slot, loose, sup>>
    PROVE  /\ TableOK' /\ Held' = Held /\ DOMAIN proc' = DOMAIN proc
           /\ \A d \in DOMAIN proc : proc'[d].svc = proc[d].svc
           /\ \A t \in Services : Running(t)' => Running(t)
  <1>1. proc \in Seq(Process)
    BY DEF TableOK
  <1>2. /\ DOMAIN proc' = DOMAIN proc
        /\ proc' \in Seq(Process)
        /\ \A d \in DOMAIN proc : /\ proc'[d].svc = proc[d].svc /\ proc'[d].by = proc[d].by
                                  /\ proc'[d].code = "up" => proc[d].code = "up"
    BY <1>1, CodeChange
  <1>3. Len(proc') = Len(proc) /\ (loose # 0 => loose \in DOMAIN proc)
    BY <1>1, <1>2 DEF TableOK
  <1>4. copy \in [Services -> {0} \cup DOMAIN proc]
    BY DEF TableOK
  <1>5. \A s \in Services : copy'[s] # 0 => proc'[copy'[s]].svc = s /\ proc'[copy'[s]].by = sup
    BY <1>2, <1>4 DEF TableOK, Own
  <1>6. \A d \in DOMAIN proc' : Own(d)' /\ Alive(d)' => copy'[proc'[d].svc] = d \/ d = loose'
    BY <1>2 DEF TableOK, Own, Alive
  <1>7. TableOK'
    BY <1>2, <1>3, <1>5, <1>6 DEF TableOK, Own
  <1>8. \A t \in Services : Running(t)' => Running(t)
    BY <1>2, <1>4 DEF Running, Alive
  <1> QED BY <1>2, <1>7, <1>8 DEF Held

\* A service that does not run may be forgotten.
LEMMA PopKeeps ==
    ASSUME TableOK, NEW s \in Services, ~Running(s), Pop(s), UNCHANGED <<proc, loose, sup>>
    PROVE  TableOK' /\ Held' = Held \ {s}
  <1>1. /\ copy \in [Services -> {0} \cup DOMAIN proc] /\ slot \in [Services -> {0} \cup DOMAIN proc]
        /\ \A t \in Services : copy[t] = 0 <=> slot[t] = 0
        /\ proc \in Seq(Process)
    BY DEF TableOK
  <1>2. /\ copy' \in [Services -> {0} \cup DOMAIN proc] /\ slot' \in [Services -> {0} \cup DOMAIN proc]
        /\ copy'[s] = 0 /\ \A t \in Services \ {s} : copy'[t] = copy[t]
        /\ \A t \in Services : copy'[t] = 0 <=> slot'[t] = 0
    BY <1>1 DEF Pop
  <1>3. ASSUME NEW c \in DOMAIN proc, proc[c].by = sup, Alive(c), c # loose
        PROVE  copy'[proc[c].svc] = c
    <2>1. copy[proc[c].svc] = c /\ proc[c].svc \in Services
      BY <1>1, <1>3, EntryType DEF TableOK, Own
    <2> QED BY <2>1, <1>2, <1>3 DEF Running
  <1>4. \A t \in Services : slot'[t] \in {0, slot[t]} /\ copy'[t] \in {0, copy[t]}
    BY <1>1 DEF Pop
  <1>5. TableOK'
    BY <1>2, <1>3, <1>4 DEF TableOK, Own, Alive
  <1> QED BY <1>5, <1>2 DEF Held

\* stop_service: killed first, then forgotten.
LEMMA StoppedKeeps ==
    ASSUME TableOK, NEW s \in Services, Stopped(s), UNCHANGED <<loose, sup>>
    PROVE  TableOK' /\ Held' = Held \ {s} /\ DOMAIN proc' = DOMAIN proc
  <1>1. CASE ~Running(s)
    BY <1>1, PopKeeps DEF Stopped
  <1>2. CASE Running(s)
    <2>1. /\ proc \in Seq(Process)
          /\ copy \in [Services -> {0} \cup DOMAIN proc] /\ slot \in [Services -> {0} \cup DOMAIN proc]
          /\ \A t \in Services : copy[t] = 0 <=> slot[t] = 0
      BY DEF TableOK
    <2>2. copy[s] \in DOMAIN proc
      BY <1>2, <2>1 DEF Running, Alive
    <2>3. proc' = [proc EXCEPT ![copy[s]].code = "failed"]
      BY <1>2 DEF Stopped
    <2>4. /\ DOMAIN proc' = DOMAIN proc
          /\ proc' \in Seq(Process)
          /\ proc'[copy[s]].code = "failed"
          /\ \A d \in DOMAIN proc : /\ proc'[d].svc = proc[d].svc /\ proc'[d].by = proc[d].by
                                    /\ proc'[d].code = "up" => proc[d].code = "up"
      BY <2>1, <2>2, <2>3, CodeChange
    <2>5. /\ copy' \in [Services -> {0} \cup DOMAIN proc] /\ slot' \in [Services -> {0} \cup DOMAIN proc]
          /\ copy'[s] = 0 /\ \A t \in Services \ {s} : copy'[t] = copy[t]
          /\ \A t \in Services : copy'[t] = 0 <=> slot'[t] = 0
      BY <2>1 DEF Stopped, Pop
    <2>6. ASSUME NEW c \in DOMAIN proc', proc'[c].by = sup, proc'[c].code = "up", c # 0, c # loose
          PROVE  copy'[proc'[c].svc] = c
      <3>1. copy[proc[c].svc] = c /\ proc[c].svc \in Services
        BY <2>1, <2>4, <2>6, EntryType DEF TableOK, Own, Alive
      <3>2. c # copy[s]
        BY <2>4, <2>6
      <3> QED BY <3>1, <3>2, <2>4, <2>5, <2>6
    <2>7. /\ \A t \in Services : slot'[t] \in {0, slot[t]} /\ copy'[t] \in {0, copy[t]}
          /\ Len(proc') = Len(proc) /\ (loose # 0 => loose \in DOMAIN proc)
      BY <2>1, <2>4 DEF Stopped, Pop, TableOK
    <2>8. \A t \in Services : copy'[t] # 0 => proc'[copy'[t]].svc = t /\ proc'[copy'[t]].by = sup
      BY <2>1, <2>4, <2>5 DEF TableOK, Own
    <2>9. TableOK'
      BY <2>4, <2>5, <2>6, <2>7, <2>8 DEF TableOK, Own, Alive
    <2> QED BY <2>9, <2>4, <2>5 DEF Held
  <1> QED BY <1>1, <1>2

-----------------------------------------------------------------------------
(* The inductive invariant *)

LEMMA InitInv == Init => FabricInv
  <1> SUFFICES ASSUME Init PROVE FabricInv
    OBVIOUS
  <1>1. TableOK
    BY DEF Init, TableOK, Process
  <1>2. CallOK /\ LooseOK
    BY DEF Init, CallOK, LooseOK, TableIsManifest, Idle, Busy
  <1> QED BY <1>1, <1>2 DEF FabricInv

\* Of what is still to do, the next service comes first: what it depends on
\* was reached before.
LEMMA DependenciesHeld ==
    ASSUME CallOK, pc \in {"start", "walk"}, NEW s \in Services, IsNext(s)
    PROVE  \A d \in Deps[s] : d \in Held
  <1>1. /\ manifest \in Manifests /\ s \in todo
        /\ todo \subseteq Listed(manifest) /\ Listed(manifest) \ todo \subseteq Held
    BY DEF CallOK, IsNext
  <1>2. Order[manifest] \in Seq(Services)
    BY <1>1, FabricAssumption
  <1> SUFFICES ASSUME NEW d \in Deps[s] PROVE d \in Held
    OBVIOUS
  <1>3. Precedes(manifest, d, s)
    BY <1>1, Topological
  <1>4. PICK i, j \in DOMAIN Order[manifest] :
            i < j /\ Order[manifest][i] = d /\ Order[manifest][j] = s
    BY <1>3 DEF Precedes
  <1>5. d \in Listed(manifest)
    BY <1>4 DEF Listed
  <1>6. d \notin todo
    <2>1. SUFFICES ASSUME d \in todo PROVE FALSE
      OBVIOUS
    <2>2. d # s
      BY <1>1, <1>2, <1>4, Topological
    <2>3. Precedes(manifest, s, d)
      BY <2>1, <2>2 DEF IsNext
    <2>4. PICK k, l \in DOMAIN Order[manifest] :
              k < l /\ Order[manifest][k] = s /\ Order[manifest][l] = d
      BY <2>3 DEF Precedes
    <2>5. k = j /\ l = i
      BY <1>1, <1>4, <2>4, Topological
    <2> QED BY <1>2, <1>4, <2>4, <2>5
  <1> QED BY <1>1, <1>5, <1>6

LEMMA StepInv == FabricInv /\ [Next]_vars => FabricInv'
  <1> SUFFICES ASSUME FabricInv, [Next]_vars PROVE TableOK' /\ LooseOK' /\ CallOK'
    BY DEF FabricInv
  <1> USE DEF FabricInv
  <1>1. Held \subseteq Services
    BY DEF Held
  <1>2. ASSUME UNCHANGED <<proc, copy, slot, loose, sup>> PROVE TableOK' /\ Held' = Held
    BY <1>2 DEF TableOK, Own, Alive, Held
  <1>3. ASSUME NEW s \in Services, pc \in {"start", "walk"}, loose = 0, IsNext(s), Launch(s),
               UNCHANGED table \/ Pop(s), ~Running(s), pc = "walk" => copy'[s] = 0,
               UNCHANGED <<pc, manifest, file, sup, deaths>>
        PROVE  TableOK' /\ LooseOK' /\ CallOK'
    <2>1. /\ TableOK' /\ DOMAIN proc \subseteq DOMAIN proc'
          /\ loose' # 0 /\ proc'[loose'].svc = s
          /\ \A t \in Services : Running(t)' => Running(t)
          /\ Held' \subseteq Held /\ Held \ {s} \subseteq Held'
      BY <1>3, LaunchKeeps
    <2>2. todo' = todo /\ s \in todo /\ IsNext(s)'
      BY <1>3 DEF Launch, IsNext
    <2>3. LooseOK'
      BY <1>3, <2>1, <2>2 DEF LooseOK
    <2>4. CallOK'
      BY <1>3, <2>1, <2>2 DEF CallOK, TableIsManifest
    <2> QED BY <2>1, <2>3, <2>4
  <1>4. ASSUME NEW s \in Services, pc \in {"start", "walk"}, loose = 0, IsNext(s), Pass(s),
               UNCHANGED table, s \in Held, UNCHANGED <<pc, manifest, file, sup, deaths>>
        PROVE  TableOK' /\ LooseOK' /\ CallOK'
    <2>1. TableOK' /\ Held' = Held
      BY <1>2, <1>4 DEF Pass, table
    <2>2. LooseOK'
      BY <1>4 DEF Pass, LooseOK
    <2>3. CallOK'
      BY <1>4, <2>1 DEF Pass, CallOK, TableIsManifest
    <2> QED BY <2>1, <2>2, <2>3
  <1>5. ASSUME NEW s \in Services, StartService(s) PROVE TableOK' /\ LooseOK' /\ CallOK'
    <2>1. Running(s) => s \in Held
      BY DEF Running, Alive, Held
    <2> QED BY <1>3, <1>4, <1>5, <2>1 DEF StartService, EnsureRunning
  <1>6. ASSUME NEW s \in Services, WalkService(s) PROVE TableOK' /\ LooseOK' /\ CallOK'
    <2>1. Pop(s) => copy'[s] = 0
      BY DEF Pop, TableOK
    <2>2. copy[s] = 0 => ~Running(s)
      BY DEF Running, Alive
    <2>3. UNCHANGED table => copy' = copy
      BY DEF table
    <2>4. copy[s] # 0 => s \in Held
      BY DEF Held
    <2> QED BY <1>3, <1>4, <1>6, <2>1, <2>2, <2>3, <2>4 DEF WalkService, Returns
  <1>7. ASSUME NEW s \in Services, Enter(s) PROVE TableOK' /\ LooseOK' /\ CallOK'
    <2>1. s \in todo /\ ~Running(s)
      BY <1>7 DEF Enter, LooseOK, IsNext
    <2>2. TableOK' /\ Held' = Held \cup {s}
      BY <1>7, <2>1, EnterKeeps DEF Enter
    <2>3. LooseOK'
      BY <1>7 DEF Enter, LooseOK
    <2>4. pc = "walk" => s \in Listed(manifest)
      BY <2>1 DEF CallOK
    <2>5. CallOK'
      BY <1>7, <2>2, <2>4 DEF Enter, CallOK, TableIsManifest
    <2> QED BY <2>2, <2>3, <2>5
  <1>8. ASSUME NEW s \in Services, DropService(s) \/ StopService(s)
        PROVE  TableOK' /\ LooseOK' /\ CallOK'
    <2>1. TableOK' /\ Held' = Held \ {s} /\ DOMAIN proc' = DOMAIN proc
      BY <1>8, StoppedKeeps DEF DropService, StopService
    <2>2. CallOK'
      BY <1>8, <2>1 DEF DropService, StopService, CallOK, TableIsManifest, IsOldest, IsNewest
    <2>3. LooseOK'
      BY <1>8 DEF DropService, StopService, LooseOK
    <2> QED BY <2>1, <2>2, <2>3
  <1>9. CASE Dropped
    <2>1. LooseOK'
      BY <1>9 DEF Dropped, LooseOK
    <2>2. CallOK'
      BY <1>2, <1>9, ListedServices DEF Dropped, table, CallOK, TableIsManifest, Idle, Busy
    <2> QED BY <1>2, <1>9, <2>1, <2>2 DEF Dropped, table
  <1>10. CASE Persist
    <2>1. file' \subseteq DOMAIN proc'
      BY <1>10 DEF Persist, Held, Running, Alive, TableOK
    <2>2. loose = 0
      <3>1. loose # 0 => proc[loose].svc \in Services
        BY EntryType DEF TableOK
      <3> QED BY <1>10, <3>1 DEF Persist, LooseOK, IsNext
    <2>3. LooseOK'
      BY <1>10, <2>2 DEF Persist, LooseOK
    <2>4. CallOK'
      BY <1>2, <1>10, <2>1 DEF Persist, table, CallOK, TableIsManifest, Idle, Busy
    <2> QED BY <1>2, <1>10, <2>3, <2>4 DEF Persist, table
  <1>11. CASE AllStopped \/ StopBreaks
    <2>1. LooseOK'
      BY <1>11 DEF AllStopped, StopBreaks, LooseOK
    <2>2. CallOK'
      BY <1>2, <1>11 DEF AllStopped, StopBreaks, table, CallOK, TableIsManifest, Idle, Busy
    <2> QED BY <1>2, <1>11, <2>1, <2>2 DEF AllStopped, StopBreaks, table
  <1>12. ASSUME NEW m \in Manifests, StartManifest(m) \/ Reconcile(m)
         PROVE  TableOK' /\ LooseOK' /\ CallOK'
    <2>1. LooseOK'
      BY <1>12 DEF StartManifest, Reconcile, LooseOK, Idle
    <2>2. CallOK'
      BY <1>1, <1>2, <1>12, ListedServices
         DEF StartManifest, Reconcile, table, CallOK, TableIsManifest, Idle, Busy
    <2> QED BY <1>2, <1>12, <2>1, <2>2 DEF StartManifest, Reconcile, table
  <1>13. CASE StopAll
    <2>1. LooseOK'
      BY <1>13 DEF StopAll, LooseOK, Idle
    <2>2. CallOK'
      BY <1>1, <1>2, <1>13 DEF StopAll, table, CallOK, TableIsManifest, Idle, Busy
    <2> QED BY <1>2, <1>13, <2>1, <2>2 DEF StopAll, table
  <1>14. CASE Raises
    <2>1. TableOK' /\ DOMAIN proc' = DOMAIN proc
      <3>1. CASE UNCHANGED table
        BY <1>2, <1>14, <3>1 DEF Raises, table
      <3>2. CASE \E s \in todo : ~Running(s) /\ Pop(s)
        BY <1>14, <3>2, PopKeeps DEF Raises, CallOK
      <3> QED BY <1>14, <3>1, <3>2 DEF Raises, Returns
    <2>2. todo' = Held' /\ pc' = "stop" /\ UNCHANGED <<loose, manifest, file, deaths>> /\ loose = 0
      BY <1>14 DEF Raises, Held
    <2>3. todo' \subseteq Services
      BY <2>2 DEF Held
    <2>4. CallOK'
      BY <2>1, <2>2, <2>3 DEF CallOK, TableIsManifest, Idle, Busy
    <2> QED BY <2>1, <2>2, <2>4 DEF LooseOK
  <1>15. CASE LosesTrack
    <2>1. LooseOK'
      BY <1>15 DEF LosesTrack, LooseOK
    <2>2. CallOK'
      BY <1>1, <1>2, <1>15 DEF LosesTrack, table, CallOK, TableIsManifest, Idle, Busy
    <2> QED BY <1>2, <1>15, <2>1, <2>2 DEF LosesTrack, table
  <1>16. CASE NewSupervisor
    <2>1. /\ sup' = sup + 1 /\ proc' = proc /\ loose' = 0
          /\ copy' = [s \in Services |-> 0] /\ slot' = [s \in Services |-> 0]
      BY <1>16 DEF NewSupervisor
    <2>2. \A c \in DOMAIN proc : proc[c].by \in Nat
      <3> SUFFICES ASSUME NEW c \in DOMAIN proc PROVE proc[c].by \in Nat
        OBVIOUS
      <3>1. proc[c] \in Process
        BY DEF TableOK
      <3> QED BY <3>1 DEF Process
    <2>3. \A c \in DOMAIN proc : proc[c].by <= sup /\ sup \in Nat
      BY DEF TableOK
    <2>4. \A c \in DOMAIN proc' : proc'[c].by <= sup' /\ proc'[c].by # sup'
      BY <2>1, <2>2, <2>3
    <2>5. TableOK'
      BY <2>1, <2>3, <2>4 DEF TableOK, Own
    <2>6. CallOK'
      BY <1>16 DEF NewSupervisor, CallOK, TableIsManifest, Idle, Busy
    <2> QED BY <2>1, <2>5, <2>6 DEF LooseOK
  <1>17. ASSUME NEW c \in DOMAIN proc, Dies(c) PROVE TableOK' /\ LooseOK' /\ CallOK'
    <2>1. /\ TableOK' /\ Held' = Held /\ DOMAIN proc' = DOMAIN proc
          /\ \A d \in DOMAIN proc : proc'[d].svc = proc[d].svc
          /\ \A t \in Services : Running(t)' => Running(t)
      BY <1>17, EndKeeps DEF Dies, table
    <2>2. \A t \in Services : IsNext(t)' <=> IsNext(t)
      BY <1>17 DEF Dies, IsNext
    <2>3. loose # 0 => loose \in DOMAIN proc
      BY DEF TableOK
    <2>4. LooseOK'
      BY <1>17, <2>1, <2>2, <2>3 DEF Dies, LooseOK
    <2>5. CallOK'
      BY <1>17, <2>1 DEF Dies, CallOK, TableIsManifest
    <2> QED BY <2>1, <2>4, <2>5
  <1>18. CASE UNCHANGED vars
    <2>1. CallOK'
      BY <1>2, <1>18 DEF vars, CallOK, TableIsManifest
    <2>2. LooseOK'
      BY <1>18 DEF vars, LooseOK, IsNext, Running, Alive
    <2> QED BY <1>2, <1>18, <2>1, <2>2 DEF vars
  <1> QED BY <1>5, <1>6, <1>7, <1>8, <1>9, <1>10, <1>11, <1>12, <1>13,
             <1>14, <1>15, <1>16, <1>17, <1>18 DEF Next, Step, StopHangs

THEOREM InvCorrect == Spec => []FabricInv
  BY InitInv, StepInv, PTL DEF Spec

-----------------------------------------------------------------------------
(* The results *)

\* Every variable keeps its type, and the table has a place for exactly what
\* it holds.
THEOREM TypeCorrect == Spec => []TypeOK
  <1>1. FabricInv => TypeOK
    BY DEF FabricInv, TableOK, CallOK, TypeOK, Process
  <1> QED BY <1>1, InvCorrect, PTL

\* Every live process a supervisor started is the one its table has for that
\* service, or the one whose start goes on or was interrupted, for any
\* manifests, policies, failures and number of processes.
THEOREM OwnedCorrect == Spec => []Owned
  <1>1. FabricInv => Owned
    BY DEF FabricInv, TableOK, LooseOK, Owned, Idle, Alive
  <1> QED BY <1>1, InvCorrect, PTL

\* When stop_all returns, nothing the supervisor started is alive but what a
\* start had launched that the user interrupted.
THEOREM StoppedCorrect == Spec => []StoppedMeansGone
  <1>1. FabricInv => StoppedMeansGone
    <2> SUFFICES ASSUME FabricInv, pc = "stopped", NEW c \in DOMAIN proc, Own(c), Alive(c), c # loose
                 PROVE  FALSE
      BY DEF StoppedMeansGone
    <2>1. copy[proc[c].svc] = c /\ proc[c].svc \in Services
      BY EntryType DEF FabricInv, TableOK
    <2>2. Held = {}
      BY DEF FabricInv, CallOK
    <2> QED BY <2>1, <2>2 DEF Held, Alive
  <1> QED BY <1>1, InvCorrect, PTL

\* What a call that returned leaves in the table is the manifest.
THEOREM ManifestCorrect == Spec => []TableIsManifest
  <1>1. FabricInv => TableIsManifest
    BY DEF FabricInv, CallOK
  <1> QED BY <1>1, InvCorrect, PTL

\* A process is started when all its service depends on is in the table.
THEOREM StartsCorrect == Spec => StartsOverDependencies
  <1>1. FabricInv /\ [Next]_vars =>
            [\A c \in DOMAIN proc' \ DOMAIN proc :
                \A d \in Deps[proc'[c].svc] : copy[d] # 0]_vars
    <2> SUFFICES ASSUME FabricInv, Next, NEW c \in DOMAIN proc' \ DOMAIN proc
                 PROVE  \A d \in Deps[proc'[c].svc] : copy[d] # 0
      OBVIOUS
    <2>1. TableOK /\ CallOK /\ proc \in Seq(Process)
      BY DEF FabricInv, TableOK
    <2>2. PICK t \in Services : (StartService(t) \/ WalkService(t)) /\ Launch(t)
      <3>1. \A s \in Services : Stopped(s) => DOMAIN proc' = DOMAIN proc
        BY <2>1, CodeChange DEF Stopped, Running, Alive, TableOK
      <3>2. \A d \in DOMAIN proc : Dies(d) => DOMAIN proc' = DOMAIN proc
        BY <2>1, CodeChange DEF Dies
      <3> QED BY <3>1, <3>2
              DEF Next, Step, StartService, EnsureRunning, WalkService, Pass, Enter, DropService,
                  StopService, Dropped, Persist, AllStopped, StopHangs, StopBreaks, StartManifest,
                  Reconcile, StopAll, Raises, LosesTrack, NewSupervisor
    <2>3. IsNext(t) /\ pc \in {"start", "walk"}
      BY <2>2 DEF StartService, WalkService
    <2>4. proc'[c].svc = t
      <3>1. [svc |-> t, code |-> "up", by |-> sup] \in Process
        BY <2>1 DEF TableOK, Process
      <3> QED BY <2>1, <2>2, <3>1, ProcAppend DEF Launch
    <2>5. \A d \in Deps[t] : d \in Held
      BY <2>1, <2>3, DependenciesHeld
    <2> QED BY <2>4, <2>5 DEF Held
  <1> QED BY <1>1, InvCorrect, PTL DEF Spec, StartsOverDependencies

\* Between two calls every live process of the table is in the state file:
\* what runs when the file is written is in it, and nothing starts between.
THEOREM FileCorrect == Spec => []FileNamesTheLiving
  <1>1. Init => FileNamesTheLiving
    BY DEF Init, FileNamesTheLiving
  <1>2. FabricInv /\ FileNamesTheLiving /\ [Next]_vars => FileNamesTheLiving'
    <2> SUFFICES ASSUME FabricInv, FileNamesTheLiving, [Next]_vars, pc' \in {"started", "reconciled"},
                        NEW s \in Services, Running(s)'
                 PROVE  copy'[s] \in file'
      BY DEF FileNamesTheLiving
    <2>1. CASE Persist
      BY <2>1 DEF Persist, table, Running, Alive, Held
    <2>2. CASE UNCHANGED <<pc, copy, file>> /\ (UNCHANGED proc \/ \E c \in DOMAIN proc : Dies(c))
      <3>1. Running(s)
        <4>1. CASE UNCHANGED proc
          BY <2>2, <4>1 DEF Running, Alive
        <4>2. ASSUME NEW c \in DOMAIN proc, Dies(c) PROVE Running(s)
          <5>1. PICK code \in {"clean", "failed"} : proc' = [proc EXCEPT ![c].code = code]
            BY <4>2 DEF Dies
          <5>2. proc \in Seq(Process) /\ copy[s] \in {0} \cup DOMAIN proc
            BY DEF FabricInv, TableOK
          <5> QED BY <2>2, <5>1, <5>2, CodeChange DEF Running, Alive
        <4> QED BY <2>2, <4>1, <4>2
      <3> QED BY <2>2, <3>1 DEF FileNamesTheLiving
    <2> QED BY <2>1, <2>2
            DEF Next, Step, vars, table, StartService, Enter, DropService, WalkService, StopService,
                Dropped, AllStopped, StopHangs, StopBreaks, StartManifest, Reconcile, StopAll, Raises,
                LosesTrack, NewSupervisor, Dies
  <1> QED BY <1>1, <1>2, InvCorrect, PTL DEF Spec
-----------------------------------------------------------------------------
(* The order in which services are stopped *)

\* A place is the number of a process of the service, and before a service
\* took its place each of its dependencies had a process.
Founded ==
    \A t \in Services : slot[t] # 0 =>
        /\ slot[t] \in Copies(t)
        /\ \A d \in Deps[t] : \E c \in Copies(d) : c < slot[t]

\* The processes keep their services, and no place is taken.
Keeps ==
    /\ sup' = sup
    /\ \A c \in DOMAIN proc : c \in DOMAIN proc' /\ proc'[c].svc = proc[c].svc /\ proc'[c].by = proc[c].by
    /\ \A t \in Services : slot'[t] \in {0, slot[t]}

LEMMA KeepsFounded ==
    ASSUME Founded, Keeps
    PROVE  Founded'
  <1>1. \A t \in Services : \A c \in Copies(t) : c \in Copies(t)'
    BY DEF Keeps, Copies, Own
  <1>2. \A t \in Services : Deps[t] \subseteq Services
    BY FabricAssumption
  <1> SUFFICES ASSUME NEW t \in Services, slot'[t] # 0
               PROVE  /\ slot'[t] \in Copies(t)'
                      /\ \A d \in Deps[t] : \E c \in Copies(d)' : c < slot'[t]
    BY DEF Founded
  <1>3. slot'[t] = slot[t]
    BY DEF Keeps
  <1> QED BY <1>1, <1>2, <1>3 DEF Founded

\* A process that ends keeps its service.
LEMMA EndedKeeps ==
    ASSUME TableOK, NEW c \in DOMAIN proc, NEW code \in {"clean", "failed"},
           proc' = [proc EXCEPT ![c].code = code]
    PROVE  \A d \in DOMAIN proc :
               d \in DOMAIN proc' /\ proc'[d].svc = proc[d].svc /\ proc'[d].by = proc[d].by
  BY CodeChange DEF TableOK

LEMMA PopPlaces ==
    ASSUME TableOK, NEW s \in Services, Pop(s)
    PROVE  \A t \in Services : slot'[t] \in {0, slot[t]}
  BY DEF TableOK, Pop

LEMMA StoppedFounded ==
    ASSUME TableOK, NEW s \in Services, Stopped(s), sup' = sup
    PROVE  Keeps
  <1>1. \A t \in Services : slot'[t] \in {0, slot[t]}
    BY PopPlaces DEF Stopped
  <1>2. CASE ~Running(s)
    BY <1>1, <1>2 DEF Stopped, Keeps
  <1>3. CASE Running(s)
    <2>1. copy[s] \in DOMAIN proc
      BY <1>3 DEF Running, Alive, TableOK
    <2> QED BY <1>1, <1>3, <2>1, EndedKeeps DEF Stopped, Keeps
  <1> QED BY <1>2, <1>3

\* A process that is started takes no place, and the others stay what they are.
LEMMA LaunchFounded ==
    ASSUME TableOK, NEW s \in Services, Launch(s), UNCHANGED table \/ Pop(s), sup' = sup
    PROVE  Keeps
  <1> DEFINE p == [svc |-> s, code |-> "up", by |-> sup]
  <1>1. proc \in Seq(Process) /\ p \in Process
    BY DEF TableOK, Process
  <1>2. proc' = Append(proc, p)
    BY DEF Launch
  <1>3. \A c \in DOMAIN proc : c \in DOMAIN proc' /\ proc'[c] = proc[c]
    BY <1>1, <1>2, ProcAppend
  <1> QED BY <1>3, PopPlaces DEF Keeps, table

\* A service that enters the table takes its place after a process of each
\* dependency.
LEMMA EnterFounded ==
    ASSUME TableOK, Founded, NEW s \in Services, Enter(s), \A d \in Deps[s] : d \in Held
    PROVE  Founded'
  <1>1. /\ proc \in Seq(Process) /\ loose = Len(proc) /\ loose \in DOMAIN proc /\ Own(loose)
        /\ slot \in [Services -> {0} \cup DOMAIN proc]
        /\ \A t \in Services : slot[t] # loose
        /\ proc' = proc /\ sup' = sup /\ proc[loose].svc = s
    BY DEF TableOK, Enter
  <1>2. \A t \in Services : Copies(t)' = Copies(t)
    BY <1>1 DEF Copies, Own
  <1>3. \A t \in Services : Deps[t] \subseteq Services
    BY FabricAssumption
  <1>4. \A t \in Services : slot'[t] = slot[t] \/ (t = s /\ slot'[t] = loose)
    BY <1>1 DEF Enter
  <1> SUFFICES ASSUME NEW t \in Services, slot'[t] # 0
               PROVE  /\ slot'[t] \in Copies(t)'
                      /\ \A d \in Deps[t] : \E c \in Copies(d)' : c < slot'[t]
    BY DEF Founded
  <1>5. CASE slot'[t] = slot[t]
    BY <1>2, <1>3, <1>5 DEF Founded
  <1>6. CASE t = s /\ slot'[t] = loose
    <2>1. ASSUME NEW d \in Deps[s] PROVE \E c \in Copies(d)' : c < loose
      <3>1. d \in Services /\ slot[d] # 0
        BY <1>3, <2>1 DEF Held, TableOK
      <3>2. slot[d] \in Copies(d) /\ slot[d] < loose
        BY <1>1, <3>1 DEF Founded
      <3> QED BY <1>2, <3>1, <3>2
    <2>2. loose \in Copies(s)
      BY <1>1 DEF Copies
    <2> QED BY <1>2, <1>6, <2>1, <2>2
  <1> QED BY <1>4, <1>5, <1>6

LEMMA StepFounded == FabricInv /\ Founded /\ [Next]_vars => Founded'
  <1> SUFFICES ASSUME FabricInv, Founded, [Next]_vars PROVE Founded'
    OBVIOUS
  <1>1. TableOK /\ CallOK
    BY DEF FabricInv
  <1>2. ASSUME UNCHANGED <<proc, slot, sup>> PROVE Founded'
    <2>1. Keeps
      BY <1>2 DEF Keeps
    <2> QED BY <2>1, KeepsFounded
  <1>3. ASSUME NEW s \in Services, StartService(s) \/ WalkService(s) PROVE Founded'
    <2>1. \/ UNCHANGED <<proc, slot, sup>>
          \/ Launch(s) /\ (UNCHANGED table \/ Pop(s)) /\ sup' = sup
      BY <1>3 DEF StartService, WalkService, EnsureRunning, Pass, table
    <2> QED BY <1>1, <1>2, <2>1, LaunchFounded, KeepsFounded
  <1>4. ASSUME NEW s \in Services, Enter(s) PROVE Founded'
    <2>1. IsNext(s) /\ pc \in {"start", "walk"}
      BY <1>4 DEF FabricInv, Enter, LooseOK
    <2> QED BY <1>1, <1>4, <2>1, DependenciesHeld, EnterFounded
  <1>5. ASSUME NEW s \in Services, DropService(s) \/ StopService(s) PROVE Founded'
    <2>1. Stopped(s) /\ sup' = sup
      BY <1>5 DEF DropService, StopService
    <2> QED BY <1>1, <2>1, StoppedFounded, KeepsFounded
  <1>6. CASE Raises
    <2>1. UNCHANGED <<proc, sup>> /\ \A t \in Services : slot'[t] \in {0, slot[t]}
      BY <1>1, <1>6, PopPlaces DEF Raises, table, CallOK
    <2>2. Keeps
      BY <2>1 DEF Keeps
    <2> QED BY <2>2, KeepsFounded
  <1>7. CASE NewSupervisor
    BY <1>7 DEF NewSupervisor, Founded
  <1>8. ASSUME NEW c \in DOMAIN proc, Dies(c) PROVE Founded'
    <2>1. Keeps
      BY <1>1, <1>8, EndedKeeps DEF Dies, table, Keeps
    <2> QED BY <2>1, KeepsFounded
  <1>9. CASE UNCHANGED vars
    BY <1>2, <1>9 DEF vars
  <1>10. ASSUME NEW m \in Manifests, StartManifest(m) \/ Reconcile(m) PROVE Founded'
    BY <1>2, <1>10 DEF StartManifest, Reconcile, table
  <1>11. CASE Dropped \/ Persist \/ AllStopped \/ StopBreaks \/ StopAll \/ LosesTrack
    BY <1>2, <1>11 DEF Dropped, Persist, AllStopped, StopBreaks, StopAll, LosesTrack, table
  <1> QED BY <1>3, <1>4, <1>5, <1>6, <1>7, <1>8, <1>9, <1>10, <1>11 DEF Next, Step, StopHangs

LEMMA TwoCopies ==
    ASSUME proc \in Seq(Process), NEW s \in Services,
           NEW c \in Copies(s), NEW d \in Copies(s), c # d
    PROVE  Cardinality(Copies(s)) > 1
  <1>1. IsFiniteSet(1..Len(proc)) /\ Copies(s) \subseteq 1..Len(proc)
    BY FS_Interval DEF Copies
  <1>2. IsFiniteSet(Copies(s))
    BY <1>1, FS_Subset
  <1>3. IsFiniteSet({c, d}) /\ Cardinality({c, d}) = 2
    <2>1. IsFiniteSet({c}) /\ Cardinality({c}) = 1
      BY FS_Singleton
    <2>2. d \notin {c} /\ {c, d} = {c} \cup {d}
      OBVIOUS
    <2>3. IsFiniteSet({c} \cup {d}) /\ Cardinality({c} \cup {d}) = Cardinality({c}) + 1
      BY <2>1, <2>2, FS_AddElement
    <2> QED BY <2>1, <2>2, <2>3
  <1>4. Cardinality({c, d}) <= Cardinality(Copies(s)) /\ Cardinality(Copies(s)) \in Nat
    BY <1>2, FS_Subset, FS_CardinalityType
  <1> QED BY <1>3, <1>4

\* Whatever fails, restarts or changes: stop_all takes a service from under a
\* live dependent only if the service was started a second time.
THEOREM StopsCorrect == Spec => StopsDependentsFirst
  <1>1. Init => Founded
    BY DEF Init, Founded
  <1>2. FabricInv /\ Founded /\ [Next]_vars =>
            [\A s, t \in Services :
                /\ pc = "stop" /\ pc' = "stop"
                /\ Running(s) /\ copy'[s] = 0
                /\ s \in Deps[t] /\ Running(t)
                => Cardinality(Copies(s)) > 1]_vars
    <2> SUFFICES ASSUME FabricInv, Founded, Next, NEW s \in Services, NEW t \in Services,
                        pc = "stop", pc' = "stop", Running(s), copy'[s] = 0,
                        s \in Deps[t], Running(t)
                 PROVE  Cardinality(Copies(s)) > 1
      OBVIOUS
    <2>1. TableOK /\ CallOK
      BY DEF FabricInv
    <2>2. /\ proc \in Seq(Process) /\ slot[s] # 0 /\ slot[t] # 0 /\ {s, t} \subseteq Held
          /\ copy[s] # 0
      BY <2>1 DEF TableOK, Running, Alive, Held
    <2>3. PICK u \in Services : StopService(u)
      BY <2>2 DEF Next, Step, StartService, Enter, DropService, WalkService, Dropped, Persist,
                  AllStopped, StopHangs, StopBreaks, StartManifest, Reconcile, StopAll, Raises,
                  LosesTrack, NewSupervisor, Dies, table, Idle
    <2>4. u = s
      BY <2>1, <2>2, <2>3 DEF StopService, Stopped, Pop, TableOK
    <2>5. t = s \/ slot[t] < slot[s]
      BY <2>1, <2>2, <2>3, <2>4 DEF StopService, IsNewest, CallOK
    <2>6. PICK c \in Copies(s) : c < slot[t]
      BY <2>2 DEF Founded
    <2>7. slot[s] \in Copies(s)
      BY <2>2 DEF Founded
    <2>8. c \in Int /\ slot[t] \in Int /\ slot[s] \in Int
      BY <2>1, <2>2 DEF TableOK, Copies
    <2>9. c # slot[s]
      BY <2>5, <2>6, <2>8
    <2> QED BY <2>2, <2>6, <2>7, <2>9, TwoCopies
  <1> QED BY <1>1, <1>2, InvCorrect, StepFounded, PTL DEF Spec, StopsDependentsFirst
-----------------------------------------------------------------------------
(* The fabric is a fleet of services *)

\* What the fleet sees of the supervisor.
FleetState == [s \in Services |-> Shown(s)]
FleetStray == {proc[c].svc : c \in {c \in DOMAIN proc : Lost(c) /\ Alive(c)}}
FleetCall == IF pc \in Idle THEN "none"
             ELSE IF pc \in {"drop", "walk"} THEN "reconcile" ELSE pc
FleetWanted == IF manifest = None THEN {} ELSE Listed(manifest)

\* What the current process alone tells of a service.
Seen(s) == IF Current(s) = 0 THEN "out" ELSE proc[Current(s)].code

\* A current process is one of this supervisor for its service.
LEMMA CurrentIsProcess ==
    ASSUME TableOK, NEW s \in Services, Current(s) # 0
    PROVE  /\ Current(s) \in DOMAIN proc
           /\ proc[Current(s)].code \in {"up", "clean", "failed"}
           /\ proc[Current(s)].svc = s
  <1>1. /\ proc \in Seq(Process) /\ copy[s] \in {0} \cup DOMAIN proc
        /\ copy[s] # 0 => proc[copy[s]].svc = s
        /\ loose # 0 => loose \in DOMAIN proc
    BY DEF TableOK
  <1>2. Current(s) \in DOMAIN proc /\ proc[Current(s)].svc = s
    BY <1>1 DEF Current
  <1>3. proc[Current(s)] \in Process
    BY <1>1, <1>2
  <1> QED BY <1>2, <1>3 DEF Process

\* It tells all: what lives and is not lost is a current process.
LEMMA SeenIsShown == TableOK /\ LooseOK => \A s \in Services : Shown(s) = Seen(s)
  <1> SUFFICES ASSUME TableOK, LooseOK, NEW s \in Services PROVE Shown(s) = Seen(s)
    OBVIOUS
  <1>1. CASE \E c \in Copies(s) : Alive(c) /\ ~Lost(c)
    <2>1. PICK c \in Copies(s) : Alive(c) /\ ~Lost(c)
      BY <1>1
    <2>2. proc[c].svc = s /\ (copy[s] = c \/ c = loose) /\ c # 0
      BY <2>1 DEF TableOK, Copies, Alive
    <2>3. loose # 0 /\ ~Lost(loose) /\ proc[loose].svc = s => ~Running(s)
      BY DEF LooseOK, Lost
    <2>4. Current(s) = c
      BY <2>1, <2>2, <2>3 DEF Current, Running
    <2> QED BY <2>1, <2>2, <2>4 DEF Shown, Seen, Alive
  <1>2. CASE ~ \E c \in Copies(s) : Alive(c) /\ ~Lost(c)
    BY <1>2 DEF Shown, Seen
  <1> QED BY <1>1, <1>2

LEMMA SeenType ==
    ASSUME TableOK, NEW s \in Services
    PROVE  /\ Seen(s) \in {"out", "up", "clean", "failed"}
           /\ Seen(s) = "out" <=> Current(s) = 0
           /\ Current(s) # 0 => Seen(s) = proc[Current(s)].code
           /\ s \in Held => Seen(s) # "out"
  <1>1. s \in Held => Current(s) # 0
    BY DEF Current, Held
  <1> QED BY <1>1, CurrentIsProcess DEF Seen

\* While nothing is loose, or what is loose is lost, the table tells all.
LEMMA TableSeen ==
    ASSUME TableOK, loose = 0 \/ pc \in {"stop", "stopped", "broken"}, NEW s \in Services
    PROVE  /\ Current(s) = copy[s]
           /\ Seen(s) = "out" <=> s \notin Held
           /\ Seen(s) = "up" <=> Running(s)
  <1>1. Current(s) = copy[s]
    BY DEF Current, Lost
  <1> QED BY <1>1, CurrentIsProcess DEF Seen, Held, Running, Alive

LEMMA FleetSeen == TableOK /\ LooseOK => FleetState = [s \in Services |-> Seen(s)]
  BY SeenIsShown DEF FleetState

LEMMA FleetSeenNext == (TableOK /\ LooseOK => FleetState = [s \in Services |-> Seen(s)])'
  BY FleetSeen, PTL

\* What strays is what is loose when its call is over.
Stray == IF loose # 0 /\ Lost(loose) /\ Alive(loose) THEN {proc[loose].svc} ELSE {}

LEMMA StrayIs == TableOK => FleetStray = Stray
  <1> SUFFICES ASSUME TableOK PROVE FleetStray = Stray
    OBVIOUS
  <1>1. loose # 0 => loose \in DOMAIN proc
    BY DEF TableOK
  <1>2. \A c \in DOMAIN proc : Lost(c) /\ Alive(c) => c = loose /\ loose # 0
    BY DEF Lost, Alive
  <1>3. {c \in DOMAIN proc : Lost(c) /\ Alive(c)} =
            IF loose # 0 /\ Lost(loose) /\ Alive(loose) THEN {loose} ELSE {}
    BY <1>1, <1>2
  <1> QED BY <1>3 DEF FleetStray, Stray

LEMMA StrayIsNext == (TableOK => FleetStray = Stray)'
  BY StrayIs, PTL

\* The fleet changes as what is seen does.
LEMMA FleetSame ==
    ASSUME TableOK, LooseOK, (TableOK /\ LooseOK)', \A s \in Services : Seen(s)' = Seen(s)
    PROVE  FleetState' = FleetState
  <1>1. FleetState' = [s \in Services |-> Seen(s)']
    BY FleetSeenNext
  <1> QED BY <1>1, FleetSeen

LEMMA FleetOne ==
    ASSUME TableOK, LooseOK, (TableOK /\ LooseOK)', NEW s \in Services, NEW how,
           Seen(s)' = how, \A t \in Services \ {s} : Seen(t)' = Seen(t)
    PROVE  FleetState' = [FleetState EXCEPT ![s] = how]
  <1>1. FleetState' = [t \in Services |-> Seen(t)']
    BY FleetSeenNext
  <1> QED BY <1>1, FleetSeen

LEMMA PopSeen ==
    ASSUME TableOK, NEW s \in Services, Pop(s), loose = 0, UNCHANGED <<proc, loose>>
    PROVE  Seen(s)' = "out" /\ \A t \in Services \ {s} : Seen(t)' = Seen(t)
  BY DEF TableOK, Pop, Seen, Current

\* A process that ends is no other service's.
LEMMA EndSeen ==
    ASSUME TableOK, NEW c \in DOMAIN proc, NEW code \in {"clean", "failed"},
           proc' = [proc EXCEPT ![c].code = code], UNCHANGED <<loose, pc>>,
           NEW t \in Services, copy'[t] = copy[t], Current(t) # c
    PROVE  Current(t)' = Current(t) /\ Seen(t)' = Seen(t)
  <1>1. proc \in Seq(Process) /\ (loose # 0 => loose \in DOMAIN proc)
    BY DEF TableOK
  <1>2. loose # 0 => proc'[loose].svc = proc[loose].svc
    BY <1>1, CodeChange
  <1>3. Current(t)' = Current(t)
    BY <1>2 DEF Current, Lost
  <1>4. Current(t) # 0 => proc'[Current(t)] = proc[Current(t)]
    BY CurrentIsProcess
  <1> QED BY <1>3, <1>4 DEF Seen

\* stop_service, in the calls in which nothing loose is current.
LEMMA StoppedSeen ==
    ASSUME TableOK, NEW s \in Services, Stopped(s), UNCHANGED <<loose, pc>>,
           loose = 0 \/ pc = "stop"
    PROVE  Seen(s)' = "out" /\ \A t \in Services \ {s} : Seen(t)' = Seen(t)
  <1>1. \A t \in Services : Current(t) = copy[t]
    BY TableSeen
  <1>2. Current(s)' = 0
    BY DEF Stopped, Pop, TableOK, Current, Lost
  <1>3. \A t \in Services \ {s} : copy'[t] = copy[t]
    BY DEF Stopped, Pop, TableOK
  <1>4. CASE ~Running(s)
    BY <1>1, <1>2, <1>3, <1>4 DEF Stopped, Seen, Current, Lost
  <1>5. CASE Running(s)
    <2>1. copy[s] # 0 /\ copy[s] \in DOMAIN proc
      BY <1>5 DEF Running, Alive, TableOK
    <2>2. proc' = [proc EXCEPT ![copy[s]].code = "failed"]
      BY <1>5 DEF Stopped
    <2>3. ASSUME NEW t \in Services \ {s} PROVE Seen(t)' = Seen(t)
      <3>1. Current(t) # copy[s]
        BY <1>1, <2>1, <2>3 DEF TableOK
      <3> QED BY <1>3, <2>1, <2>2, <3>1, EndSeen
    <2> QED BY <1>2, <2>3 DEF Seen
  <1> QED BY <1>4, <1>5

-----------------------------------------------------------------------------
(* Every step is one of the fleet *)

FleetStep == [Fleet!Next]_<<FleetState, FleetStray, FleetCall, FleetWanted>>

LEMMA FleetIs ==
    ASSUME TableOK, LooseOK
    PROVE  /\ \A s \in Services : FleetState[s] = Seen(s)
           /\ Fleet!Known = {s \in Services : Seen(s) # "out"}
           /\ Held \subseteq Fleet!Known
           /\ loose = 0 \/ pc \in {"stop", "stopped", "broken"} => Fleet!Known = Held
  <1>1. \A s \in Services : FleetState[s] = Seen(s)
    BY FleetSeen
  <1>2. Fleet!Known = {s \in Services : Seen(s) # "out"}
    BY <1>1 DEF Fleet!Known, FleetState
  <1>3. Held \subseteq Services
    BY DEF Held
  <1>4. \A s \in Held : Seen(s) # "out"
    BY <1>3, SeenType
  <1>5. loose = 0 \/ pc \in {"stop", "stopped", "broken"} =>
            \A s \in Services : Seen(s) = "out" <=> s \notin Held
    BY TableSeen
  <1> QED BY <1>1, <1>2, <1>3, <1>4, <1>5

\* What reconcile restarts is what the fleet says comes back.
LEMMA DueComesBack ==
    ASSUME TableOK, LooseOK, loose = 0, NEW s \in Services, Returns(s)
    PROVE  Fleet!ComesBack(s)
  <1>1. Fleet!ComesBack(s) <=> \/ Policy[s] = "always" /\ FleetState[s] \in {"clean", "failed"}
                               \/ Policy[s] = "on-failure" /\ FleetState[s] = "failed"
    BY DEF Fleet!ComesBack, FleetState
  <1>2. FleetState[s] = Seen(s) /\ Current(s) = copy[s]
    BY FleetIs, TableSeen
  <1>3. Seen(s) = proc[copy[s]].code /\ Seen(s) \in {"clean", "failed"}
    BY <1>2, SeenType DEF Returns, Running, Alive
  <1> QED BY <1>1, <1>2, <1>3 DEF Returns, MustRestart

\* A service is brought up over its dependencies when its process is started.
LEMMA BringUpStep ==
    ASSUME FabricInv, FabricInv', NEW s \in Services, Launch(s), loose = 0,
           UNCHANGED table \/ (Returns(s) /\ Pop(s)),
           pc \in {"start", "walk"}, IsNext(s), ~Running(s), UNCHANGED <<pc, manifest, sup>>,
           pc = "walk" => copy[s] = 0 \/ Returns(s)
    PROVE  Fleet!BringUp(s)
  <1>1. TableOK /\ LooseOK /\ CallOK /\ (TableOK /\ LooseOK)'
    BY DEF FabricInv
  <1>2. /\ loose' # 0 /\ proc'[loose'].svc = s /\ loose' = Len(proc) + 1
        /\ \A c \in DOMAIN proc : proc'[c] = proc[c]
        /\ proc'[loose'].code = "up"
    <2>1. [svc |-> s, code |-> "up", by |-> sup] \in Process /\ proc \in Seq(Process)
      BY <1>1 DEF TableOK, Process
    <2> QED BY <2>1, ProcAppend DEF Launch
  <1>3. \A t \in Services : Current(t) = copy[t] /\ copy[t] \in {0} \cup DOMAIN proc
    BY <1>1, TableSeen DEF TableOK
  <1>4. Current(s)' = loose' /\ \A t \in Services \ {s} : Current(t)' = copy'[t] /\ copy'[t] = copy[t]
    BY <1>1, <1>2 DEF Current, Lost, Pop, table, TableOK
  <1>5. Seen(s)' = "up" /\ \A t \in Services \ {s} : Seen(t)' = Seen(t)
    BY <1>2, <1>3, <1>4 DEF Seen
  <1>6. FleetState' = [FleetState EXCEPT ![s] = "up"]
    BY <1>1, <1>5, FleetOne
  <1>7. FleetStray = {} /\ FleetStray' = {}
    <2>1. Stray = {} /\ Stray' = {}
      BY DEF Stray, Lost
    <2> QED BY <1>1, <2>1, StrayIs, StrayIsNext
  <1>8. \A d \in Deps[s] : FleetState[d] # "out"
    <2>1. Deps[s] \subseteq Services /\ \A d \in Deps[s] : d \in Held
      BY <1>1, DependenciesHeld, FabricAssumption
    <2> QED BY <1>1, <2>1, FleetIs, SeenType
  <1>9. s \in FleetWanted
    BY <1>1, FabricAssumption DEF CallOK, IsNext, FleetWanted
  <1>10. FleetState[s] # "up" /\ (copy[s] = 0 => FleetState[s] = "out")
    BY <1>1, FleetIs, TableSeen DEF Held
  <1>11. UNCHANGED <<FleetCall, FleetWanted>>
    BY DEF FleetCall, FleetWanted
  <1>12. FleetCall = "start" \/ (FleetCall = "reconcile" /\ pc = "walk")
    BY DEF FleetCall, Idle
  <1>13. pc = "walk" => FleetState[s] = "out" \/ Fleet!ComesBack(s)
    BY <1>1, <1>10, DueComesBack
  <1> QED BY <1>6, <1>7, <1>8, <1>9, <1>10, <1>11, <1>12, <1>13
          DEF Fleet!BringUp, FleetState, FleetStray, FleetCall, FleetWanted

\* That the process enters the table is not seen.
LEMMA EnterStep ==
    ASSUME FabricInv, FabricInv', NEW s \in Services, Enter(s)
    PROVE  UNCHANGED <<FleetState, FleetStray, FleetCall, FleetWanted>>
  <1>1. TableOK /\ LooseOK /\ (TableOK /\ LooseOK)'
    BY DEF FabricInv
  <1>2. copy'[s] = loose /\ \A t \in Services \ {s} : copy'[t] = copy[t]
    BY <1>1 DEF Enter, TableOK
  <1>3. \A t \in Services : Current(t)' = Current(t)
    BY <1>2 DEF Enter, Current, Lost
  <1>4. \A t \in Services : Seen(t)' = Seen(t)
    BY <1>3 DEF Enter, Seen
  <1>5. FleetState' = FleetState
    BY <1>1, <1>4, FleetSame
  <1>6. FleetStray = {} /\ FleetStray' = {}
    <2>1. Stray = {} /\ Stray' = {}
      BY DEF Enter, Stray, Lost
    <2> QED BY <1>1, <2>1, StrayIs, StrayIsNext
  <1> QED BY <1>5, <1>6 DEF Enter, FleetCall, FleetWanted

LEMMA TakeOutStep ==
    ASSUME FabricInv, FabricInv', NEW s \in Services, Stopped(s), s \in todo,
           pc \in {"drop", "stop"}, UNCHANGED <<loose, pc, manifest>>
    PROVE  Fleet!TakeOut(s)
  <1>1. TableOK /\ LooseOK /\ CallOK /\ (TableOK /\ LooseOK)'
    BY DEF FabricInv
  <1>2. loose = 0 \/ pc = "stop"
    BY <1>1 DEF LooseOK
  <1>3. FleetState' = [FleetState EXCEPT ![s] = "out"]
    BY <1>1, <1>2, StoppedSeen, FleetOne
  <1>4. FleetStray' = FleetStray
    <2>1. loose # 0 => loose \in DOMAIN proc /\ copy[s] # loose /\ proc \in Seq(Process)
      BY <1>1 DEF TableOK
    <2>2. loose # 0 => proc'[loose] = proc[loose]
      BY <2>1 DEF Stopped
    <2>3. Stray' = Stray
      BY <2>2 DEF Stray, Lost, Alive
    <2> QED BY <1>1, <2>3, StrayIs, StrayIsNext
  <1>5. FleetState[s] # "out"
    BY <1>1, FleetIs, SeenType DEF CallOK
  <1>6. UNCHANGED <<FleetCall, FleetWanted>>
    BY DEF FleetCall, FleetWanted
  <1>7. FleetCall = "stop" \/ (FleetCall = "reconcile" /\ s \notin FleetWanted)
    BY <1>1, FabricAssumption DEF FleetCall, FleetWanted, CallOK, Idle
  <1> QED BY <1>3, <1>4, <1>5, <1>6, <1>7
          DEF Fleet!TakeOut, FleetState, FleetStray, FleetCall, FleetWanted

\* An interrupted start leaves its service as the table has it, and its process
\* strays if it lives.
LEMMA CutStep ==
    ASSUME FabricInv, FabricInv', LosesTrack
    PROVE  \E s \in Services : Fleet!Cut(s)
  <1>1. TableOK /\ LooseOK /\ CallOK /\ (TableOK /\ LooseOK)'
    BY DEF FabricInv
  <1>2. loose \in DOMAIN proc /\ proc[loose].svc \in Services
    BY <1>1, EntryType DEF LosesTrack, TableOK
  <1>3. PICK s \in Services : s = proc[loose].svc
    BY <1>2
  <1>4. IsNext(s) /\ ~Running(s) /\ pc \in {"start", "walk"} /\ loose # 0
    BY <1>1, <1>3 DEF LosesTrack, LooseOK
  <1>5. /\ Current(s) = loose /\ Current(s)' = copy[s]
        /\ \A t \in Services \ {s} : Current(t) = copy[t] /\ Current(t)' = copy[t]
    BY <1>3, <1>4 DEF LosesTrack, Current, Lost, table
  <1>6. Seen(s) = proc[loose].code /\ Seen(s) # "out"
    BY <1>1, <1>4, <1>5, SeenType
  <1>7. Seen(s)' \in {"out", "clean", "failed"}
    <2>1. copy[s] # 0 => proc[copy[s]] \in Process
      BY <1>1 DEF TableOK
    <2> QED BY <1>4, <1>5, <2>1 DEF LosesTrack, Seen, Process, Running, Alive
  <1>8. \A t \in Services \ {s} : Seen(t)' = Seen(t)
    BY <1>5 DEF LosesTrack, Seen
  <1>9. FleetState' = [FleetState EXCEPT ![s] = Seen(s)'] /\ FleetState[s] = Seen(s)
    <2>1. PICK how : how = Seen(s)'
      OBVIOUS
    <2>2. FleetState' = [FleetState EXCEPT ![s] = how]
      BY <1>1, <1>8, <2>1, FleetOne
    <2> QED BY <1>1, <2>1, <2>2, FleetIs
  <1>10. FleetStray' = IF FleetState[s] = "up" THEN {s} ELSE {}
    <2>1. Stray' = IF Alive(loose) THEN {s} ELSE {}
      BY <1>3, <1>4 DEF LosesTrack, Stray, Lost, Alive
    <2>2. FleetState[s] = "up" <=> Alive(loose)
      BY <1>4, <1>6, <1>9 DEF Alive
    <2> QED BY <1>1, <2>1, <2>2, StrayIsNext
  <1>11. s \in FleetWanted /\ UNCHANGED FleetWanted
    BY <1>1, <1>4, FabricAssumption DEF CallOK, IsNext, FleetWanted, LosesTrack
  <1>12. FleetCall \in {"start", "reconcile"} /\ FleetCall' = "stop"
    BY <1>4 DEF FleetCall, Idle, LosesTrack
  <1>13. Fleet!Cut(s)
    BY <1>6, <1>7, <1>9, <1>10, <1>11, <1>12
       DEF Fleet!Cut, FleetState, FleetStray, FleetCall, FleetWanted
  <1> QED BY <1>13

\* A process that ends is a current one, one that strays, or of no account.
LEMMA DiesStep ==
    ASSUME FabricInv, FabricInv', NEW c \in DOMAIN proc, Dies(c)
    PROVE  FleetStep
  <1>1. TableOK /\ LooseOK /\ (TableOK /\ LooseOK)' /\ c # 0 /\ proc[c].code = "up"
    BY DEF FabricInv, Dies, Alive
  <1>2. PICK code \in {"clean", "failed"} : proc' = [proc EXCEPT ![c].code = code]
    BY DEF Dies
  <1>3. UNCHANGED <<copy, loose, pc, FleetCall, FleetWanted>>
    BY DEF Dies, table, FleetCall, FleetWanted
  <1>4. proc \in Seq(Process) /\ (loose # 0 => loose \in DOMAIN proc)
    BY <1>1 DEF TableOK
  <1>5. loose # c => Stray' = Stray
    BY <1>2, <1>3, <1>4 DEF Stray, Lost, Alive
  <1>6. \A t \in Services : Current(t) # c => Seen(t)' = Seen(t)
    BY <1>1, <1>2, <1>3, EndSeen
  <1>7. CASE \E s \in Services : Current(s) = c
    <2>1. PICK s \in Services : Current(s) = c
      BY <1>7
    <2>2. \A t \in Services \ {s} : Current(t) # c
      BY <1>1, <2>1, CurrentIsProcess
    <2>3. Current(s)' = c
      <3>1. loose # 0 => proc'[loose].svc = proc[loose].svc
        BY <1>2, <1>4, CodeChange
      <3> QED BY <1>3, <2>1, <3>1 DEF Current, Lost
    <2>4. Seen(s)' = code
      BY <1>1, <1>2, <1>4, <2>3, CodeChange DEF Seen
    <2>5. FleetState' = [FleetState EXCEPT ![s] = code]
      BY <1>1, <1>6, <2>2, <2>4, FleetOne
    <2>6. FleetState[s] = "up"
      BY <1>1, <2>1, FleetIs, SeenType
    <2>7. FleetStray' = FleetStray
      <3>1. c = loose => ~Lost(loose)
        BY <1>1, <2>1 DEF Current, TableOK
      <3>2. Stray' = Stray
        BY <1>3, <1>5, <3>1 DEF Stray, Lost
      <3> QED BY <1>1, <3>2, StrayIs, StrayIsNext
    <2>8. Fleet!End(s)
      BY <1>3, <2>5, <2>6, <2>7 DEF Fleet!End, FleetState, FleetStray, FleetCall, FleetWanted
    <2> QED BY <2>8 DEF FleetStep, Fleet!Next
  <1>8. CASE \A s \in Services : Current(s) # c
    <2>1. FleetState' = FleetState
      BY <1>1, <1>6, <1>8, FleetSame
    <2>2. FleetStray = Stray /\ FleetStray' = Stray'
      BY <1>1, StrayIs, StrayIsNext
    <2>3. CASE Stray' = Stray
      BY <1>3, <2>1, <2>2, <2>3 DEF FleetStep
    <2>4. CASE Stray' # Stray
      <3>1. c = loose /\ Stray # {} /\ Stray' = {}
        <4>1. c = loose
          BY <1>5, <2>4
        <4>2. Stray' = {}
          BY <1>2, <1>3, <1>4, <4>1, CodeChange DEF Stray, Alive
        <4> QED BY <2>4, <4>1, <4>2
      <3>2. Fleet!StrayEnds
        BY <1>3, <2>1, <2>2, <3>1
           DEF Fleet!StrayEnds, FleetState, FleetStray, FleetCall, FleetWanted
      <3> QED BY <3>2 DEF FleetStep, Fleet!Next
    <2> QED BY <2>3, <2>4
  <1> QED BY <1>7, <1>8

LEMMA StepFleet == FabricInv /\ FabricInv' /\ [Next]_vars => FleetStep
  <1> SUFFICES ASSUME FabricInv, FabricInv', [Next]_vars PROVE FleetStep
    OBVIOUS
  <1>1. TableOK /\ LooseOK /\ CallOK /\ TableOK' /\ (TableOK /\ LooseOK)'
    BY DEF FabricInv
  <1>2. ASSUME UNCHANGED <<proc, copy, loose>>,
               pc' = pc \/ loose = 0 \/ (pc = "stop" /\ pc' \in {"stopped", "broken"})
        PROVE  UNCHANGED <<FleetState, FleetStray>>
    <2>1. loose # 0 => (Lost(loose) <=> Lost(loose)')
      BY <1>2 DEF Lost
    <2>2. \A s \in Services : Current(s)' = Current(s)
      BY <1>2, <2>1 DEF Current, Lost
    <2>3. \A s \in Services : Seen(s)' = Seen(s)
      BY <1>2, <2>2 DEF Seen
    <2>4. Stray' = Stray
      BY <1>2, <2>1 DEF Stray, Alive, Lost
    <2> QED BY <1>1, <2>3, <2>4, FleetSame, StrayIs, StrayIsNext
  <1>3. ASSUME UNCHANGED <<proc, copy, loose, pc, manifest>> PROVE FleetStep
    BY <1>2, <1>3 DEF FleetStep, FleetCall, FleetWanted
  <1>4. \A s \in Services : Fleet!BringUp(s) \/ Fleet!TakeOut(s) \/ Fleet!Cut(s) => FleetStep
    BY DEF FleetStep, Fleet!Next
  <1>5. ASSUME NEW s \in Services, StartService(s) PROVE FleetStep
    BY <1>3, <1>4, <1>5, BringUpStep DEF StartService, EnsureRunning, Pass, table
  <1>6. ASSUME NEW s \in Services, WalkService(s) PROVE FleetStep
    <2>1. copy[s] = 0 => ~Running(s)
      BY DEF Running, Alive
    <2>2. Returns(s) => ~Running(s)
      BY DEF Returns
    <2> QED BY <1>3, <1>4, <1>6, <2>1, <2>2, BringUpStep DEF WalkService, Pass, table
  <1>7. ASSUME NEW s \in Services, Enter(s) PROVE FleetStep
    BY <1>7, EnterStep DEF FleetStep
  <1>8. ASSUME NEW s \in Services, DropService(s) \/ StopService(s) PROVE FleetStep
    <2>1. Fleet!TakeOut(s)
      BY <1>8, TakeOutStep DEF DropService, StopService, IsOldest, IsNewest
    <2> QED BY <1>4, <2>1
  <1>9. CASE Dropped
    <2>1. UNCHANGED <<FleetCall, FleetWanted>>
      BY <1>9 DEF Dropped, FleetCall, FleetWanted, Idle
    <2>2. loose = 0
      BY <1>1, <1>9 DEF Dropped, LooseOK
    <2> QED BY <1>2, <1>9, <2>1, <2>2 DEF FleetStep, Dropped, table
  <1>10. CASE Persist
    <2>1. loose = 0
      BY <1>1, <1>10 DEF Persist, LooseOK, Idle
    <2>2. UNCHANGED <<FleetState, FleetStray, FleetWanted>>
      BY <1>2, <1>10, <2>1 DEF Persist, table, FleetWanted
    <2>3. FleetCall' = "none"
      BY <1>10 DEF Persist, FleetCall, Idle
    <2>4. \/ FleetCall = "start" /\ FleetWanted \subseteq Held
          \/ FleetCall = "reconcile" /\ FleetWanted = Held
      BY <1>1, <1>10, FabricAssumption DEF Persist, CallOK, FleetCall, FleetWanted, Idle
    <2>5. Fleet!Answer
      BY <1>1, <2>1, <2>2, <2>3, <2>4, FleetIs
         DEF Fleet!Answer, FleetState, FleetStray, FleetCall, FleetWanted
    <2> QED BY <2>5 DEF FleetStep, Fleet!Next
  <1>11. CASE AllStopped \/ StopBreaks
    <2>1. UNCHANGED <<FleetState, FleetStray, FleetWanted>> /\ pc = "stop"
      BY <1>2, <1>11 DEF AllStopped, StopBreaks, table, FleetWanted
    <2>2. /\ FleetCall = "stop"
          /\ FleetCall' = "broken" \/ (FleetCall' = "stopped" /\ Held = {})
      BY <1>1, <1>11 DEF AllStopped, StopBreaks, FleetCall, Idle, CallOK
    <2>3. Fleet!Over
      BY <1>1, <2>1, <2>2, FleetIs
         DEF Fleet!Over, FleetState, FleetStray, FleetCall, FleetWanted
    <2> QED BY <2>3 DEF FleetStep, Fleet!Next
  <1>12. ASSUME NEW m \in Manifests, StartManifest(m) \/ Reconcile(m) PROVE FleetStep
    <2>1. loose = 0
      BY <1>1, <1>12 DEF StartManifest, Reconcile, LooseOK, Idle
    <2>2. UNCHANGED <<FleetState, FleetStray>>
      BY <1>2, <1>12, <2>1 DEF StartManifest, Reconcile, table
    <2>3. FleetCall = "none" /\ FleetCall' \in {"start", "reconcile"}
      BY <1>12 DEF StartManifest, Reconcile, FleetCall, Idle
    <2>4. FleetWanted' \in SUBSET Services
      BY <1>12, ListedServices, FabricAssumption DEF StartManifest, Reconcile, FleetWanted
    <2>5. Fleet!Ask
      BY <2>2, <2>3, <2>4 DEF Fleet!Ask, FleetState, FleetStray, FleetCall, FleetWanted
    <2> QED BY <2>5 DEF FleetStep, Fleet!Next
  <1>13. CASE StopAll
    <2>1. loose = 0
      BY <1>1, <1>13 DEF StopAll, LooseOK, Idle
    <2>2. UNCHANGED <<FleetState, FleetStray, FleetWanted>>
      BY <1>2, <1>13, <2>1 DEF StopAll, table, FleetWanted
    <2>3. FleetCall = "none" /\ FleetCall' = "stop"
      BY <1>13 DEF StopAll, FleetCall, Idle
    <2>4. Fleet!AskStop
      BY <2>2, <2>3 DEF Fleet!AskStop, FleetState, FleetStray, FleetCall, FleetWanted
    <2> QED BY <2>4 DEF FleetStep, Fleet!Next
  <1>14. CASE Raises
    <2>1. FleetCall \in {"start", "reconcile"} /\ FleetCall' = "stop" /\ UNCHANGED FleetWanted
      BY <1>14 DEF Raises, FleetCall, FleetWanted, Idle
    <2>2. FleetStray' = FleetStray
      <3>1. Stray = {} /\ Stray' = {}
        BY <1>14 DEF Raises, Stray
      <3> QED BY <1>1, <3>1, StrayIs, StrayIsNext
    <2>3. CASE UNCHANGED table
      <3>1. FleetState' = FleetState
        BY <1>2, <1>14, <2>3 DEF Raises, table
      <3>2. Fleet!Fail
        BY <2>1, <2>2, <3>1 DEF Fleet!Fail, FleetState, FleetStray, FleetCall, FleetWanted
      <3> QED BY <3>2 DEF FleetStep, Fleet!Next
    <2>4. ASSUME NEW s \in todo, pc = "walk", Returns(s), Pop(s)
          PROVE  FleetStep
      <3>1. s \in Services /\ s \in FleetWanted
        BY <1>1, <2>4, FabricAssumption DEF CallOK, FleetWanted
      <3>2. FleetState' = [FleetState EXCEPT ![s] = "out"]
        BY <1>1, <1>14, <2>4, <3>1, PopSeen, FleetOne DEF Raises
      <3>3. FleetCall = "reconcile"
        BY <2>4 DEF FleetCall, Idle
      <3>4. Fleet!ComesBack(s)
        BY <1>1, <1>14, <2>4, <3>1, DueComesBack DEF Raises
      <3>5. Fleet!Fail
        BY <2>1, <2>2, <3>1, <3>2, <3>3, <3>4
           DEF Fleet!Fail, FleetState, FleetStray, FleetCall, FleetWanted
      <3> QED BY <3>5 DEF FleetStep, Fleet!Next
    <2> QED BY <1>14, <2>3, <2>4 DEF Raises
  <1>15. CASE LosesTrack
    BY <1>4, <1>15, CutStep
  <1>16. CASE NewSupervisor
    <2>1. \A s \in Services : Seen(s)' = "out"
      BY <1>16 DEF NewSupervisor, Seen, Current
    <2>2. FleetState' = [s \in Services |-> "out"]
      BY <1>1, <2>1, FleetSeenNext
    <2>3. FleetStray' = {}
      <3>1. Stray' = {}
        BY <1>16 DEF NewSupervisor, Stray
      <3> QED BY <1>1, <3>1, StrayIsNext
    <2>4. FleetCall' = "none" /\ FleetWanted' = {}
      BY <1>16 DEF NewSupervisor, FleetCall, FleetWanted, Idle
    <2>5. Fleet!Renew
      BY <2>2, <2>3, <2>4 DEF Fleet!Renew, FleetState, FleetStray, FleetCall, FleetWanted
    <2> QED BY <2>5 DEF FleetStep, Fleet!Next
  <1>17. ASSUME NEW c \in DOMAIN proc, Dies(c) PROVE FleetStep
    BY <1>17, DiesStep
  <1>18. CASE UNCHANGED vars
    BY <1>3, <1>18 DEF vars
  <1> QED BY <1>5, <1>6, <1>7, <1>8, <1>9, <1>10, <1>11, <1>12, <1>13, <1>14, <1>15, <1>16, <1>17,
             <1>18 DEF Next, Step, StopHangs

LEMMA InitFleet == Init => Fleet!Init
  <1> SUFFICES ASSUME Init PROVE Fleet!Init
    OBVIOUS
  <1>1. TableOK /\ LooseOK
    BY InitInv DEF FabricInv
  <1>2. FleetState = [s \in Services |-> "out"]
    BY <1>1, FleetSeen DEF Init, Seen, Current
  <1>3. FleetCall = "none" /\ FleetWanted = {} /\ FleetStray = {}
    BY <1>1, StrayIs DEF Init, FleetCall, FleetWanted, Idle, Stray
  <1> QED BY <1>2, <1>3 DEF Fleet!Init, FleetState, FleetStray, FleetCall, FleetWanted

\* Whatever the manifests, the policies and the failures, and however many
\* processes and supervisors there are: the fabric is a fleet of services, each
\* with at most one process in its hands, brought up over its dependencies;
\* what a call that returns leaves is what it was asked for, and what strays is
\* one service at most, from a start that the user cut.
THEOREM FleetRefined == Spec => ImplementsFleet
  <1>1. FabricInv /\ FabricInv' /\ [Next]_vars => FleetStep
    BY StepFleet
  <1>2. FleetStep <=> [Fleet!Next]_<<[s \in Services |-> Shown(s)],
                                     {proc[c].svc : c \in {c \in DOMAIN proc : Lost(c) /\ Alive(c)}},
                                     IF pc \in Idle THEN "none"
                                     ELSE IF pc \in {"drop", "walk"} THEN "reconcile" ELSE pc,
                                     IF manifest = None THEN {} ELSE Listed(manifest)>>
    BY DEF FleetStep, FleetState, FleetStray, FleetCall, FleetWanted
  <1> QED BY <1>1, <1>2, InitFleet, InvCorrect, PTL DEF Spec, ImplementsFleet, Fleet!Spec
-----------------------------------------------------------------------------
(* Every call shrinks and goes on *)

\* The phases of a call: reconcile drops before it walks, and what raises is
\* followed by stop_all.
Phase ==
    CASE pc = "start" -> 4 [] pc = "drop" -> 3 [] pc = "walk" -> 2 [] pc = "stop" -> 1
      [] OTHER -> 0

\* What is left of a call: of each service, Popen and then the table.
Left == <<Phase, Cardinality(todo), IF loose = 0 THEN 1 ELSE 0>>

Works == Step \/ Raises \/ LosesTrack \/ StopBreaks

CallShrinks ==
    [][ /\ Works => pc \in Busy
        /\ pc \in Busy =>
              \/ pc' \notin Busy
              \/ Below(3, Left', Left)
              \/ ~Works /\ Left' = Left ]_vars

LEMMA LeftType ==
    ASSUME IsFiniteSet(Services), CallOK
    PROVE  Left \in Tuples(3) /\ IsFiniteSet(todo)
  <1>1. IsFiniteSet(todo)
    BY FS_Subset DEF CallOK
  <1>2. Cardinality(todo) \in Nat /\ Phase \in Nat
    BY <1>1, FS_CardinalityType DEF Phase
  <1> QED BY <1>1, <1>2 DEF Left, Tuples

LEMMA LeftFalls ==
    ASSUME \/ Phase' < Phase
           \/ Phase' = Phase /\ Cardinality(todo)' < Cardinality(todo)
           \/ Phase' = Phase /\ todo' = todo /\ loose = 0 /\ loose' # 0
    PROVE  Below(3, Left', Left)
  BY DEF Below, Left

LEMMA StepFalls ==
    ASSUME IsFiniteSet(Services), FabricInv, Works
    PROVE  pc \in Busy /\ (pc' \notin Busy \/ Below(3, Left', Left))
  <1>1. CallOK /\ LooseOK /\ TableOK
    BY DEF FabricInv
  <1>2. CASE \E s \in todo : todo' = todo \ {s} /\ pc' = pc /\ pc \in Busy
    <2>1. Cardinality(todo') < Cardinality(todo)
      BY <1>1, <1>2, LeftType, FewerElements
    <2>2. Phase' = Phase
      BY <1>2 DEF Phase
    <2> QED BY <1>2, <2>1, <2>2, LeftFalls
  <1>3. CASE \E s \in Services : Launch(s) /\ loose = 0 /\ pc' = pc /\ pc \in Busy
    <2>1. loose' # 0 /\ todo' = todo
      BY <1>1, <1>3 DEF Launch, TableOK
    <2>2. Phase' = Phase
      BY <1>3 DEF Phase
    <2> QED BY <1>3, <2>1, <2>2, LeftFalls
  <1>4. CASE Dropped \/ Persist \/ AllStopped \/ StopBreaks \/ Raises \/ LosesTrack
    <2>1. \/ pc = "drop" /\ pc' = "walk"
          \/ pc \in Busy /\ pc' \in {"started", "reconciled", "stopped", "broken"}
          \/ pc \in {"start", "drop", "walk"} /\ pc' = "stop"
      BY <1>4 DEF Dropped, Persist, AllStopped, StopBreaks, Raises, LosesTrack, Busy
    <2>2. pc \in Busy /\ (pc' \notin Busy \/ Phase' < Phase)
      BY <2>1 DEF Phase, Busy
    <2> QED BY <2>2, LeftFalls
  <1>5. ASSUME NEW s \in Services,
               StartService(s) \/ Enter(s) \/ DropService(s) \/ WalkService(s) \/ StopService(s)
        PROVE  \/ \E x \in todo : todo' = todo \ {x} /\ pc' = pc /\ pc \in Busy
               \/ Launch(s) /\ loose = 0 /\ pc' = pc /\ pc \in Busy
    <2>1. CASE StartService(s) \/ WalkService(s)
      BY <2>1 DEF StartService, WalkService, EnsureRunning, Pass, IsNext, Busy
    <2>2. CASE Enter(s)
      BY <1>1, <2>2 DEF Enter, LooseOK, IsNext, Busy
    <2>3. CASE DropService(s) \/ StopService(s)
      BY <2>3 DEF DropService, StopService, IsOldest, IsNewest, Busy
    <2> QED BY <1>5, <2>1, <2>2, <2>3
  <1> QED BY <1>2, <1>3, <1>4, <1>5 DEF Works, Step, StopHangs

\* Whatever processes do and whatever fails, each step of a call leaves less of
\* it, in a well-founded order, and no process sets it back: none goes on for ever.
THEOREM CallsShrink ==
    ASSUME IsFiniteSet(Services)
    PROVE  Spec => [](Left \in Tuples(3)) /\ CallShrinks
  <1>1. FabricInv => Left \in Tuples(3)
    BY LeftType DEF FabricInv
  <1>2. FabricInv /\ [Next]_vars =>
            [ /\ Works => pc \in Busy
              /\ pc \in Busy =>
                    \/ pc' \notin Busy
                    \/ Below(3, Left', Left)
                    \/ ~Works /\ Left' = Left ]_vars
    <2>1. Next /\ ~Works /\ pc \in Busy => pc' \notin Busy \/ Left' = Left
      BY DEF Next, Works, StartManifest, Reconcile, StopAll, NewSupervisor, Dies, Idle, Busy, Left, Phase
    <2> QED BY <2>1, StepFalls
  <1> QED BY <1>1, <1>2, InvCorrect, PTL DEF Spec, CallShrinks

\* A call that is not through with its services has a next one.
HasNext ==
    todo # {} =>
        /\ pc \in {"start", "walk"} => \E s \in Services : IsNext(s)
        /\ pc = "drop" => \E s \in Services : IsOldest(s)
        /\ pc = "stop" => \E s \in Services : IsNewest(s)

LEMMA NextExists ==
    ASSUME IsFiniteSet(Services), CallOK, pc \in {"start", "walk"}, todo # {}
    PROVE  \E s \in Services : IsNext(s)
  <1> DEFINE R == {p \in Services \X Services : p[1] = p[2] \/ Precedes(manifest, p[1], p[2])}
  <1>1. /\ todo \subseteq Services /\ todo \subseteq Listed(manifest)
        /\ manifest \in Manifests /\ IsFiniteSet(todo)
    BY LeftType DEF CallOK
  <1>2. DOMAIN Order[manifest] \subseteq Int
    <2>1. Order[manifest] \in Seq(Services)
      BY <1>1, FabricAssumption
    <2> QED BY <2>1
  <1>3. \A i, j \in DOMAIN Order[manifest] :
            Order[manifest][i] = Order[manifest][j] => i = j
    BY <1>1, Topological
  <1>4. \A x, y \in todo : <<x, y>> \in R \/ <<y, x>> \in R
    <2> SUFFICES ASSUME NEW x \in todo, NEW y \in todo, x # y
                 PROVE  Precedes(manifest, x, y) \/ Precedes(manifest, y, x)
      BY <1>1
    <2>1. PICK i \in DOMAIN Order[manifest] : Order[manifest][i] = x
      BY <1>1 DEF Listed
    <2>2. PICK j \in DOMAIN Order[manifest] : Order[manifest][j] = y
      BY <1>1 DEF Listed
    <2>3. i < j \/ j < i
      BY <1>2, <2>1, <2>2
    <2> QED BY <2>1, <2>2, <2>3 DEF Precedes
  <1>5. \A x, y, z \in todo : <<x, y>> \in R /\ <<y, z>> \in R => <<x, z>> \in R
    <2> SUFFICES ASSUME NEW x \in todo, NEW y \in todo, NEW z \in todo,
                        Precedes(manifest, x, y), Precedes(manifest, y, z)
                 PROVE  Precedes(manifest, x, z)
      BY <1>1
    <2>1. PICK i, j \in DOMAIN Order[manifest] :
            i < j /\ Order[manifest][i] = x /\ Order[manifest][j] = y
      BY DEF Precedes
    <2>2. PICK k, l \in DOMAIN Order[manifest] :
            k < l /\ Order[manifest][k] = y /\ Order[manifest][l] = z
      BY DEF Precedes
    <2>3. i < l
      BY <1>2, <1>3, <2>1, <2>2
    <2> QED BY <2>1, <2>2, <2>3 DEF Precedes
  <1>6. PICK s \in todo : \A t \in todo : <<s, t>> \in R
    <2> HIDE DEF R
    <2> QED BY <1>1, <1>4, <1>5, BestExists
  <1> QED BY <1>1, <1>6 DEF IsNext

\* Every service of the table has a place of its own.
LEMMA PlacesDiffer ==
    ASSUME Founded, NEW s \in Services, NEW t \in Services, slot[s] # 0, slot[s] = slot[t]
    PROVE  s = t
  BY DEF Founded, Copies

LEMMA EndsExist ==
    ASSUME IsFiniteSet(Services), TableOK, Founded, CallOK, todo \subseteq Held, todo # {}
    PROVE  (\E s \in Services : IsOldest(s)) /\ (\E s \in Services : IsNewest(s))
  <1> DEFINE R == {p \in Services \X Services : slot[p[1]] <= slot[p[2]]}
             Q == {p \in Services \X Services : slot[p[2]] <= slot[p[1]]}
  <1>1. todo \subseteq Services /\ IsFiniteSet(todo)
    BY LeftType DEF CallOK
  <1>2. \A s \in todo : slot[s] \in Nat /\ slot[s] # 0
    BY <1>1 DEF TableOK, Held
  <1>3. /\ \A x, y \in todo : <<x, y>> \in R \/ <<y, x>> \in R
        /\ \A x, y, z \in todo : <<x, y>> \in R /\ <<y, z>> \in R => <<x, z>> \in R
    BY <1>1, <1>2
  <1>4. /\ \A x, y \in todo : <<x, y>> \in Q \/ <<y, x>> \in Q
        /\ \A x, y, z \in todo : <<x, y>> \in Q /\ <<y, z>> \in Q => <<x, z>> \in Q
    BY <1>1, <1>2
  <1>5. PICK s \in todo : \A t \in todo : <<s, t>> \in R
    <2> HIDE DEF R
    <2> QED BY <1>1, <1>3, BestExists
  <1>6. PICK n \in todo : \A t \in todo : <<n, t>> \in Q
    <2> HIDE DEF Q
    <2> QED BY <1>1, <1>4, BestExists
  <1>7. IsOldest(s)
    <2>1. \A t \in todo \ {s} : slot[s] # slot[t] /\ slot[s] <= slot[t]
      BY <1>1, <1>2, <1>5, PlacesDiffer
    <2> QED BY <1>2, <2>1 DEF IsOldest
  <1>8. IsNewest(n)
    <2>1. \A t \in todo \ {n} : slot[n] # slot[t] /\ slot[t] <= slot[n]
      BY <1>1, <1>2, <1>6, PlacesDiffer
    <2> QED BY <1>2, <2>1 DEF IsNewest
  <1> QED BY <1>1, <1>7, <1>8

\* A walk over a manifest always finds the service that is due, and one over
\* the table its oldest or newest entry, so no call is stuck before its end.
THEOREM CallsGoOn ==
    ASSUME IsFiniteSet(Services)
    PROVE  Spec => []HasNext
  <1>1. Init => Founded
    BY DEF Init, Founded
  <1>2. FabricInv /\ Founded => HasNext
    <2> SUFFICES ASSUME TableOK, CallOK, Founded, todo # {}
                 PROVE  /\ pc \in {"start", "walk"} => \E s \in Services : IsNext(s)
                        /\ pc = "drop" => \E s \in Services : IsOldest(s)
                        /\ pc = "stop" => \E s \in Services : IsNewest(s)
      BY DEF FabricInv, HasNext
    <2>1. pc \in {"drop", "stop"} => todo \subseteq Held
      BY DEF CallOK
    <2> QED BY <2>1, NextExists, EndsExist
  <1> QED BY <1>1, <1>2, InvCorrect, StepFounded, PTL DEF Spec
=============================================================================
