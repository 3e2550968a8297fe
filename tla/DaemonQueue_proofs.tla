-------------------------- MODULE DaemonQueue_proofs --------------------------
(***************************************************************************)
(* Proofs about DaemonQueue, for every set of tasks with any dependencies, *)
(* any number of ticks and any limits: what holds however ticks overlap,   *)
(* and what holds as long as they do not.                                  *)
(***************************************************************************)
EXTENDS DaemonQueue, Descent, FiniteSetTheorems, TLAPS

Table == [Tasks -> Row]

On(w) == pc[w] # "off"

\* Rows of the batch that tick w has not decided yet.
InHand(w) == todo[w] \cup (IF task[w] = None THEN {} ELSE {task[w]})

\* Attempts and status of a table agree.
RowsOK(tab) ==
    \A t \in Tasks \ Empty :
        /\ tab[t].status \in {"absent", "pending", "retry"} => tab[t].attempts < MaxAttempts[t]
        /\ tab[t].status = "failed" => tab[t].attempts = MaxAttempts[t]
        /\ tab[t].attempts <= MaxAttempts[t]

\* What holds however ticks overlap.
BaseInv ==
    /\ TypeOK
    /\ writer = None => draft = db
    /\ writer # None => On(writer)
    /\ \A w \in Ticks : pc[w] = "off" => todo[w] = {}
    /\ \A w \in Ticks : \A t \in InHand(w) \ Empty : seen[w][t] < MaxAttempts[t]
    /\ RowsOK(db) /\ RowsOK(draft)

\* A table in which what is completed stands on what is completed.
Closed(tab) ==
    \A t \in Tasks : tab[t].status = "completed" =>
        \A d \in Deps[t] : tab[d].status = "completed"

\* What a tick that is alone knows and has done.
AloneOK(w) ==
    /\ task[w] \notin todo[w]
    /\ \A t \in InHand(w) : /\ View(w)[t] = db[t]
                            /\ db[t].status \in {"pending", "retry"}
                            /\ seen[w][t] = db[t].attempts
    /\ \A t \in Tasks : db[t].status \in {"completed", "failed"} => View(w)[t] = db[t]
    /\ \A t \in Tasks : View(w)[t].attempts <= db[t].attempts + 1
    /\ losses <= MaxLosses =>
           \A t \in Tasks : runs[t] <= View(w)[t].attempts + losses + (IF task[w] = t THEN 1 ELSE 0)
    /\ Closed(View(w))
    /\ task[w] # None => DepsSatisfied(w, task[w])

\* What holds as long as no two ticks overlapped.
AloneInv ==
    ~overlapped =>
        /\ \A v, w \in Ticks : On(v) /\ On(w) => v = w
        /\ Closed(db)
        /\ \A w \in Ticks : On(w) => AloneOK(w)
        /\ losses <= MaxLosses /\ (\A w \in Ticks : ~On(w)) =>
               \A t \in Tasks : runs[t] <= db[t].attempts + losses

QueueInv == BaseInv /\ AloneInv

-----------------------------------------------------------------------------
LEMMA InitInv == Init => QueueInv
  <1> SUFFICES ASSUME Init PROVE QueueInv
    OBVIOUS
  <1>1. BaseInv
    <2>1. TypeOK
      BY QueueAssumption DEF Init, TypeOK, Row, Status
    <2>2. RowsOK(db) /\ RowsOK(draft)
      BY QueueAssumption DEF Init, RowsOK
    <2> QED BY <2>1, <2>2 DEF Init, BaseInv, InHand, On
  <1>2. AloneInv
    BY DEF Init, AloneInv, Closed, On
  <1> QED BY <1>1, <1>2 DEF QueueInv

\* A row is written from what was read with the batch.
LEMMA UpdateKeeps ==
    ASSUME BaseInv, NEW w \in Ticks, On(w), NEW t \in Tasks, t \in InHand(w), NEW status,
           \/ status = "failed" /\ t \in Empty
           \/ status \in {"completed", Verdict(w, t)} /\ t \notin Empty,
           Update(w, t, status)
    PROVE  /\ draft' \in Table /\ RowsOK(draft')
           /\ draft'[t] = [status |-> status, attempts |-> seen[w][t] + 1]
           /\ \A u \in Tasks \ {t} : draft'[u] = View(w)[u]
  <1>1. /\ db \in Table /\ draft \in Table /\ seen[w][t] \in Nat
        /\ MaxAttempts \in [Tasks -> Nat \ {0}]
    BY QueueAssumption DEF BaseInv, TypeOK, Table
  <1>2. status \in Status
    BY DEF Verdict, Status
  <1>3. View(w) \in Table /\ RowsOK(View(w))
    BY <1>1 DEF View, BaseInv
  <1>4. /\ draft' \in Table
        /\ draft'[t] = [status |-> status, attempts |-> seen[w][t] + 1]
        /\ \A u \in Tasks \ {t} : draft'[u] = View(w)[u]
    BY <1>1, <1>2, <1>3 DEF Update, Table, Row
  <1>5. t \notin Empty => seen[w][t] < MaxAttempts[t]
    BY DEF BaseInv
  <1>6. t \notin Empty =>
            /\ status \in {"absent", "pending", "retry"} => seen[w][t] + 1 < MaxAttempts[t]
            /\ status = "failed" => seen[w][t] + 1 = MaxAttempts[t]
            /\ seen[w][t] + 1 <= MaxAttempts[t]
    BY <1>1, <1>5 DEF Verdict
  <1>7. RowsOK(draft')
    BY <1>3, <1>4, <1>6 DEF RowsOK
  <1> QED BY <1>4, <1>7

LEMMA StepBase == BaseInv /\ [Next]_vars => BaseInv'
  <1> SUFFICES ASSUME BaseInv, [Next]_vars PROVE BaseInv'
    OBVIOUS
  <1> USE DEF Table
  <1>0. /\ db \in Table /\ draft \in Table /\ None \notin Tasks /\ None \notin Ticks
        /\ MaxAttempts \in [Tasks -> Nat \ {0}]
    BY QueueAssumption DEF BaseInv, TypeOK
  <1>1. ASSUME NEW w \in Ticks, Begin(w) PROVE BaseInv'
    <2>1. Batch \subseteq Waiting /\ Waiting \subseteq Tasks
      BY DEF Batch, Waiting
    <2>2. TypeOK'
      BY <1>0, <1>1, <2>1 DEF Begin, BaseInv, TypeOK, Row
    <2>3. \A v \in Ticks : \A t \in InHand(v)' \ Empty : seen'[v][t] < MaxAttempts[t]
      <3>1. task[w] = None
        BY <1>1 DEF Begin, BaseInv, TypeOK
      <3>2. \A t \in Waiting \ Empty : db[t].attempts < MaxAttempts[t]
        BY <2>1 DEF BaseInv, RowsOK, Waiting
      <3> QED BY <1>1, <2>1, <3>1, <3>2 DEF Begin, BaseInv, TypeOK, InHand
    <2>4. \A v \in Ticks : pc'[v] = "off" => todo'[v] = {}
      BY <1>1 DEF Begin, BaseInv, TypeOK
    <2>5. writer' # None => On(writer)'
      BY <1>1 DEF Begin, BaseInv, TypeOK, On
    <2> QED BY <1>1, <2>2, <2>3, <2>4, <2>5 DEF Begin, BaseInv, RowsOK
  <1>2. ASSUME NEW w \in Ticks, NEW t \in Tasks, RejectEmpty(w, t) PROVE BaseInv'
    <2>1. On(w) /\ t \in InHand(w) /\ pc[w] = "loop"
      BY <1>2 DEF RejectEmpty, IsNext, InHand, On
    <2>2. draft' \in Table /\ RowsOK(draft')
      BY <1>2, <2>1, UpdateKeeps DEF RejectEmpty
    <2>3. TypeOK'
      BY <1>2, <2>2 DEF RejectEmpty, Update, BaseInv, TypeOK
    <2>4. \A v \in Ticks : InHand(v)' \subseteq InHand(v)
      BY <1>2 DEF RejectEmpty, InHand, BaseInv, TypeOK
    <2> QED BY <1>0, <1>2, <2>1, <2>2, <2>3, <2>4 DEF RejectEmpty, Update, BaseInv, On, TypeOK
  <1>3. ASSUME NEW w \in Ticks, NEW t \in Tasks, SkipWaiting(w, t) PROVE BaseInv'
    <2>1. TypeOK'
      BY <1>3 DEF SkipWaiting, BaseInv, TypeOK
    <2>2. \A v \in Ticks : InHand(v)' \subseteq InHand(v) /\ todo'[v] \subseteq todo[v]
      BY <1>3 DEF SkipWaiting, InHand, BaseInv, TypeOK
    <2> QED BY <1>3, <2>1, <2>2 DEF SkipWaiting, BaseInv, On
  <1>4. ASSUME NEW w \in Ticks, NEW t \in Tasks, RunCommand(w, t) PROVE BaseInv'
    <2>1. TypeOK'
      BY <1>0, <1>4 DEF RunCommand, BaseInv, TypeOK
    <2>2. \A v \in Ticks : InHand(v)' \subseteq InHand(v) /\ todo'[v] \subseteq todo[v]
      BY <1>4 DEF RunCommand, IsNext, InHand, BaseInv, TypeOK
    <2>3. \A v \in Ticks : pc[v] = "off" <=> pc'[v] = "off"
      BY <1>4 DEF RunCommand, BaseInv, TypeOK
    <2> QED BY <1>4, <2>1, <2>2, <2>3 DEF RunCommand, BaseInv, On, TypeOK
  <1>5. ASSUME NEW w \in Ticks, CommandEnds(w) PROVE BaseInv'
    <2>1. /\ On(w) /\ task[w] \in InHand(w) /\ task[w] \in Tasks
          /\ \A v \in Ticks : pc[v] = "off" <=> pc'[v] = "off"
      BY <1>5 DEF CommandEnds, InHand, On, BaseInv, TypeOK
    <2>2. PICK status \in {"completed", Verdict(w, task[w])} : Update(w, task[w], status)
      BY <1>5 DEF CommandEnds
    <2>3. CASE task[w] \notin Empty
      <3>1. draft' \in Table /\ RowsOK(draft')
        BY <2>1, <2>2, <2>3, UpdateKeeps
      <3>2. TypeOK'
        BY <1>0, <1>5, <2>2, <3>1 DEF CommandEnds, Update, BaseInv, TypeOK
      <3>3. \A v \in Ticks : InHand(v)' \subseteq InHand(v)
        BY <1>5 DEF CommandEnds, InHand, BaseInv, TypeOK
      <3> QED BY <1>0, <1>5, <2>1, <2>2, <3>1, <3>2, <3>3 DEF CommandEnds, Update, BaseInv, On, TypeOK
    <2>4. CASE task[w] \in Empty
      <3>1. /\ draft' \in Table
            /\ \A u \in Tasks \ Empty : draft'[u] = View(w)[u]
        BY <1>0, <2>1, <2>2, <2>4 DEF Update, View, Row, Status, Verdict, BaseInv, TypeOK
      <3>2. RowsOK(draft')
        BY <3>1 DEF RowsOK, View, BaseInv
      <3>3. TypeOK'
        BY <1>0, <1>5, <2>2, <3>1 DEF CommandEnds, Update, BaseInv, TypeOK
      <3>4. \A v \in Ticks : InHand(v)' \subseteq InHand(v)
        BY <1>5 DEF CommandEnds, InHand, BaseInv, TypeOK
      <3> QED BY <1>0, <1>5, <2>1, <2>2, <3>1, <3>2, <3>3, <3>4 DEF CommandEnds, Update, BaseInv, On, TypeOK
    <2> QED BY <2>3, <2>4
  <1>6. ASSUME NEW w \in Ticks, Off(w) PROVE
            /\ pc' \in [Ticks -> {"off", "loop", "command"}]
            /\ todo' \in [Ticks -> SUBSET Tasks]
            /\ seen' \in [Ticks -> [Tasks -> Nat]]
            /\ task' \in [Ticks -> Tasks \cup {None}]
            /\ pc'[w] = "off" /\ InHand(w)' = {} /\ todo'[w] = {}
            /\ \A v \in Ticks \ {w} :
                   pc'[v] = pc[v] /\ todo'[v] = todo[v] /\ InHand(v)' = InHand(v) /\ seen'[v] = seen[v]
            /\ \A v \in Ticks : task'[v] # None <=> pc'[v] = "command"
    BY <1>0, <1>6 DEF Off, BaseInv, TypeOK, InHand
  <1>7. ASSUME NEW w \in Ticks, Commit(w) PROVE BaseInv'
    <2>1. /\ db' = View(w) /\ draft' = draft
          /\ writer' = IF writer = w THEN None ELSE writer
          /\ UNCHANGED <<runs, overlapped, losses>> /\ Off(w)
      BY <1>7 DEF Commit
    <2>2. View(w) \in Table /\ RowsOK(View(w))
      BY <1>0 DEF View, BaseInv
    <2>3. writer' = None => draft' = db'
      BY <2>1, <1>0 DEF View, BaseInv
    <2>4. TypeOK'
      BY <1>6, <2>1, <2>2 DEF TypeOK, BaseInv
    <2>5. RowsOK(db') /\ RowsOK(draft')
      BY <2>1, <2>2 DEF BaseInv
    <2>6. writer' # None => On(writer)'
      BY <1>0, <1>6, <2>1, <2>4 DEF BaseInv, On, TypeOK
    <2>7. \A v \in Ticks : /\ pc'[v] = "off" => todo'[v] = {}
                          /\ \A t \in InHand(v)' \ Empty : seen'[v][t] < MaxAttempts[t]
      BY <1>6, <2>1 DEF BaseInv
    <2> QED BY <2>3, <2>4, <2>5, <2>6, <2>7 DEF BaseInv
  <1>8. ASSUME NEW w \in Ticks, Rollback(w), Off(w), UNCHANGED <<runs, overlapped>>, losses' \in Nat
        PROVE BaseInv'
    <2>1. /\ db' = db /\ draft' \in Table /\ RowsOK(draft')
          /\ writer' = IF writer = w THEN None ELSE writer
          /\ writer' = None => draft' = db'
      BY <1>0, <1>8 DEF Rollback, BaseInv
    <2>2. TypeOK'
      BY <1>0, <1>6, <1>8, <2>1 DEF TypeOK, BaseInv
    <2>3. RowsOK(db')
      BY <2>1 DEF BaseInv
    <2>4. writer' # None => On(writer)'
      BY <1>0, <1>6, <1>8, <2>1, <2>2 DEF BaseInv, On, TypeOK
    <2>5. \A v \in Ticks : /\ pc'[v] = "off" => todo'[v] = {}
                          /\ \A t \in InHand(v)' \ Empty : seen'[v][t] < MaxAttempts[t]
      BY <1>6, <1>8 DEF BaseInv
    <2> QED BY <2>1, <2>2, <2>3, <2>4, <2>5 DEF BaseInv
  <1>9. ASSUME NEW w \in Ticks, Locked(w) PROVE BaseInv'
    BY <1>8, <1>9 DEF Locked, BaseInv, TypeOK
  <1>10. ASSUME NEW w \in Ticks, Loses(w) PROVE BaseInv'
    <2>1. losses' \in Nat
      BY <1>10 DEF Loses, BaseInv, TypeOK
    <2> QED BY <1>8, <1>10, <2>1 DEF Loses
  <1>13. ASSUME NEW w \in Ticks, CommandRaises(w) PROVE BaseInv'
    <2>1. losses' \in Nat
      BY <1>13 DEF CommandRaises, BaseInv, TypeOK
    <2> QED BY <1>8, <1>13, <2>1 DEF CommandRaises
  <1>11. ASSUME NEW t \in Tasks, Submit(t) PROVE BaseInv'
    <2>1. /\ db' \in Table
          /\ db'[t].status = "pending" /\ db'[t].attempts = db[t].attempts /\ db[t].status = "absent"
          /\ \A u \in Tasks \ {t} : db'[u] = db[u]
      BY <1>0, <1>11 DEF Submit, Row, Status
    <2>2. RowsOK(db')
      BY <2>1 DEF RowsOK, BaseInv
    <2>3. TypeOK'
      BY <1>11, <2>1 DEF Submit, tick, BaseInv, TypeOK
    <2>4. \A v \in Ticks : InHand(v)' = InHand(v)
      BY <1>11 DEF Submit, tick, InHand
    <2> QED BY <1>11, <2>1, <2>2, <2>3, <2>4 DEF Submit, tick, BaseInv, On
  <1>12. CASE UNCHANGED vars
    BY <1>12 DEF vars, BaseInv, TypeOK, RowsOK, InHand, On
  <1> QED BY <1>1, <1>2, <1>3, <1>4, <1>5, <1>7, <1>9, <1>10, <1>11, <1>12, <1>13 DEF Next, Step

-----------------------------------------------------------------------------
(* Ticks that do not overlap *)

\* The tick of a step is the only one: what it does not change of itself, no
\* one else has.
LEMMA AloneKeeps ==
    ASSUME BaseInv, ~overlapped, NEW w \in Ticks, On(w),
           \A v \in Ticks : On(v) => v = w,
           pc' \in [Ticks -> {"off", "loop", "command"}],
           \A v \in Ticks \ {w} : pc'[v] = pc[v],
           Closed(db'), On(w)' => AloneOK(w)',
           losses' <= MaxLosses /\ ~On(w)' => \A t \in Tasks : runs'[t] <= db'[t].attempts + losses'
    PROVE  AloneInv'
  <1>1. \A v \in Ticks : On(v)' => v = w
    BY DEF On
  <1>2. \A v \in Ticks : On(v)' => AloneOK(v)'
    BY <1>1
  <1>3. losses' <= MaxLosses /\ (\A v \in Ticks : ~On(v)') =>
            \A t \in Tasks : runs'[t] <= db'[t].attempts + losses'
    OBVIOUS
  <1> QED BY <1>1, <1>2, <1>3 DEF AloneInv

\* A tick that is alone writes a row it has in hand: nothing that is
\* completed stands on that row.
LEMMA UpdateAlone ==
    ASSUME BaseInv, NEW w \in Ticks, On(w), AloneOK(w), NEW t \in Tasks, t \in InHand(w),
           NEW status \in {"completed", "failed", "retry"},
           status = "completed" => DepsSatisfied(w, t),
           Update(w, t, status), db' = db, runs' = runs, losses' = losses, seen' = seen,
           todo'[w] = todo[w] \ {t}, task'[w] = None, task[w] \in {None, t}, todo'[w] \subseteq todo[w],
           losses <= MaxLosses /\ task[w] # t => runs[t] <= db[t].attempts + losses
    PROVE  AloneOK(w)'
  <1>1. /\ db \in Table /\ draft \in Table /\ seen[w] \in [Tasks -> Nat]
        /\ None \notin Tasks /\ None \notin Ticks /\ todo[w] \subseteq Tasks
        /\ losses \in Nat /\ runs \in [Tasks -> Nat]
        /\ Deps \in [Tasks -> SUBSET Tasks]
    BY QueueAssumption DEF BaseInv, TypeOK, Table
  <1>2. View(w) \in Table /\ View(w)' = draft'
    BY <1>1 DEF View, Update
  <1>3. /\ draft'[t].status = status /\ draft'[t].attempts = seen[w][t] + 1
        /\ \A u \in Tasks \ {t} : draft'[u] = View(w)[u]
    BY <1>1, <1>2 DEF Update, Table
  <1>4. InHand(w)' = todo[w] \ {t} /\ InHand(w)' \subseteq InHand(w)
    BY DEF InHand
  <1>5. task'[w] \notin todo'[w]
    BY <1>1
  <1>6. seen[w][t] = db[t].attempts /\ db[t].status \in {"pending", "retry"} /\ View(w)[t] = db[t]
    BY DEF AloneOK
  <1>7. \A u \in InHand(w)' : /\ View(w)'[u] = db'[u]
                              /\ db'[u].status \in {"pending", "retry"}
                              /\ seen'[w][u] = db'[u].attempts
    BY <1>1, <1>2, <1>3, <1>4 DEF AloneOK
  <1>8. \A u \in Tasks : db'[u].status \in {"completed", "failed"} => View(w)'[u] = db'[u]
    BY <1>2, <1>3, <1>6 DEF AloneOK
  <1>9. \A u \in Tasks : View(w)'[u].attempts <= db'[u].attempts + 1
    <2>1. db[t].attempts \in Nat
      BY <1>1 DEF Table, Row
    <2> QED BY <1>2, <1>3, <1>6, <2>1 DEF AloneOK
  <1>10. losses' <= MaxLosses =>
             \A u \in Tasks : runs'[u] <= View(w)'[u].attempts + losses' + (IF task'[w] = u THEN 1 ELSE 0)
    <2> SUFFICES ASSUME losses <= MaxLosses, NEW u \in Tasks
                 PROVE  runs[u] <= draft'[u].attempts + losses
      <3>1. \A u \in Tasks : (IF task'[w] = u THEN 1 ELSE 0) = 0
        BY <1>1
      <3>2. \A u \in Tasks : View(w)'[u].attempts = draft'[u].attempts /\ draft'[u].attempts \in Nat
        <4>1. \A v \in Tasks : View(w)'[v].attempts = draft'[v].attempts
          BY <1>2
        <4>2. draft'[t].attempts \in Nat
          BY <1>1, <1>3
        <4>3. \A v \in Tasks \ {t} : View(w)[v] \in Row
          BY <1>2 DEF Table
        <4>4. \A v \in Tasks \ {t} : draft'[v].attempts \in Nat
          BY <1>3, <4>3 DEF Row
        <4> QED BY <4>1, <4>2, <4>4
      <3>3. runs' = runs /\ losses' = losses
        OBVIOUS
      <3> QED BY <1>1, <3>1, <3>2, <3>3
    <2>1. db[u].attempts \in Nat /\ View(w)[u].attempts \in Nat /\ runs[u] \in Nat
      BY <1>1, <1>2 DEF Table, Row
    <2>2. CASE u = t
      <3>1. runs[u] <= db[u].attempts + losses + 1
        BY <1>1, <1>6, <2>1, <2>2 DEF AloneOK
      <3> QED BY <1>1, <1>2, <1>3, <1>6, <2>1, <2>2, <3>1
    <2>3. CASE u # t
      <3>1. task[w] # u
        BY <2>3, <1>1
      <3>2. runs[u] <= View(w)[u].attempts + losses
        BY <3>1, <2>1, <1>1 DEF AloneOK
      <3> QED BY <1>2, <1>3, <2>3, <3>2
    <2> QED BY <2>2, <2>3
  <1>11. Closed(View(w)')
    <2> SUFFICES ASSUME NEW u \in Tasks, draft'[u].status = "completed", NEW d \in Deps[u]
                 PROVE  draft'[d].status = "completed"
      BY <1>2 DEF Closed
    <2>1. d \in Tasks
      BY <1>1
    <2>2. View(w)[d].status = "completed"
      <3>1. CASE u = t
        BY <3>1, <1>3 DEF DepsSatisfied
      <3>2. CASE u # t
        BY <3>2, <1>3 DEF AloneOK, Closed
      <3> QED BY <3>1, <3>2
    <2>3. d # t
      BY <2>2, <1>6
    <2> QED BY <2>1, <2>2, <2>3, <1>3
  <1> QED BY <1>5, <1>7, <1>8, <1>9, <1>10, <1>11 DEF AloneOK

LEMMA StepAlone == BaseInv /\ AloneInv /\ [Next]_vars => AloneInv'
  <1> SUFFICES ASSUME BaseInv, AloneInv, [Next]_vars, ~overlapped' PROVE AloneInv'
    BY DEF AloneInv
  <1>0. /\ db \in Table /\ draft \in Table /\ None \notin Tasks /\ None \notin Ticks
        /\ pc \in [Ticks -> {"off", "loop", "command"}] /\ todo \in [Ticks -> SUBSET Tasks]
        /\ seen \in [Ticks -> [Tasks -> Nat]] /\ task \in [Ticks -> Tasks \cup {None}]
        /\ runs \in [Tasks -> Nat] /\ losses \in Nat
        /\ \A w \in Ticks : task[w] # None <=> pc[w] = "command"
    BY QueueAssumption DEF BaseInv, TypeOK, Table
  <1>1. ~overlapped
    BY DEF Next, Begin, Step, RejectEmpty, SkipWaiting, RunCommand, CommandEnds, CommandRaises,
           Commit, Locked, Loses, Submit, vars
  <1>2. \A w \in Ticks : On(w) => AloneOK(w) /\ \A v \in Ticks : On(v) => v = w
    BY <1>1 DEF AloneInv
  <1>3. Closed(db)
    BY <1>1 DEF AloneInv
  <1>4. ASSUME NEW w \in Ticks, Begin(w) PROVE AloneInv'
    <2>1. \A v \in Ticks : ~On(v)
      BY <1>4 DEF Begin, On
    <2>2. writer = None /\ draft = db
      BY <2>1, <1>0 DEF BaseInv, TypeOK
    <2>3. /\ UNCHANGED <<db, writer, draft, runs, losses, task>> /\ task[w] = None
          /\ todo' = [todo EXCEPT ![w] = Batch] /\ pc' = [pc EXCEPT ![w] = "loop"]
          /\ seen' = [seen EXCEPT ![w] = [t \in Tasks |-> db[t].attempts]]
      BY <1>0, <1>4 DEF Begin
    <2>4. Batch \subseteq Waiting /\ Waiting \subseteq Tasks /\ InHand(w)' = Batch /\ View(w)' = db
      BY <1>0, <2>2, <2>3 DEF Batch, Waiting, InHand, View
    <2>5. \A t \in Tasks : (losses <= MaxLosses => runs[t] <= db[t].attempts + losses) /\ db[t].attempts \in Nat
      BY <1>0, <1>1, <2>1 DEF AloneInv, Table, Row
    <2>6. AloneOK(w)'
      <3>1. task'[w] \notin todo'[w]
        BY <1>0, <2>3, <2>4
      <3>2. \A t \in InHand(w)' : /\ View(w)'[t] = db'[t] /\ db'[t].status \in {"pending", "retry"}
                                  /\ seen'[w][t] = db'[t].attempts
        BY <1>0, <2>3, <2>4 DEF Waiting
      <3>3. \A t \in Tasks : View(w)'[t].attempts <= db'[t].attempts + 1
        BY <2>3, <2>4, <2>5
      <3>4. losses' <= MaxLosses =>
                \A t \in Tasks : runs'[t] <= View(w)'[t].attempts + losses' + (IF task'[w] = t THEN 1 ELSE 0)
        BY <1>0, <2>3, <2>4, <2>5
      <3>5. Closed(View(w)')
        BY <1>3, <2>4
      <3> QED BY <2>3, <2>4, <3>1, <3>2, <3>3, <3>4, <3>5 DEF AloneOK
    <2>7. \A v \in Ticks : On(v)' => v = w
      BY <1>0, <2>1, <2>3 DEF On
    <2>8. On(w)'
      BY <1>0, <2>3 DEF On
    <2> QED BY <1>3, <2>3, <2>6, <2>7, <2>8 DEF AloneInv
  <1>5. ASSUME NEW w \in Ticks, NEW t \in Tasks, RejectEmpty(w, t) PROVE AloneInv'
    <2>1. On(w) /\ t \in InHand(w) /\ task[w] = None /\ t \in todo[w]
      BY <1>0, <1>5 DEF RejectEmpty, IsNext, InHand, On
    <2>2. AloneOK(w)
      BY <1>2, <2>1
    <2>3. /\ Update(w, t, "failed") /\ todo'[w] = todo[w] \ {t} /\ task'[w] = None
          /\ UNCHANGED <<db, pc, seen, runs, losses>>
      BY <1>0, <1>5, <2>1 DEF RejectEmpty
    <2>4. losses <= MaxLosses => runs[t] <= db[t].attempts + losses
      <3>1. db[t].attempts \in Nat /\ t # None
        BY <1>0 DEF Table, Row
      <3> QED BY <1>0, <2>1, <2>2, <3>1 DEF AloneOK
    <2>5. AloneOK(w)'
      BY <2>1, <2>2, <2>3, <2>4, UpdateAlone
    <2> QED BY <1>0, <1>1, <1>2, <1>3, <2>1, <2>3, <2>5, AloneKeeps DEF On
  <1>6. ASSUME NEW w \in Ticks, NEW t \in Tasks, SkipWaiting(w, t) PROVE AloneInv'
    <2>1. On(w) /\ AloneOK(w)
      BY <1>2, <1>6 DEF SkipWaiting, On
    <2>2. /\ UNCHANGED <<db, writer, draft, pc, seen, task, runs, losses>>
          /\ todo'[w] \subseteq todo[w] /\ InHand(w)' \subseteq InHand(w)
      BY <1>0, <1>6 DEF SkipWaiting, InHand
    <2>3. AloneOK(w)'
      BY <2>1, <2>2 DEF AloneOK, View, DepsSatisfied, Closed
    <2> QED BY <1>0, <1>1, <1>2, <1>3, <2>1, <2>2, <2>3, AloneKeeps DEF On
  <1>7. ASSUME NEW w \in Ticks, NEW t \in Tasks, RunCommand(w, t) PROVE AloneInv'
    <2>1. On(w) /\ AloneOK(w) /\ task[w] = None /\ t \in todo[w] /\ DepsSatisfied(w, t)
      BY <1>0, <1>2, <1>7 DEF RunCommand, IsNext, On
    <2>2. /\ UNCHANGED <<db, writer, draft, seen, losses>> /\ task'[w] = t
          /\ todo'[w] = todo[w] \ {t} /\ InHand(w)' \subseteq InHand(w)
          /\ losses <= MaxLosses => runs' = [runs EXCEPT ![t] = @ + 1]
          /\ pc' = [pc EXCEPT ![w] = "command"]
      BY <1>0, <1>1, <1>7, <2>1 DEF RunCommand, Counting, InHand
    <2>3. losses' <= MaxLosses =>
              \A u \in Tasks : runs'[u] <= View(w)'[u].attempts + losses' + (IF task'[w] = u THEN 1 ELSE 0)
      <3> SUFFICES ASSUME losses <= MaxLosses, NEW u \in Tasks
                   PROVE  runs'[u] <= View(w)[u].attempts + losses + (IF t = u THEN 1 ELSE 0)
        BY <2>2 DEF View
      <3>1. runs[u] <= View(w)[u].attempts + losses /\ View(w)[u].attempts \in Nat
        <4>1. View(w)[u].attempts \in Nat /\ task[w] # u
          BY <1>0, <2>1 DEF View, Table, Row
        <4> QED BY <1>0, <2>1, <4>1 DEF AloneOK
      <3> QED BY <1>0, <2>2, <3>1
    <2>4. View(w)' = View(w) /\ db' = db
      BY <2>2 DEF View
    <2>5. AloneOK(w)'
      BY <2>1, <2>2, <2>3, <2>4 DEF AloneOK, DepsSatisfied
    <2> QED BY <1>0, <1>1, <1>2, <1>3, <2>1, <2>2, <2>5, AloneKeeps DEF On
  <1>8. ASSUME NEW w \in Ticks, CommandEnds(w) PROVE AloneInv'
    <2>1. On(w) /\ AloneOK(w) /\ task[w] \in Tasks /\ task[w] \in InHand(w)
      BY <1>0, <1>2, <1>8 DEF CommandEnds, InHand, On
    <2>2. PICK status \in {"completed", Verdict(w, task[w])} : Update(w, task[w], status)
      BY <1>8 DEF CommandEnds
    <2>3. /\ UNCHANGED <<db, todo, seen, runs, losses>> /\ task'[w] = None
          /\ pc' = [pc EXCEPT ![w] = "loop"]
      BY <1>0, <1>8 DEF CommandEnds
    <2>4. todo'[w] = todo[w] \ {task[w]} /\ DepsSatisfied(w, task[w])
      BY <2>1, <2>3, <1>0 DEF AloneOK
    <2>5. status \in {"completed", "failed", "retry"}
      BY DEF Verdict
    <2>6. AloneOK(w)'
      BY <2>1, <2>2, <2>3, <2>4, <2>5, UpdateAlone
    <2> QED BY <1>0, <1>1, <1>2, <1>3, <2>1, <2>3, <2>6, AloneKeeps DEF On
  <1>9. ASSUME NEW w \in Ticks, Commit(w) PROVE AloneInv'
    <2>1. On(w) /\ AloneOK(w) /\ task[w] = None
      BY <1>0, <1>2, <1>9 DEF Commit, On
    <2>2. db' = View(w) /\ pc' = [pc EXCEPT ![w] = "off"] /\ UNCHANGED <<runs, losses>>
      BY <1>9 DEF Commit, Off
    <2>3. losses' <= MaxLosses => \A t \in Tasks : runs'[t] <= db'[t].attempts + losses'
      <3> SUFFICES ASSUME losses <= MaxLosses, NEW t \in Tasks
                   PROVE  runs'[t] <= db'[t].attempts + losses
        BY <2>2
      <3>1. View(w)[t].attempts \in Nat /\ t # None
        BY <1>0 DEF View, Table, Row
      <3> QED BY <1>0, <2>1, <2>2, <3>1 DEF AloneOK
    <2>4. Closed(db')
      BY <2>1, <2>2 DEF AloneOK
    <2>5. ~On(w)'
      BY <1>0, <2>2 DEF On
    <2> QED BY <1>0, <1>1, <1>2, <2>1, <2>2, <2>3, <2>4, <2>5, AloneKeeps DEF On
  <1>10. ASSUME NEW w \in Ticks, Locked(w) PROVE AloneInv'
    <2>1. On(w) /\ writer \in Ticks /\ writer # w /\ On(writer)
      BY <1>0, <1>10 DEF Locked, On, BaseInv, TypeOK
    <2> QED BY <1>2, <2>1
  <1>11. ASSUME NEW w \in Ticks, CommandRaises(w) \/ Loses(w) PROVE AloneInv'
    <2>1. On(w) /\ AloneOK(w)
      BY <1>2, <1>11 DEF CommandRaises, Loses, On
    <2>2. /\ db' = db /\ pc' = [pc EXCEPT ![w] = "off"] /\ runs' = runs
          /\ losses' <= MaxLosses => losses' = losses + 1 /\ losses <= MaxLosses
      BY <1>0, <1>11, QueueAssumption DEF CommandRaises, Loses, Rollback, Off
    <2>3. losses' <= MaxLosses => \A t \in Tasks : runs'[t] <= db'[t].attempts + losses'
      <3> SUFFICES ASSUME losses <= MaxLosses, losses' = losses + 1, NEW t \in Tasks
                   PROVE  runs[t] <= db[t].attempts + losses'
        BY <2>2
      <3>1. View(w)[t].attempts \in Nat /\ db[t].attempts \in Nat /\ t # None
        BY <1>0 DEF View, Table, Row
      <3>2. CASE task[w] = t
        <4>1. View(w)[t] = db[t]
          BY <2>1, <3>1, <3>2 DEF AloneOK, InHand
        <4> QED BY <1>0, <2>1, <3>1, <3>2, <4>1 DEF AloneOK
      <3>3. CASE task[w] # t
        <4>1. runs[t] <= View(w)[t].attempts + losses /\ View(w)[t].attempts <= db[t].attempts + 1
          BY <1>0, <2>1, <3>1, <3>3 DEF AloneOK
        <4> QED BY <1>0, <3>1, <4>1
      <3> QED BY <3>2, <3>3
    <2>4. ~On(w)'
      BY <1>0, <2>2 DEF On
    <2> QED BY <1>0, <1>1, <1>2, <1>3, <2>1, <2>2, <2>3, <2>4, AloneKeeps DEF On
  <1>12. ASSUME NEW t \in Tasks, Submit(t) PROVE AloneInv'
    <2>1. /\ db' = [db EXCEPT ![t].status = "pending"] /\ db[t].status = "absent"
          /\ writer = None /\ writer' = None
          /\ UNCHANGED <<pc, todo, seen, task, runs, losses>>
      BY <1>12 DEF Submit, tick
    <2>2. /\ db'[t].status = "pending" /\ db'[t].attempts = db[t].attempts
          /\ \A u \in Tasks \ {t} : db'[u] = db[u]
      BY <1>0, <2>1 DEF Table, Row
    <2>3. \A w \in Ticks : View(w)' = db' /\ View(w) = db /\ InHand(w)' = InHand(w)
      BY <1>0, <2>1 DEF View, InHand
    <2>4. Closed(db')
      BY <1>3, <2>1, <2>2, QueueAssumption DEF Closed
    <2>5. ASSUME NEW w \in Ticks, On(w) PROVE AloneOK(w)'
      <3>1. AloneOK(w) /\ t \notin InHand(w)
        BY <1>2, <2>1, <2>5 DEF AloneOK
      <3>2. InHand(w) \subseteq Tasks
        BY <1>0 DEF InHand
      <3>3. \A u \in InHand(w)' : /\ View(w)'[u] = db'[u] /\ db'[u].status \in {"pending", "retry"}
                                  /\ seen'[w][u] = db'[u].attempts
        BY <2>1, <2>2, <2>3, <3>1, <3>2 DEF AloneOK
      <3>4. \A u \in Tasks : db'[u].attempts = db[u].attempts
        BY <2>2
      <3>5. task[w] # None => \A d \in Deps[task[w]] : View(w)'[d].status = "completed"
        <4> SUFFICES ASSUME task[w] # None, NEW d \in Deps[task[w]]
                     PROVE  db'[d].status = "completed"
          BY <2>3
        <4>1. db[d].status = "completed"
          BY <2>3, <3>1 DEF AloneOK, DepsSatisfied
        <4>2. d \in Tasks
          BY <1>0, QueueAssumption
        <4> QED BY <2>1, <2>2, <4>1, <4>2
      <3>6. \A u \in Tasks : View(w)'[u].attempts <= db'[u].attempts + 1
        BY <2>3, <3>1, <3>4 DEF AloneOK
      <3>7. losses' <= MaxLosses =>
                \A u \in Tasks : runs'[u] <= View(w)'[u].attempts + losses' + (IF task'[w] = u THEN 1 ELSE 0)
        BY <2>1, <2>3, <3>1, <3>4 DEF AloneOK
      <3>8. \A u \in Tasks : db'[u].status \in {"completed", "failed"} => View(w)'[u] = db'[u]
        BY <2>3
      <3>9. Closed(View(w)') /\ task'[w] \notin todo'[w]
        BY <2>1, <2>3, <2>4, <3>1 DEF AloneOK
      <3> QED BY <2>1, <3>3, <3>5, <3>6, <3>7, <3>8, <3>9 DEF AloneOK, DepsSatisfied
    <2>6. \A w \in Ticks : On(w)' = On(w)
      BY <2>1 DEF On
    <2>7. losses' <= MaxLosses /\ (\A w \in Ticks : ~On(w)) =>
              \A u \in Tasks : runs'[u] <= db'[u].attempts + losses'
      BY <1>1, <2>1, <2>2 DEF AloneInv
    <2> QED BY <1>2, <2>4, <2>5, <2>6, <2>7 DEF AloneInv
  <1>13. CASE UNCHANGED vars
    <2>1. UNCHANGED <<db, writer, draft, pc, todo, seen, task, runs, overlapped, losses>>
      BY <1>13 DEF vars
    <2> QED BY <2>1 DEF AloneInv, AloneOK, On, InHand, View, Closed, DepsSatisfied
  <1> QED BY <1>4, <1>5, <1>6, <1>7, <1>8, <1>9, <1>10, <1>11, <1>12, <1>13 DEF Next, Step

THEOREM InvCorrect == Spec => []QueueInv
  <1>1. QueueInv /\ [Next]_vars => QueueInv'
    BY StepBase, StepAlone DEF QueueInv
  <1> QED BY <1>1, InitInv, PTL DEF Spec

-----------------------------------------------------------------------------
(* The results *)

\* Every variable keeps its type; a tick has a task exactly while it runs one.
THEOREM TypeCorrect == Spec => []TypeOK
  <1>1. QueueInv => TypeOK
    BY DEF QueueInv, BaseInv
  <1> QED BY <1>1, InvCorrect, PTL

\* However ticks overlap, die or are locked out, attempts and status of every
\* row agree and no count exceeds max_attempts.
THEOREM AttemptsCorrect == Spec => []AttemptsMatchStatus
  <1>1. QueueInv => AttemptsMatchStatus
    BY DEF QueueInv, BaseInv, RowsOK, AttemptsMatchStatus
  <1> QED BY <1>1, InvCorrect, PTL

\* While no two ticks overlapped, every command that ran is counted, or its
\* tick is open or was lost.
THEOREM RunsCorrect == Spec => []RunsAreCounted
  <1>1. QueueInv => RunsAreCounted
    <2> SUFFICES ASSUME QueueInv, ~overlapped, losses <= MaxLosses, NEW t \in Tasks
                 PROVE  runs[t] <= db[t].attempts + losses
                                   + (IF \E w \in Ticks : pc[w] # "off" THEN 1 ELSE 0)
      BY DEF RunsAreCounted, Counting
    <2>1. /\ db \in Table /\ draft \in Table /\ runs[t] \in Nat /\ losses \in Nat
          /\ db[t].attempts \in Nat
      BY DEF QueueInv, BaseInv, TypeOK, Table, Row
    <2>2. CASE \E w \in Ticks : pc[w] # "off"
      <3>1. PICK w \in Ticks : On(w)
        BY <2>2 DEF On
      <3>2. AloneOK(w)
        BY <3>1 DEF QueueInv, AloneInv
      <3>3. View(w)[t].attempts \in Nat /\ t # None
        BY <2>1, QueueAssumption DEF View, Table, Row
      <3>4. CASE task[w] = t
        <4>1. View(w)[t] = db[t]
          BY <3>2, <3>3, <3>4 DEF AloneOK, InHand
        <4> QED BY <2>1, <2>2, <3>2, <3>4, <4>1 DEF AloneOK
      <3>5. CASE task[w] # t
        <4>1. runs[t] <= View(w)[t].attempts + losses /\ View(w)[t].attempts <= db[t].attempts + 1
          BY <2>1, <3>2, <3>3, <3>5 DEF AloneOK
        <4> QED BY <2>1, <2>2, <3>3, <4>1
      <3> QED BY <3>4, <3>5
    <2>3. CASE \A w \in Ticks : pc[w] = "off"
      BY <2>1, <2>3 DEF QueueInv, AloneInv, On
    <2> QED BY <2>2, <2>3
  <1> QED BY <1>1, InvCorrect, PTL

\* While no two ticks overlapped, what is completed stands on what is
\* completed.
THEOREM CompletedCorrect == Spec => []CompletedOverCompleted
  <1>1. QueueInv => CompletedOverCompleted
    BY DEF QueueInv, AloneInv, Closed, CompletedOverCompleted
  <1> QED BY <1>1, InvCorrect, PTL

\* While no two ticks overlapped, what is decided stays decided.
THEOREM DecisionsCorrect == Spec => DecisionsStand
  <1>1. QueueInv /\ [Next]_vars =>
            [\A t \in Tasks : /\ ~overlapped
                              /\ db[t].status \in {"completed", "failed"}
                              => db'[t].status = db[t].status]_vars
    <2> SUFFICES ASSUME QueueInv, Next, NEW t \in Tasks, ~overlapped,
                        db[t].status \in {"completed", "failed"}
                 PROVE  db'[t].status = db[t].status
      OBVIOUS
    <2>1. ASSUME NEW w \in Ticks, Commit(w) PROVE db'[t].status = db[t].status
      <3>1. AloneOK(w)
        BY <2>1 DEF Commit, QueueInv, AloneInv, On
      <3> QED BY <2>1, <3>1 DEF Commit, AloneOK
    <2>2. ASSUME NEW u \in Tasks, Submit(u) PROVE db'[t].status = db[t].status
      <3>1. db' = [db EXCEPT ![u].status = "pending"] /\ db[u].status = "absent" /\ t # u
        BY <2>2 DEF Submit
      <3> QED BY <3>1
    <2> QED BY <2>1, <2>2 DEF Next, Begin, Step, RejectEmpty, SkipWaiting, RunCommand, CommandEnds,
                              CommandRaises, Locked, Loses, Rollback
  <1> QED BY <1>1, InvCorrect, PTL DEF Spec, DecisionsStand

-----------------------------------------------------------------------------
(* Batches *)

\* The rows that tick w has changed.
Ran(w) == {t \in Tasks : View(w)[t] # db[t]}

\* What became of them.
Made(w) == [t \in Ran(w) |-> View(w)[t].status]

\* Tick w serves batch B, in order: it has decided what is older than the rows it
\* has in hand, and changed exactly the rows that could run.
Serves(w, B) ==
    /\ Queue!IsBatch(B) /\ InHand(w) \subseteq B
    /\ Ran(w) \subseteq B \ InHand(w)
    /\ \A t \in B \ InHand(w) : \A u \in InHand(w) : Created[t] < Created[u]
    /\ \A t \in B \ InHand(w) : t \in Ran(w) <=> t \in Empty \/ Queue!Ready(t, Ran(w), Made(w))
    /\ \A t \in Ran(w) : /\ Made(w)[t] \in Queue!Outcome(t)
                         /\ View(w)[t].attempts = db[t].attempts + 1
    /\ task[w] # None => task[w] \notin Empty /\ \A u \in todo[w] : Created[task[w]] < Created[u]

BatchInv == ~overlapped => \A w \in Ticks : On(w) => \E B \in SUBSET Tasks : Serves(w, B)

-----------------------------------------------------------------------------
\* Only finitely many tasks are older than a given one.
LEMMA OlderFinite ==
    ASSUME NEW S \in SUBSET Tasks, NEW n \in Nat
    PROVE  IsFiniteSet({u \in S : Created[u] < n})
  <1> DEFINE O == {u \in S : Created[u] < n}
             f == [u \in O |-> Created[u]]
  <1>1. Created \in [Tasks -> Nat] /\ \A t, u \in Tasks : Created[t] = Created[u] => t = u
    BY QueueAssumption
  <1>2. f \in Injection(O, 0..n)
    BY <1>1 DEF Injection, IsInjective
  <1>3. IsFiniteSet(0..n)
    BY FS_Interval
  <1> HIDE DEF f
  <1> QED BY <1>2, <1>3, FS_Injection

LEMMA SameCardinality == ASSUME NEW S PROVE Queue!Cardinality(S) = Cardinality(S)
  BY DEF Queue!Cardinality, Cardinality

\* The batch that a tick reads skips nothing.
LEMMA BatchIsBatch == Queue!IsBatch(Batch)
  <1>1. Created \in [Tasks -> Nat]
    BY QueueAssumption
  <1>2. Waiting \subseteq Tasks /\ Queue!Waiting = Waiting
    BY DEF Waiting, Queue!Waiting
  <1>3. ASSUME NEW t \in Batch, NEW u \in Waiting, Created[u] < Created[t]
        PROVE  u \in Batch
    <2> DEFINE older(x) == {v \in Waiting : Created[v] < Created[x]}
    <2>1. t \in Waiting /\ Cardinality(older(t)) < Limit
      BY DEF Batch
    <2>2. IsFiniteSet(older(t)) /\ older(u) \subseteq older(t)
      <3>1. Created[t] \in Nat /\ \A v \in Waiting : Created[v] \in Nat
        BY <1>1, <1>2, <2>1
      <3>2. IsFiniteSet(older(t))
        BY <1>2, <3>1, OlderFinite
      <3> QED BY <1>3, <3>1, <3>2
    <2>3. /\ Cardinality(older(u)) <= Cardinality(older(t))
          /\ Cardinality(older(u)) \in Nat /\ Cardinality(older(t)) \in Nat
      BY <2>2, FS_Subset, FS_CardinalityType
    <2>4. Cardinality(older(u)) < Limit
      <3>1. Limit \in Nat
        BY QueueAssumption
      <3> HIDE DEF older
      <3> QED BY <2>1, <2>3, <3>1
    <2> QED BY <2>4 DEF Batch
  <1> QED BY <1>2, <1>3, SameCardinality DEF Queue!IsBatch, Batch

\* A task submitted now is younger than every task of a batch.
LEMMA SubmitKeepsBatch ==
    ASSUME TypeOK, NEW t \in Tasks, Submit(t), NEW B \in SUBSET Tasks, Queue!IsBatch(B)
    PROVE  Queue!IsBatch(B)' /\ t \notin B
  <1>1. /\ Created \in [Tasks -> Nat] /\ \A x, y \in Tasks : Created[x] = Created[y] => x = y
        /\ db \in [Tasks -> Row]
    BY QueueAssumption DEF TypeOK
  <1>2. /\ db[t].status = "absent" /\ db'[t].status = "pending"
        /\ \A u \in Tasks \ {t} : db'[u] = db[u]
        /\ \A u \in Tasks : Created[u] > Created[t] => db[u].status = "absent"
    BY <1>1 DEF Submit, Row
  <1> DEFINE W == Queue!Waiting
  <1>3. W \subseteq Tasks /\ t \notin W /\ W' = W \cup {t}
    BY <1>2 DEF Queue!Waiting
  <1>4. \A x \in W : Created[x] < Created[t]
    BY <1>1, <1>2, <1>3 DEF Queue!Waiting
  <1>5. B \subseteq W
    BY DEF Queue!IsBatch
  <1>6. \A x \in B : {u \in W' : Created[u] < Created[x]} = {u \in W : Created[u] < Created[x]}
    BY <1>1, <1>3, <1>4, <1>5
  <1>7. \A x \in B : Cardinality({u \in W : Created[u] < Created[x]}) < Limit
    BY SameCardinality DEF Queue!IsBatch
  <1>8. \A x \in B : Cardinality({u \in W' : Created[u] < Created[x]}) < Limit
    BY <1>6, <1>7
  <1>9. \A x \in B, u \in W' : Created[u] < Created[x] => u \in B
    BY <1>1, <1>3, <1>4, <1>5 DEF Queue!IsBatch
  <1>10. B \subseteq W'
    BY <1>3, <1>5
  <1> HIDE DEF W
  <1>11. W' = Queue!Waiting'
    BY DEF W
  <1> QED BY <1>3, <1>5, <1>8, <1>9, <1>10, <1>11, SameCardinality DEF Queue!IsBatch

\* A step that neither decides a row nor changes a table.
LEMMA KeepServes ==
    ASSUME NEW w \in Ticks, NEW B \in SUBSET Tasks, Serves(w, B),
           db' = db, View(w)' = View(w), InHand(w)' = InHand(w),
           task'[w] # None => task'[w] \notin Empty /\ \A u \in todo'[w] : Created[task'[w]] < Created[u]
    PROVE  Serves(w, B)'
  <1>1. Ran(w)' = Ran(w) /\ Made(w)' = Made(w)
    BY DEF Ran, Made
  <1>2. Queue!IsBatch(B)' /\ \A t : Queue!Outcome(t)' = Queue!Outcome(t)
    BY DEF Serves, Queue!IsBatch, Queue!Waiting, Queue!Outcome
  <1>3. \A t : Queue!Ready(t, Ran(w), Made(w))' <=> Queue!Ready(t, Ran(w), Made(w))
    BY <1>1 DEF Queue!Ready
  <1> QED BY <1>1, <1>2, <1>3 DEF Serves

\* The oldest row in hand is decided: it is passed over, or it changes.
LEMMA DecideServes ==
    ASSUME BaseInv, NEW w \in Ticks, AloneOK(w), NEW B \in SUBSET Tasks, Serves(w, B),
           NEW t \in InHand(w), \A u \in InHand(w) \ {t} : Created[t] < Created[u],
           db' = db, InHand(w)' = InHand(w) \ {t}, task'[w] = None,
           \A u \in Tasks \ {t} : View(w)'[u] = View(w)[u],
           \/ /\ View(w)'[t] = View(w)[t]
              /\ t \notin Empty /\ ~DepsSatisfied(w, t)
           \/ /\ View(w)'[t].status \in Queue!Outcome(t)
              /\ View(w)'[t].attempts = db[t].attempts + 1
              /\ t \in Empty \/ DepsSatisfied(w, t)
    PROVE  Serves(w, B)'
  <1>1. /\ Deps \in [Tasks -> SUBSET Tasks] /\ Created \in [Tasks -> Nat]
        /\ db \in Table /\ InHand(w) \subseteq Tasks
    BY QueueAssumption DEF BaseInv, TypeOK, Table, InHand
  <1>2. /\ InHand(w) \subseteq B /\ Ran(w) \subseteq B \ InHand(w)
        /\ \A u \in Ran(w) : /\ Made(w)[u] \in Queue!Outcome(u)
                             /\ View(w)[u].attempts = db[u].attempts + 1
    BY DEF Serves
  <1>3. /\ View(w)[t] = db[t] /\ db[t].status \in {"pending", "retry"} /\ db[t].attempts \in Nat
        /\ \A u \in Tasks : db[u].status \in {"completed", "failed"} => View(w)[u] = db[u]
    BY <1>1 DEF AloneOK, Table, Row
  <1>4. Ran(w) \subseteq Ran(w)' /\ Ran(w)' \subseteq Ran(w) \cup {t} /\ t \notin Ran(w)
    BY <1>3 DEF Ran
  <1>5. t \in Ran(w)' <=> t \in Empty \/ DepsSatisfied(w, t)
    BY <1>1, <1>3 DEF Ran
  <1>6. \A u \in Ran(w) : Made(w)'[u] = Made(w)[u] /\ View(w)'[u] = View(w)[u]
    BY <1>4 DEF Ran, Made
  <1>7. \A u \in B \ InHand(w) : Created[u] < Created[t]
    BY DEF Serves
  <1>8. ASSUME NEW u \in B, \A d \in Ran(w)' : Created[d] < Created[u] => d \in Ran(w)
        PROVE  Queue!Ready(u, Ran(w), Made(w)) <=> Queue!Ready(u, Ran(w)', Made(w)')
    <2>1. \A d : Created[d] < Created[u] => (d \in Ran(w)' <=> d \in Ran(w))
      BY <1>4, <1>8
    <2> QED BY <1>6, <2>1 DEF Queue!Ready
  <1>9. ASSUME NEW u \in B \ InHand(w)
        PROVE  u \in Ran(w)' <=> u \in Empty \/ Queue!Ready(u, Ran(w)', Made(w)')
    <2>1. Created[u] < Created[t] /\ Created[u] \in Nat /\ Created[t] \in Nat
      BY <1>1, <1>7
    <2>2. \A d \in Ran(w)' : Created[d] < Created[u] => d \in Ran(w)
      BY <1>4, <2>1
    <2>3. Queue!Ready(u, Ran(w), Made(w)) <=> Queue!Ready(u, Ran(w)', Made(w)')
      BY <1>8, <2>2
    <2>4. u \in Ran(w)' <=> u \in Ran(w)
      BY <1>4
    <2> QED BY <2>3, <2>4 DEF Serves
  <1>10. DepsSatisfied(w, t) <=> Queue!Ready(t, Ran(w), Made(w))
    <2>1. ASSUME NEW d \in Tasks
          PROVE  View(w)[d].status = "completed"
                   <=> \/ db[d].status = "completed"
                       \/ d \in Ran(w) /\ Created[d] < Created[t] /\ Made(w)[d] = "completed"
      BY <1>2, <1>3, <1>7 DEF Ran, Made
    <2> QED BY <1>1, <2>1 DEF DepsSatisfied, Queue!Ready
  <1>11. t \in Ran(w)' <=> t \in Empty \/ Queue!Ready(t, Ran(w)', Made(w)')
    <2>1. \A d \in Ran(w)' : Created[d] < Created[t] => d \in Ran(w)
      BY <1>1, <1>4
    <2> QED BY <1>2, <1>5, <1>8, <1>10, <2>1
  <1>12. \A u \in B \ InHand(w)' : u \in Ran(w)' <=> u \in Empty \/ Queue!Ready(u, Ran(w)', Made(w)')
    BY <1>9, <1>11
  <1>13. \A u \in Ran(w)' : /\ Made(w)'[u] \in Queue!Outcome(u)
                           /\ View(w)'[u].attempts = db[u].attempts + 1
    <2>1. t \in Ran(w)' => Made(w)'[t] = View(w)'[t].status
      BY DEF Made
    <2>2. t \in Ran(w)' => /\ View(w)'[t].status \in Queue!Outcome(t)
                           /\ View(w)'[t].attempts = db[t].attempts + 1
      BY <1>5
    <2> QED BY <1>2, <1>4, <1>6, <2>1, <2>2
  <1>14. \A x \in B \ InHand(w)' : \A u \in InHand(w)' : Created[x] < Created[u]
    BY DEF Serves
  <1>15. InHand(w)' \subseteq B /\ Ran(w)' \subseteq B \ InHand(w)'
    BY <1>2, <1>4
  <1>16. Queue!IsBatch(B)' /\ \A u : Queue!Outcome(u)' = Queue!Outcome(u)
    BY DEF Serves, Queue!IsBatch, Queue!Waiting, Queue!Outcome
  <1>17. \A u : Queue!Ready(u, Ran(w), Made(w))' <=> Queue!Ready(u, Ran(w)', Made(w)')
    BY DEF Queue!Ready
  <1> QED BY <1>12, <1>13, <1>14, <1>15, <1>16, <1>17 DEF Serves

\* The row that a tick takes next is older than the rest of its batch.
LEMMA NextIsOldest ==
    ASSUME NEW w \in Ticks, todo[w] \subseteq Tasks, NEW t \in Tasks, IsNext(w, t)
    PROVE  \A u \in todo[w] \ {t} : Created[t] < Created[u]
  <1>1. \A x \in Tasks : Created[x] \in Nat
    BY QueueAssumption
  <1>2. \A u \in todo[w] \ {t} : Created[t] # Created[u]
    BY QueueAssumption
  <1>3. \A u \in todo[w] : Created[t] <= Created[u]
    BY DEF IsNext
  <1> QED BY <1>1, <1>2, <1>3

LEMMA StepBatch == BaseInv /\ AloneInv /\ BatchInv /\ [Next]_vars => BatchInv'
  <1> SUFFICES ASSUME BaseInv, AloneInv, BatchInv, [Next]_vars, ~overlapped' PROVE BatchInv'
    BY DEF BatchInv
  <1>0. /\ db \in Table /\ draft \in Table /\ None \notin Tasks /\ None \notin Ticks
        /\ pc \in [Ticks -> {"off", "loop", "command"}] /\ todo \in [Ticks -> SUBSET Tasks]
        /\ seen \in [Ticks -> [Tasks -> Nat]] /\ task \in [Ticks -> Tasks \cup {None}]
        /\ \A w \in Ticks : task[w] # None <=> pc[w] = "command"
        /\ Created \in [Tasks -> Nat] /\ \A x, y \in Tasks : Created[x] = Created[y] => x = y
    BY QueueAssumption DEF BaseInv, TypeOK, Table
  <1>1. ~overlapped
    BY DEF Next, Begin, Step, RejectEmpty, SkipWaiting, RunCommand, CommandEnds, CommandRaises,
           Commit, Locked, Loses, Submit, vars
  <1>2. \A w \in Ticks : On(w) => /\ AloneOK(w) /\ \A v \in Ticks : On(v) => v = w
                                  /\ \E B \in SUBSET Tasks : Serves(w, B)
    BY <1>1 DEF AloneInv, BatchInv
  \* The tick of a step is the only one.
  <1>3. ASSUME NEW w \in Ticks, \A v \in Ticks \ {w} : ~On(v), \A v \in Ticks \ {w} : pc'[v] = pc[v],
               On(w)' => \E B \in SUBSET Tasks : Serves(w, B)'
        PROVE  BatchInv'
    <2>1. \A v \in Ticks : On(v)' => v = w
      BY <1>3 DEF On
    <2> QED BY <1>3, <2>1 DEF BatchInv
  <1>4. ASSUME NEW w \in Ticks, pc' = [pc EXCEPT ![w] = "off"], On(w) PROVE BatchInv'
    BY <1>0, <1>2, <1>3, <1>4 DEF On
  <1>5. ASSUME NEW w \in Ticks, Begin(w) PROVE BatchInv'
    <2>1. \A v \in Ticks : ~On(v)
      BY <1>5 DEF Begin, On
    <2>2. writer = None /\ draft = db
      BY <2>1, <1>0 DEF BaseInv, TypeOK
    <2>3. /\ UNCHANGED <<db, writer, draft, task>> /\ task[w] = None
          /\ todo' = [todo EXCEPT ![w] = Batch] /\ pc' = [pc EXCEPT ![w] = "loop"]
      BY <1>0, <1>5 DEF Begin
    <2>4. Batch \in SUBSET Tasks /\ InHand(w)' = Batch /\ View(w)' = db'
      BY <1>0, <2>2, <2>3 DEF Batch, Waiting, InHand, View
    <2>5. Ran(w)' = {}
      BY <2>4 DEF Ran
    <2>6. Queue!IsBatch(Batch)'
      <3> HIDE DEF Batch
      <3>1. ASSUME NEW B, Queue!IsBatch(B) PROVE Queue!IsBatch(B)'
        BY <2>3, <3>1 DEF Queue!IsBatch, Queue!Waiting
      <3>2. Batch' = Batch
        BY <2>3 DEF Batch, Waiting
      <3> QED BY BatchIsBatch, <3>1, <3>2
    <2>7. Serves(w, Batch)'
      <3>1. Batch' = Batch
        BY <2>3 DEF Batch, Waiting
      <3> HIDE DEF Batch
      <3> QED BY <2>3, <2>4, <2>5, <2>6, <3>1 DEF Serves
    <2>8. \E B \in SUBSET Tasks : Serves(w, B)'
      <3>1. Batch' = Batch
        BY <2>3 DEF Batch, Waiting
      <3> HIDE DEF Batch, Serves
      <3> QED BY <2>4, <2>7, <3>1
    <2> QED BY <1>0, <1>3, <2>1, <2>3, <2>8
  <1>6. ASSUME NEW w \in Ticks, NEW t \in Tasks, RejectEmpty(w, t) PROVE BatchInv'
    <2>1. On(w) /\ t \in InHand(w) /\ task[w] = None /\ t \in todo[w] /\ InHand(w) = todo[w]
      BY <1>0, <1>6 DEF RejectEmpty, IsNext, InHand, On
    <2>2. AloneOK(w)
      BY <1>2, <2>1
    <2>3. PICK B \in SUBSET Tasks : Serves(w, B)
      BY <1>2, <2>1
    <2>4. /\ Update(w, t, "failed") /\ InHand(w)' = InHand(w) \ {t} /\ task'[w] = None
          /\ UNCHANGED <<db, pc>>
      BY <1>0, <1>6, <2>1 DEF RejectEmpty, InHand
    <2>5. \A u \in InHand(w) \ {t} : Created[t] < Created[u]
      BY <1>0, <1>6, <2>1, NextIsOldest DEF RejectEmpty
    <2>6. /\ View(w)'[t] = [status |-> "failed", attempts |-> db[t].attempts + 1]
          /\ \A u \in Tasks \ {t} : View(w)'[u] = View(w)[u]
      BY <1>0, <2>1, <2>2, <2>4 DEF Update, View, AloneOK, Table
    <2>7. Serves(w, B)'
      <3>1. "failed" \in Queue!Outcome(t) /\ t \in Empty
        BY <1>6 DEF RejectEmpty, Queue!Outcome
      <3> QED BY <2>1, <2>2, <2>3, <2>4, <2>5, <2>6, <3>1, DecideServes
    <2> QED BY <1>2, <1>3, <2>1, <2>4, <2>7
  <1>7. ASSUME NEW w \in Ticks, NEW t \in Tasks, SkipWaiting(w, t) PROVE BatchInv'
    <2>1. On(w) /\ t \in InHand(w) /\ task[w] = None /\ t \in todo[w] /\ InHand(w) = todo[w]
      BY <1>0, <1>7 DEF SkipWaiting, IsNext, InHand, On
    <2>2. AloneOK(w)
      BY <1>2, <2>1
    <2>3. PICK B \in SUBSET Tasks : Serves(w, B)
      BY <1>2, <2>1
    <2>4. /\ InHand(w)' = InHand(w) \ {t} /\ task'[w] = None
          /\ UNCHANGED <<db, pc>> /\ View(w)' = View(w)
      BY <1>0, <1>7, <2>1 DEF SkipWaiting, InHand, View
    <2>5. \A u \in InHand(w) \ {t} : Created[t] < Created[u]
      BY <1>0, <1>7, <2>1, NextIsOldest DEF SkipWaiting
    <2>6. t \notin Empty /\ ~DepsSatisfied(w, t)
      BY <1>7 DEF SkipWaiting
    <2>7. Serves(w, B)'
      BY <2>1, <2>2, <2>3, <2>4, <2>5, <2>6, DecideServes
    <2> QED BY <1>2, <1>3, <2>1, <2>4, <2>7
  <1>8. ASSUME NEW w \in Ticks, NEW t \in Tasks, RunCommand(w, t) PROVE BatchInv'
    <2>1. On(w) /\ task[w] = None /\ t \in todo[w] /\ t \notin Empty
      BY <1>0, <1>8 DEF RunCommand, IsNext, On
    <2>2. PICK B \in SUBSET Tasks : Serves(w, B)
      BY <1>2, <2>1
    <2>3. /\ InHand(w)' = InHand(w) /\ db' = db /\ View(w)' = View(w) /\ task'[w] = t
          /\ pc' = [pc EXCEPT ![w] = "command"] /\ todo'[w] = todo[w] \ {t}
      BY <1>0, <1>8, <2>1 DEF RunCommand, InHand, View
    <2>4. \A u \in todo'[w] : Created[t] < Created[u]
      BY <1>0, <1>8, <2>3, NextIsOldest DEF RunCommand
    <2>5. Serves(w, B)'
      BY <2>1, <2>2, <2>3, <2>4, KeepServes
    <2> QED BY <1>0, <1>2, <1>3, <2>1, <2>3, <2>5
  <1>9. ASSUME NEW w \in Ticks, CommandEnds(w) PROVE BatchInv'
    <2> DEFINE t == task[w]
    <2>1. On(w) /\ t \in Tasks /\ t # None /\ InHand(w) = todo[w] \cup {t} /\ t \in InHand(w)
      BY <1>0, <1>9 DEF CommandEnds, InHand, On
    <2>2. AloneOK(w) /\ t \notin todo[w] /\ DepsSatisfied(w, t)
      BY <1>2, <2>1 DEF AloneOK
    <2>3. PICK B \in SUBSET Tasks : Serves(w, B)
      BY <1>2, <2>1
    <2>4. PICK status \in {"completed", Verdict(w, t)} : Update(w, t, status)
      BY <1>9 DEF CommandEnds
    <2>5. /\ InHand(w)' = InHand(w) \ {t} /\ task'[w] = None /\ db' = db
          /\ pc' = [pc EXCEPT ![w] = "loop"]
      BY <1>0, <1>9, <2>1, <2>2 DEF CommandEnds, InHand
    <2>6. t \notin Empty /\ \A u \in InHand(w) \ {t} : Created[t] < Created[u]
      BY <2>1, <2>3 DEF Serves
    <2>7. seen[w][t] = db[t].attempts
      BY <2>1, <2>2 DEF AloneOK
    <2>8. /\ View(w)'[t] = [status |-> status, attempts |-> db[t].attempts + 1]
          /\ \A u \in Tasks \ {t} : View(w)'[u] = View(w)[u]
      BY <1>0, <2>1, <2>4, <2>7 DEF Update, View, Table
    <2>9. status \in Queue!Outcome(t)
      BY <2>4, <2>6, <2>7 DEF Verdict, Queue!Outcome
    <2>10. Serves(w, B)'
      <3> HIDE DEF t
      <3> QED BY <2>1, <2>2, <2>3, <2>5, <2>6, <2>8, <2>9, DecideServes
    <2> QED BY <1>0, <1>2, <1>3, <2>1, <2>5, <2>10
  <1>10. ASSUME NEW w \in Ticks, Commit(w) PROVE BatchInv'
    BY <1>4, <1>10 DEF Commit, Off, On
  <1>11. ASSUME NEW w \in Ticks, Locked(w) PROVE BatchInv'
    BY <1>4, <1>11 DEF Locked, Off, On
  <1>12. ASSUME NEW w \in Ticks, CommandRaises(w) \/ Loses(w) PROVE BatchInv'
    BY <1>4, <1>12 DEF CommandRaises, Loses, Off, On
  <1>13. ASSUME NEW t \in Tasks, Submit(t) PROVE BatchInv'
    <2>1. /\ db' = [db EXCEPT ![t].status = "pending"] /\ db[t].status = "absent"
          /\ writer = None /\ writer' = None /\ draft' = db'
          /\ UNCHANGED <<pc, todo, seen, task>>
      BY <1>13 DEF Submit, tick
    <2>2. /\ db'[t].status = "pending" /\ db'[t].attempts = db[t].attempts
          /\ \A u \in Tasks \ {t} : db'[u] = db[u]
      BY <1>0, <2>1 DEF Table, Row
    <2>3. ASSUME NEW w \in Ticks, NEW B \in SUBSET Tasks, Serves(w, B) PROVE Serves(w, B)'
      <3>1. View(w)' = db' /\ View(w) = db /\ InHand(w)' = InHand(w)
        BY <1>0, <2>1 DEF View, InHand
      <3>2. Ran(w)' = {} /\ Ran(w) = {}
        BY <3>1 DEF Ran
      <3>3. Queue!IsBatch(B)' /\ t \notin B
        BY <1>13, <2>3, SubmitKeepsBatch DEF Serves, BaseInv
      <3>4. \A u \in B : Queue!Ready(u, Ran(w), Made(w))' <=> Queue!Ready(u, Ran(w), Made(w))
        <4>1. \A d \in Tasks : db'[d].status = "completed" <=> db[d].status = "completed"
          BY <2>1, <2>2
        <4> QED BY <3>2, <4>1, QueueAssumption DEF Queue!Ready
      <3> QED BY <2>1, <2>3, <3>1, <3>2, <3>3, <3>4 DEF Serves
    <2>4. \A w \in Ticks : On(w)' = On(w)
      BY <2>1 DEF On
    <2> QED BY <1>2, <2>3, <2>4 DEF BatchInv
  <1>14. CASE UNCHANGED vars
    <2>1. \A w \in Ticks : /\ On(w)' = On(w) /\ InHand(w)' = InHand(w) /\ View(w)' = View(w)
                           /\ db' = db /\ task' = task /\ todo' = todo
      BY <1>14 DEF vars, On, InHand, View
    <2>2. ASSUME NEW w \in Ticks, NEW B \in SUBSET Tasks, Serves(w, B) PROVE Serves(w, B)'
      <3>1. task[w] # None => task[w] \notin Empty /\ \A u \in todo[w] : Created[task[w]] < Created[u]
        BY <2>2 DEF Serves
      <3> QED BY <2>1, <2>2, <3>1, KeepServes
    <2> QED BY <1>2, <2>1, <2>2 DEF BatchInv
  <1> QED BY <1>5, <1>6, <1>7, <1>8, <1>9, <1>10, <1>11, <1>12, <1>13, <1>14 DEF Next, Step

LEMMA InitBatch == Init => BatchInv /\ Queue!Init
  BY DEF Init, BatchInv, On, Queue!Init

THEOREM BatchInvCorrect == Spec => [](QueueInv /\ BatchInv)
  <1>1. QueueInv /\ BatchInv /\ [Next]_vars => QueueInv' /\ BatchInv'
    BY StepBase, StepAlone, StepBatch DEF QueueInv
  <1> QED BY <1>1, InitInv, InitBatch, PTL DEF Spec

\* The commit of a tick serves the whole batch; every other step leaves the table
\* alone or submits a task.
LEMMA StepServes ==
    ASSUME QueueInv, BatchInv, [Next]_vars, ~overlapped
    PROVE  [Queue!Next]_db
  <1>0. /\ db \in Table /\ draft \in Table /\ None \notin Tasks /\ None \notin Ticks
        /\ \A w \in Ticks : task[w] # None <=> pc[w] = "command"
    BY QueueAssumption DEF QueueInv, BaseInv, TypeOK, Table
  <1>1. ASSUME NEW w \in Ticks, Commit(w) PROVE Queue!Next
    <2>1. On(w) /\ task[w] = None /\ todo[w] = {} /\ db' = View(w) /\ View(w) \in Table
      BY <1>0, <1>1 DEF Commit, On, View
    <2>2. PICK B \in SUBSET Tasks : Serves(w, B)
      BY <2>1 DEF BatchInv
    <2>3. InHand(w) = {}
      BY <2>1 DEF InHand
    <2> DEFINE S == Ran(w)
               out == Made(w)
    <2>4. Queue!IsBatch(B) /\ S = {t \in B : t \in Empty \/ Queue!Ready(t, S, out)}
      BY <2>2, <2>3 DEF Serves
    <2>5. \A t \in S : out[t] \in Queue!Outcome(t)
      BY <2>2 DEF Serves
    <2>6. out \in [S -> {"completed", "failed", "retry"}]
      BY <2>5 DEF Made, Queue!Outcome
    <2>7. db' = [t \in Tasks |-> IF t \in S THEN [status |-> out[t], attempts |-> db[t].attempts + 1]
                                 ELSE db[t]]
      <3>1. \A t \in S : View(w)[t] = [status |-> out[t], attempts |-> db[t].attempts + 1]
        <4> SUFFICES ASSUME NEW t \in S
                     PROVE  View(w)[t] = [status |-> out[t], attempts |-> db[t].attempts + 1]
          OBVIOUS
        <4>1. View(w)[t] \in Row /\ out[t] = View(w)[t].status
              /\ View(w)[t].attempts = db[t].attempts + 1
          BY <2>1, <2>2 DEF Serves, Table, Ran, Made
        <4> QED BY <4>1 DEF Row
      <3>2. \A t \in Tasks \ S : View(w)[t] = db[t]
        BY DEF Ran
      <3>3. S \subseteq Tasks
        BY DEF Ran
      <3> HIDE DEF S, out
      <3> QED BY <2>1, <3>1, <3>2, <3>3 DEF Table
    <2>8. S \in SUBSET B
      BY <2>2 DEF Serves
    <2> HIDE DEF S, out
    <2>9. Queue!Serve
      BY <2>4, <2>5, <2>6, <2>7, <2>8 DEF Queue!Serve
    <2> QED BY <2>9 DEF Queue!Next
  <1>2. ASSUME NEW t \in Tasks, Submit(t) PROVE Queue!Next
    BY <1>2 DEF Submit, Queue!Submit, Queue!Next
  <1>3. CASE UNCHANGED vars
    BY <1>3 DEF vars
  <1> QED BY <1>1, <1>2, <1>3 DEF Next, Begin, Step, RejectEmpty, SkipWaiting, RunCommand, CommandEnds,
                                  CommandRaises, Locked, Loses, Rollback

\* While no two ticks overlapped, the daemon's table is that of a queue served in
\* whole batches, in order, over completed dependencies: whatever tick dies and
\* whatever is submitted meanwhile.
THEOREM BatchesServed == Spec => ServesInBatches
  <1>1. QueueInv /\ BatchInv /\ [Next]_vars => [~overlapped => Queue!Next]_db
    BY StepServes
  <1>2. Init => Queue!Init
    BY InitBatch
  <1> QED BY <1>1, <1>2, BatchInvCorrect, PTL DEF Spec, ServesInBatches

\* Where ticks cannot overlap, because there is one process that runs them, the
\* daemon implements that queue.
THEOREM QueueRefined ==
    ASSUME \A v, w \in Ticks : v = w
    PROVE  Spec => ImplementsTaskQueue
  <1>1. Init => ~overlapped
    BY DEF Init
  <1>2. ~overlapped /\ [Next]_vars => ~overlapped'
    BY DEF Next, Begin, Step, RejectEmpty, SkipWaiting, RunCommand, CommandEnds, CommandRaises,
           Commit, Locked, Loses, Submit, vars
  <1>3. QueueInv /\ BatchInv /\ ~overlapped /\ [Next]_vars => [Queue!Next]_db
    BY StepServes
  <1>4. Init => Queue!Init
    BY InitBatch
  <1> QED BY <1>1, <1>2, <1>3, <1>4, BatchInvCorrect, PTL DEF Spec, ImplementsTaskQueue, Queue!Spec
-----------------------------------------------------------------------------
(* Every tick shrinks and goes on *)

\* What is left of a tick: rows to look at, and the command that runs.
Left(w) == <<Cardinality(todo[w]), IF pc[w] = "command" THEN 1 ELSE 0>>

\* A tick's own steps leave less of it or end it, and nobody else's steps leave
\* more of it.
TicksShrink ==
    [][ \A w \in Ticks : On(w) =>
            \/ pc'[w] = "off"
            \/ Below(2, Left(w)', Left(w))
            \/ ~Step(w) /\ Left(w)' = Left(w) ]_vars

\* A tick that is not through with its batch has a next row, and whoever keeps
\* the others from writing is a tick that is still open.
HasNext ==
    /\ \A w \in Ticks : pc[w] = "loop" /\ todo[w] # {} => \E t \in Tasks : IsNext(w, t)
    /\ writer # None => On(writer)

LEMMA LeftType ==
    ASSUME IsFiniteSet(Tasks), TypeOK, NEW w \in Ticks
    PROVE  IsFiniteSet(todo[w]) /\ Left(w) \in Tuples(2)
  <1>1. IsFiniteSet(todo[w])
    BY FS_Subset DEF TypeOK
  <1>2. Cardinality(todo[w]) \in Nat
    BY <1>1, FS_CardinalityType
  <1> QED BY <1>1, <1>2 DEF Left, Tuples

LEMMA TickFalls ==
    ASSUME IsFiniteSet(Tasks), TypeOK, NEW w \in Ticks, Step(w)
    PROVE  pc'[w] = "off" \/ Below(2, Left(w)', Left(w))
  <1>1. ASSUME NEW t \in Tasks, RejectEmpty(w, t) \/ SkipWaiting(w, t) \/ RunCommand(w, t)
        PROVE  Below(2, Left(w)', Left(w))
    <2>1. t \in todo[w] /\ todo'[w] = todo[w] \ {t}
      BY <1>1 DEF RejectEmpty, SkipWaiting, RunCommand, IsNext, TypeOK
    <2>2. Cardinality(todo'[w]) < Cardinality(todo[w])
      BY <2>1, LeftType, FewerElements
    <2> QED BY <2>2 DEF Below, Left
  <1>2. CASE CommandEnds(w)
    <2>1. pc[w] = "command" /\ pc'[w] = "loop" /\ todo' = todo
      BY <1>2 DEF CommandEnds, TypeOK
    <2> QED BY <2>1 DEF Below, Left
  <1>3. CASE CommandRaises(w) \/ Commit(w) \/ Locked(w)
    BY <1>3 DEF CommandRaises, Commit, Locked, Off, TypeOK
  <1> QED BY <1>1, <1>2, <1>3 DEF Step

LEMMA OthersKeep ==
    ASSUME TypeOK, NEW w \in Ticks, On(w), Next, ~Step(w)
    PROVE  pc'[w] = "off" \/ Left(w)' = Left(w)
  <1>1. ASSUME UNCHANGED <<todo[w], pc[w]>> PROVE Left(w)' = Left(w)
    BY <1>1 DEF Left
  <1>2. ASSUME NEW v \in Ticks, v # w, Begin(v) \/ Step(v) \/ Loses(v)
        PROVE  UNCHANGED <<todo[w], pc[w]>>
    BY <1>2 DEF Begin, Step, Loses, RejectEmpty, SkipWaiting, RunCommand, CommandEnds, CommandRaises,
                Commit, Locked, Off, TypeOK
  <1>3. CASE Begin(w) \/ Loses(w)
    BY <1>3 DEF Begin, Loses, Off, On, TypeOK
  <1>4. ASSUME NEW t \in Tasks, Submit(t) PROVE UNCHANGED <<todo[w], pc[w]>>
    BY <1>4 DEF Submit, tick
  <1> QED BY <1>1, <1>2, <1>3, <1>4 DEF Next

\* However ticks overlap and whatever commands do: each step of a tick leaves
\* less of it, in a well-founded order, and nobody sets it back.
THEOREM TicksEnd ==
    ASSUME IsFiniteSet(Tasks)
    PROVE  Spec => [](\A w \in Ticks : Left(w) \in Tuples(2)) /\ TicksShrink
  <1>1. QueueInv => TypeOK
    BY DEF QueueInv, BaseInv
  <1>2. TypeOK => \A w \in Ticks : Left(w) \in Tuples(2)
    BY LeftType
  <1>3. TypeOK /\ [Next]_vars =>
            [ \A w \in Ticks : On(w) =>
                  \/ pc'[w] = "off"
                  \/ Below(2, Left(w)', Left(w))
                  \/ ~Step(w) /\ Left(w)' = Left(w) ]_vars
    <2> SUFFICES ASSUME TypeOK, Next, NEW w \in Ticks, On(w)
                 PROVE  \/ pc'[w] = "off"
                        \/ Below(2, Left(w)', Left(w))
                        \/ ~Step(w) /\ Left(w)' = Left(w)
      OBVIOUS
    <2> QED BY TickFalls, OthersKeep
  <1> QED BY <1>1, <1>2, <1>3, InvCorrect, PTL DEF Spec, TicksShrink

\* No tick is stuck with rows left, and no transaction outlives its tick: what a
\* tick waits for is a tick that shrinks.
THEOREM TicksGoOn == Spec => []HasNext
  <1>1. TypeOK => \A w \in Ticks : todo[w] # {} => \E t \in Tasks : IsNext(w, t)
    <2> SUFFICES ASSUME TypeOK, NEW w \in Ticks, todo[w] # {}
                 PROVE  \E t \in Tasks : IsNext(w, t)
      OBVIOUS
    <2> DEFINE T == {Created[t] : t \in todo[w]}
    <2>1. T \in SUBSET Nat /\ T # {} /\ todo[w] \subseteq Tasks
      BY QueueAssumption DEF TypeOK
    <2>2. PICK x \in T : \A y \in T : x <= y
      <3> HIDE DEF T
      <3> QED BY <2>1, LeastExists
    <2> QED BY <2>1, <2>2 DEF IsNext
  <1>2. QueueInv => HasNext
    BY <1>1 DEF QueueInv, BaseInv, HasNext
  <1> QED BY <1>2, InvCorrect, PTL
=============================================================================
