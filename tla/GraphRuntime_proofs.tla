------------------------ MODULE GraphRuntime_proofs ------------------------
(***************************************************************************)
(* Proofs about GraphRuntime, for every graph, number of workers, limit    *)
(* and retry policy.                                                       *)
(***************************************************************************)
EXTENDS GraphRuntime, Descent, FiniteSetTheorems, TLAPS

\* What the locals of one call satisfy beyond their types.
CallOK(c) ==
    /\ c.pc = "idle" <=> c.thread = None
    /\ c.pc \in {"node", "returned"} => c.cur \in Node
    /\ c.pc = "returned" => c.nxt \in Route[c.cur]
    /\ c.skip => c.resumed /\ c.execs = 0

\* The types of everything but the streams.
CallTypes ==
    /\ store \in [Thread -> Checkpoint \cup {None}]
    /\ inv \in [Worker -> Call]
    /\ asked \in [Thread -> SUBSET Node]
    /\ ran \in [Thread -> [Node -> Nat]]
    /\ aborted \in [Thread -> Nat]
    /\ calls \in Nat /\ crashes \in Nat

TypeInv == CallTypes /\ \A w \in Worker : CallOK(inv[w])

-----------------------------------------------------------------------------
(* Lemmas about the data *)

\* Merging two lists of nodes gives a list of nodes.
LEMMA MergeType ==
    ASSUME NEW s \in Seq(Node), NEW u \in Seq(Node)
    PROVE  Merge(s, u) \in Seq(Node)
  BY DEF Merge, IsPrefix

\* A node's update is a list of nodes in either style.
LEMMA UpdateType ==
    ASSUME NEW n \in Node, NEW s \in Seq(Node), NEW style
    PROVE  Update(n, s, style) \in Seq(Node)
  BY DEF Update

\* A worker without a call is of the type of calls.
LEMMA QuietType == Quiet \in Call /\ CallOK(Quiet)
  BY GraphAssumption, NoneAssumption DEF Quiet, Call, CallOK, Place

LEMMA SnapshotType ==
    ASSUME NEW c \in Call, NEW p \in Place
    PROVE  Snapshot(c, p) \in Checkpoint /\ Snapshot(c, p) # None
  BY NoneAssumption DEF Snapshot, Checkpoint, Call

-----------------------------------------------------------------------------
(* Type correctness *)

LEMMA InitType == Init => TypeInv
  BY QuietType DEF Init, TypeInv, CallTypes

\* The calls of the other workers are untouched, so a step that gives one
\* worker a well-formed call keeps every call well formed.
LEMMA CallUpdate ==
    ASSUME NEW w \in Worker, NEW c \in Call, CallOK(c),
           inv \in [Worker -> Call], \A v \in Worker : CallOK(inv[v]),
           inv' = [inv EXCEPT ![w] = c]
    PROVE  inv' \in [Worker -> Call] /\ \A v \in Worker : CallOK(inv'[v])
  OBVIOUS

\* A call that ends by an exception leaves well-formed variables.
LEMMA AbortType ==
    ASSUME NEW w \in Worker, TypeInv, inv[w].pc # "idle", Abort(w)
    PROVE  /\ inv' \in [Worker -> Call]
           /\ \A v \in Worker : CallOK(inv'[v])
           /\ aborted' \in [Thread -> Nat]
  <1>1. inv' \in [Worker -> Call] /\ \A v \in Worker : CallOK(inv'[v])
    BY QuietType, CallUpdate DEF TypeInv, CallTypes, Abort, Stop
  <1>2. aborted' \in [Thread -> Nat]
    <2>1. inv[w].thread \in Thread
      BY DEF TypeInv, CallTypes, Call, CallOK
    <2> QED BY <2>1 DEF TypeInv, CallTypes, Abort
  <1> QED BY <1>1, <1>2

\* Counting one more completion of a node keeps the counters natural.
LEMMA RanType ==
    ASSUME ran \in [Thread -> [Node -> Nat]], NEW t \in Thread, NEW n \in Node,
           ran' = [ran EXCEPT ![t][n] = @ + 1]
    PROVE  ran' \in [Thread -> [Node -> Nat]]
  OBVIOUS

LEMMA StepType == TypeInv /\ [Next]_vars => TypeInv'
  <1> SUFFICES ASSUME TypeInv, [Next]_vars PROVE TypeInv'
    OBVIOUS
  <1> USE DEF TypeInv, CallTypes
  <1>1. ASSUME NEW w \in Worker, NEW t \in Thread, Invoke(w, t) PROVE TypeInv'
    <2>1. [Quiet EXCEPT !.pc = "top", !.thread = t, !.cur = First, !.trace = <<>>,
             !.log = <<>>, !.skip = FALSE, !.resumed = FALSE] \in Call
      <3>1. First \in Place /\ <<>> \in Seq(Node)
        BY GraphAssumption
      <3> QED BY <3>1, QuietType DEF Call
    <2>2. CallOK([Quiet EXCEPT !.pc = "top", !.thread = t, !.cur = First, !.trace = <<>>,
             !.log = <<>>, !.skip = FALSE, !.resumed = FALSE])
      BY NoneAssumption DEF Quiet, CallOK
    <2> QED BY <1>1, <2>1, <2>2, CallUpdate DEF Invoke, Begin
  <1>2. ASSUME NEW w \in Worker, NEW t \in Thread, Resume(w, t) PROVE TypeInv'
    <2> DEFINE d == [Quiet EXCEPT !.pc = "top", !.thread = t, !.cur = store[t].next,
                       !.trace = store[t].trace, !.log = store[t].log,
                       !.skip = TRUE, !.resumed = TRUE]
    <2>0. store[t] \in Checkpoint
      BY <1>2 DEF Resume
    <2>1. d \in Call
      <3>1. store[t].next \in Place /\ store[t].trace \in Seq(Node)
            /\ store[t].log \in Seq(Node)
        BY <2>0 DEF Checkpoint
      <3> QED BY <3>1, QuietType DEF Call
    <2>2. CallOK(d)
      BY NoneAssumption DEF Quiet, CallOK
    <2> QED BY <1>2, <2>1, <2>2, CallUpdate DEF Resume, Begin
  <1>3. ASSUME NEW w \in Worker, Finish(w) PROVE TypeInv'
    BY <1>3, QuietType, CallUpdate DEF Finish, Stop, history
  <1>4. ASSUME NEW w \in Worker, Refuse(w) PROVE TypeInv'
    BY <1>4, AbortType DEF Refuse
  <1>5. ASSUME NEW w \in Worker, Interrupt(w) PROVE TypeInv'
    <2>1. inv[w] \in Call /\ inv[w].cur \in Place /\ inv[w].cur \in Node
      BY <1>5 DEF Interrupt, Runnable, Call
    <2>2. Snapshot(inv[w], inv[w].cur) \in Checkpoint
      BY <2>1, SnapshotType
    <2>3. store' \in [Thread -> Checkpoint \cup {None}]
      BY <1>5, <2>2 DEF Interrupt
    <2>4. asked' \in [Thread -> SUBSET Node]
      BY <1>5, <2>1 DEF Interrupt
    <2> QED BY <1>5, <2>3, <2>4, QuietType, CallUpdate DEF Interrupt, Stop
  <1>6. ASSUME NEW w \in Worker, StartNode(w) PROVE TypeInv'
    <2> DEFINE d == [inv[w] EXCEPT !.pc = "node", !.skip = FALSE,
                                   !.execs = inv[w].execs + 1, !.attempt = 1]
    <2>1. inv[w] \in Call /\ CallOK(inv[w]) /\ inv[w].pc = "top" /\ inv[w].cur \in Node
      BY <1>6 DEF StartNode, Runnable
    <2>2. d \in Call
      <3>1. inv[w].execs + 1 \in Nat
        BY <2>1 DEF Call
      <3> QED BY <2>1, <3>1 DEF Call
    <2>3. CallOK(d)
      BY <2>1 DEF Call, CallOK
    <2> QED BY <1>6, <2>2, <2>3, CallUpdate DEF StartNode, history
  <1>7. ASSUME NEW w \in Worker, NodeReturns(w) PROVE TypeInv'
    <2>1. inv[w] \in Call /\ CallOK(inv[w]) /\ inv[w].pc = "node" /\ inv[w].cur \in Node
      BY <1>7 DEF NodeReturns, CallOK
    <2>2. PICK n \in Route[inv[w].cur], style \in Style[inv[w].cur] :
            inv' = [inv EXCEPT ![w] =
                      [inv[w] EXCEPT !.pc = "returned", !.nxt = n,
                         !.log = Merge(inv[w].log, Update(inv[w].cur, inv[w].log, style))]]
      BY <1>7 DEF NodeReturns
    <2> DEFINE d == [inv[w] EXCEPT !.pc = "returned", !.nxt = n,
                       !.log = Merge(inv[w].log, Update(inv[w].cur, inv[w].log, style))]
    <2>3. inv[w].log \in Seq(Node) /\ n \in Place /\ inv[w].thread \in Thread
      BY <2>1, GraphAssumption DEF Call, CallOK
    <2>4. Merge(inv[w].log, Update(inv[w].cur, inv[w].log, style)) \in Seq(Node)
      BY <2>1, <2>3, MergeType, UpdateType
    <2>5. d \in Call
      BY <2>1, <2>3, <2>4 DEF Call
    <2>6. CallOK(d)
      BY <2>1 DEF Call, CallOK
    <2>7. ran' \in [Thread -> [Node -> Nat]]
      BY <1>7, <2>1, <2>3, RanType DEF NodeReturns
    <2> QED BY <1>7, <2>2, <2>5, <2>6, <2>7, CallUpdate DEF NodeReturns
  <1>8. ASSUME NEW w \in Worker, NodeRetries(w) PROVE TypeInv'
    <2> DEFINE d == [inv[w] EXCEPT !.attempt = inv[w].attempt + 1]
    <2>1. inv' = [inv EXCEPT ![w] = d] /\ inv[w] \in Call /\ CallOK(inv[w])
      BY <1>8 DEF NodeRetries
    <2>2. d \in Call
      <3>1. inv[w].attempt + 1 \in Nat
        BY <2>1 DEF Call
      <3> QED BY <2>1, <3>1 DEF Call
    <2>3. CallOK(d)
      BY <2>1 DEF Call, CallOK
    <2> QED BY <1>8, <2>1, <2>2, <2>3, CallUpdate DEF NodeRetries, history
  <1>9. ASSUME NEW w \in Worker, NodeRaises(w) PROVE TypeInv'
    BY <1>9, AbortType DEF NodeRaises
  <1>10. ASSUME NEW w \in Worker, UnknownRoute(w) PROVE TypeInv'
    <2>1. inv[w].cur \in Node /\ inv[w].thread \in Thread
      BY <1>10 DEF UnknownRoute, CallOK, Call
    <2> QED BY <1>10, <2>1, AbortType, RanType DEF UnknownRoute
  <1>11. ASSUME NEW w \in Worker, Record(w) PROVE TypeInv'
    <2> DEFINE c == inv[w]
               d == [c EXCEPT !.pc = "top", !.cur = c.nxt,
                              !.trace = Append(c.trace, c.cur), !.attempt = 0]
    <2>1. c \in Call /\ CallOK(c) /\ c.pc = "returned" /\ c.cur \in Node
      BY <1>11 DEF Record, CallOK
    <2>2. d \in Call
      <3>1. Append(c.trace, c.cur) \in Seq(Node)
        BY <2>1 DEF Call
      <3> QED BY <2>1, <3>1 DEF Call
    <2>3. CallOK(d)
      BY <2>1 DEF Call, CallOK
    <2>4. c.nxt \in Place /\ Snapshot(d, c.nxt) \in Checkpoint
      BY <2>1, <2>2, SnapshotType DEF Call
    <2>5. inv' = [inv EXCEPT ![w] = d]
      BY <1>11 DEF Record
    <2>6. store' \in [Thread -> Checkpoint \cup {None}]
      BY <1>11, <2>4 DEF Record
    <2>7. asked' \in [Thread -> SUBSET Node]
      BY <1>11 DEF Record
    <2>8. inv' \in [Worker -> Call] /\ \A v \in Worker : CallOK(inv'[v])
      BY <2>2, <2>3, <2>5, CallUpdate
    <2> QED BY <1>11, <2>6, <2>7, <2>8 DEF Record
  <1>12. ASSUME NEW w \in Worker, StoreFails(w) PROVE TypeInv'
    BY <1>12, AbortType DEF StoreFails
  <1>13. ASSUME NEW w \in Worker, Crash(w) PROVE TypeInv'
    BY <1>13, AbortType DEF Crash
  <1>14. ASSUME NEW t \in Thread, Delete(t) PROVE TypeInv'
    BY <1>14 DEF Delete
  <1>15. ASSUME NEW w \in Worker, OpenStream(w) \/ StreamNode(w) \/ CloseStream(w)
         PROVE  TypeInv'
    <2>1. calls' \in Nat
      <3>1. calls' = calls + 1 \/ calls' = calls
        BY <1>15 DEF OpenStream, StreamNode, CloseStream, history
      <3> QED BY <3>1
    <2>2. UNCHANGED <<store, inv, asked, ran, aborted, crashes>>
      BY <1>15 DEF OpenStream, StreamNode, CloseStream, history
    <2> QED BY <2>1, <2>2
  <1>16. CASE UNCHANGED vars
    BY <1>16 DEF vars
  <1> QED
    BY <1>1, <1>2, <1>3, <1>4, <1>5, <1>6, <1>7, <1>8, <1>9, <1>10, <1>11,
       <1>12, <1>13, <1>14, <1>15, <1>16 DEF Next, Step

-----------------------------------------------------------------------------
(* Checkpoints hold walks of the graph *)

\* The walk that stops before First is a walk.
LEMMA EmptyWalk == IsWalk(<<>>, First)
  BY DEF IsWalk

\* Running the pending node and following one of its routes extends a walk.
LEMMA LongerWalk ==
    ASSUME NEW s \in Seq(Node), NEW n \in Node, IsWalk(s, n), NEW m \in Route[n]
    PROVE  IsWalk(Append(s, n), m)
  <1> DEFINE u == Append(s, n)
  <1>1. u \in Seq(Node) /\ Len(u) = Len(s) + 1 /\ u[Len(u)] = n
    OBVIOUS
  <1>2. \A i \in 1 .. Len(s) : u[i] = s[i]
    OBVIOUS
  <1>3. CASE s = <<>>
    BY <1>1, <1>3 DEF IsWalk
  <1>4. CASE s # <<>>
    <2>1. Len(s) >= 1 /\ u[1] = First
      BY <1>2, <1>4 DEF IsWalk
    <2>2. ASSUME NEW i \in 1 .. Len(u) - 1 PROVE u[i + 1] \in Route[u[i]]
      <3>1. CASE i = Len(s)
        BY <1>1, <1>2, <1>4, <2>1, <3>1 DEF IsWalk
      <3>2. CASE i # Len(s)
        <4>1. i \in 1 .. Len(s) - 1 /\ i + 1 \in 1 .. Len(s)
          BY <1>1, <2>2, <3>2
        <4> QED BY <1>2, <1>4, <4>1 DEF IsWalk
      <3> QED BY <3>1, <3>2
    <2> QED BY <1>1, <2>1, <2>2 DEF IsWalk
  <1> QED BY <1>3, <1>4

\* Replacing one call by one that is over, or walks as well, keeps the calls walking.
LEMMA WalkUpdate ==
    ASSUME NEW w \in Worker, NEW c, inv \in [Worker -> Call],
           inv' = [inv EXCEPT ![w] = c],
           \A v \in Worker : inv[v].pc # "idle" => IsWalk(inv[v].trace, inv[v].cur),
           c.pc # "idle" => IsWalk(c.trace, c.cur)
    PROVE  \A v \in Worker : inv'[v].pc # "idle" => IsWalk(inv'[v].trace, inv'[v].cur)
  OBVIOUS

\* PathIsWalk for rows and calls.
WalkInv ==
    /\ \A t \in Thread : store[t] # None => IsWalk(store[t].trace, store[t].next)
    /\ \A w \in Worker : inv[w].pc # "idle" => IsWalk(inv[w].trace, inv[w].cur)

LEMMA QuietIdle == Quiet.pc = "idle"
  BY DEF Quiet

LEMMA AbortWalk ==
    ASSUME NEW w \in Worker, TypeInv, WalkInv, Abort(w), UNCHANGED store
    PROVE  WalkInv'
  BY QuietIdle, WalkUpdate DEF TypeInv, CallTypes, WalkInv, Abort, Stop

LEMMA StepWalk == TypeInv /\ WalkInv /\ [Next]_vars => WalkInv'
  <1> SUFFICES ASSUME TypeInv, WalkInv, [Next]_vars PROVE WalkInv'
    OBVIOUS
  <1> USE DEF TypeInv, CallTypes
  <1>1. ASSUME NEW w \in Worker, NEW t \in Thread, Invoke(w, t) PROVE WalkInv'
    <2> DEFINE d == [Quiet EXCEPT !.pc = "top", !.thread = t, !.cur = First,
                       !.trace = <<>>, !.log = <<>>, !.skip = FALSE, !.resumed = FALSE]
    <2>1. d.trace = <<>> /\ d.cur = First
      BY DEF Quiet
    <2>2. inv' = [inv EXCEPT ![w] = d] /\ store' = store
      BY <1>1 DEF Invoke, Begin
    <2> HIDE DEF d
    <2> QED BY <2>1, <2>2, EmptyWalk, WalkUpdate DEF WalkInv
  <1>2. ASSUME NEW w \in Worker, NEW t \in Thread, Resume(w, t) PROVE WalkInv'
    <2> DEFINE d == [Quiet EXCEPT !.pc = "top", !.thread = t, !.cur = store[t].next,
                       !.trace = store[t].trace, !.log = store[t].log,
                       !.skip = TRUE, !.resumed = TRUE]
    <2>1. d.trace = store[t].trace /\ d.cur = store[t].next
      BY DEF Quiet
    <2>2. inv' = [inv EXCEPT ![w] = d] /\ store' = store /\ store[t] # None
      BY <1>2 DEF Resume, Begin
    <2> HIDE DEF d
    <2> QED BY <2>1, <2>2, WalkUpdate DEF WalkInv
  <1>3. ASSUME NEW w \in Worker, Finish(w) PROVE WalkInv'
    BY <1>3, QuietIdle, WalkUpdate DEF Finish, Stop, WalkInv
  <1>4. ASSUME NEW w \in Worker, Refuse(w) PROVE WalkInv'
    BY <1>4, AbortWalk DEF Refuse
  <1>5. ASSUME NEW w \in Worker, Interrupt(w) PROVE WalkInv'
    <2>1. IsWalk(inv[w].trace, inv[w].cur) /\ inv' = [inv EXCEPT ![w] = Quiet]
      BY <1>5 DEF Interrupt, Stop, WalkInv
    <2>2. store' = [store EXCEPT ![inv[w].thread] =
                       [trace |-> inv[w].trace, log |-> inv[w].log, next |-> inv[w].cur]]
      BY <1>5 DEF Interrupt, Snapshot
    <2>3. \A t \in Thread :
            store'[t] # None => IsWalk(store'[t].trace, store'[t].next)
      BY <2>1, <2>2 DEF WalkInv
    <2> QED BY <2>1, <2>3, QuietIdle, WalkUpdate DEF WalkInv
  <1>6. ASSUME NEW w \in Worker, StartNode(w) PROVE WalkInv'
    <2> DEFINE d == [inv[w] EXCEPT !.pc = "node", !.skip = FALSE,
                                   !.execs = inv[w].execs + 1, !.attempt = 1]
    <2>1. inv' = [inv EXCEPT ![w] = d] /\ store' = store /\ inv[w].pc = "top"
      BY <1>6 DEF StartNode
    <2>2. d.trace = inv[w].trace /\ d.cur = inv[w].cur
      BY DEF Call
    <2> HIDE DEF d
    <2> QED BY <2>1, <2>2, WalkUpdate DEF WalkInv
  <1>7. ASSUME NEW w \in Worker, NodeReturns(w) PROVE WalkInv'
    <2>1. PICK n \in Route[inv[w].cur], l \in {Merge(inv[w].log, Update(inv[w].cur, inv[w].log, style)) :
                                                  style \in Style[inv[w].cur]} :
            inv' = [inv EXCEPT ![w] =
                      [inv[w] EXCEPT !.pc = "returned", !.nxt = n, !.log = l]]
      BY <1>7 DEF NodeReturns
    <2> DEFINE d == [inv[w] EXCEPT !.pc = "returned", !.nxt = n, !.log = l]
    <2>2. d.trace = inv[w].trace /\ d.cur = inv[w].cur
      BY DEF Call
    <2>3. inv' = [inv EXCEPT ![w] = d] /\ store' = store /\ inv[w].pc = "node"
      BY <1>7, <2>1 DEF NodeReturns
    <2> HIDE DEF d
    <2> QED BY <2>2, <2>3, WalkUpdate DEF WalkInv
  <1>8. ASSUME NEW w \in Worker, NodeRetries(w) PROVE WalkInv'
    <2> DEFINE d == [inv[w] EXCEPT !.attempt = inv[w].attempt + 1]
    <2>1. inv' = [inv EXCEPT ![w] = d] /\ store' = store /\ inv[w].pc = "node"
      BY <1>8 DEF NodeRetries
    <2>2. d.trace = inv[w].trace /\ d.cur = inv[w].cur
      BY DEF Call
    <2> HIDE DEF d
    <2> QED BY <2>1, <2>2, WalkUpdate DEF WalkInv
  <1>9. ASSUME NEW w \in Worker, NodeRaises(w) PROVE WalkInv'
    BY <1>9, AbortWalk DEF NodeRaises
  <1>10. ASSUME NEW w \in Worker, UnknownRoute(w) PROVE WalkInv'
    BY <1>10, AbortWalk DEF UnknownRoute
  <1>11. ASSUME NEW w \in Worker, Record(w) PROVE WalkInv'
    <2> DEFINE c == inv[w]
               d == [c EXCEPT !.pc = "top", !.cur = c.nxt,
                              !.trace = Append(c.trace, c.cur), !.attempt = 0]
    <2>1. inv' = [inv EXCEPT ![w] = d]
          /\ store' = [store EXCEPT ![c.thread] = Snapshot(d, c.nxt)]
          /\ c.pc = "returned"
      BY <1>11 DEF Record
    <2>2. d.trace = Append(c.trace, c.cur) /\ d.cur = c.nxt
          /\ Snapshot(d, c.nxt).trace = Append(c.trace, c.cur)
          /\ Snapshot(d, c.nxt).next = c.nxt
      BY DEF Call, Snapshot
    <2>3. c.trace \in Seq(Node) /\ c.cur \in Node /\ c.nxt \in Route[c.cur]
      BY <2>1 DEF Call, CallOK
    <2>4. IsWalk(Append(c.trace, c.cur), c.nxt)
      BY <2>1, <2>3, LongerWalk DEF WalkInv
    <2> HIDE DEF d
    <2>5. \A t \in Thread :
            store'[t] # None => IsWalk(store'[t].trace, store'[t].next)
      BY <2>1, <2>2, <2>4 DEF WalkInv
    <2>6. \A v \in Worker : inv'[v].pc # "idle" => IsWalk(inv'[v].trace, inv'[v].cur)
      BY <2>1, <2>2, <2>4, WalkUpdate DEF WalkInv
    <2> QED BY <2>5, <2>6 DEF WalkInv
  <1>12. ASSUME NEW w \in Worker, StoreFails(w) PROVE WalkInv'
    BY <1>12, AbortWalk DEF StoreFails
  <1>13. ASSUME NEW w \in Worker, Crash(w) PROVE WalkInv'
    BY <1>13, AbortWalk DEF Crash
  <1>14. ASSUME NEW t \in Thread, Delete(t) PROVE WalkInv'
    BY <1>14 DEF Delete, WalkInv
  <1>15. ASSUME NEW w \in Worker, OpenStream(w) \/ StreamNode(w) \/ CloseStream(w)
         PROVE  WalkInv'
    BY <1>15 DEF OpenStream, StreamNode, CloseStream, WalkInv
  <1>16. CASE UNCHANGED vars
    BY <1>16 DEF vars, WalkInv
  <1> QED
    BY <1>1, <1>2, <1>3, <1>4, <1>5, <1>6, <1>7, <1>8, <1>9, <1>10, <1>11,
       <1>12, <1>13, <1>14, <1>15, <1>16 DEF Next, Step

LEMMA InitWalk == Init => WalkInv
  BY QuietIdle DEF Init, WalkInv

-----------------------------------------------------------------------------
(* Streams *)

\* A suspended generator: a walk of the graph, as long as the nodes it ran.
StreamOK(s) ==
    /\ s \in Stream
    /\ Len(s.trace) = s.execs /\ s.execs <= RecursionLimit
    /\ s.on => IsWalk(s.trace, s.cur)

StreamInv == streams \in [Worker -> Stream] /\ \A w \in Worker : StreamOK(streams[w])

LEMMA ClosedOK == StreamOK(Closed)
  BY GraphAssumption DEF StreamOK, Closed, Stream, Place

LEMMA StreamUpdate ==
    ASSUME NEW w \in Worker, NEW s, StreamOK(s), StreamInv,
           streams' = [streams EXCEPT ![w] = s]
    PROVE  StreamInv'
  BY DEF StreamInv, StreamOK

\* Calls leave the streams alone; a stream extends its walk by its pending node.
LEMMA StepStream == StreamInv /\ [Next]_vars => StreamInv'
  <1> SUFFICES ASSUME StreamInv, [Next]_vars PROVE StreamInv'
    OBVIOUS
  <1>1. ASSUME NEW w \in Worker, Crash(w) \/ CloseStream(w) PROVE StreamInv'
    BY <1>1, ClosedOK, StreamUpdate DEF Crash, CloseStream
  <1>2. ASSUME NEW w \in Worker, OpenStream(w) PROVE StreamInv'
    <2> DEFINE d == [on |-> TRUE, cur |-> First, trace |-> <<>>, log |-> <<>>, execs |-> 0]
    <2>1. First \in Place /\ <<>> \in Seq(Node)
      BY GraphAssumption
    <2>2. streams' = [streams EXCEPT ![w] = d]
      BY <1>2 DEF OpenStream
    <2>3. StreamOK(d)
      BY <2>1, EmptyWalk, GraphAssumption DEF StreamOK, Stream
    <2> QED BY <2>2, <2>3, StreamUpdate
  <1>3. ASSUME NEW w \in Worker, StreamNode(w) PROVE StreamInv'
    <2> DEFINE s == streams[w]
    <2>1. s \in Stream /\ StreamOK(s) /\ s.on /\ s.cur \in Node /\ s.execs < RecursionLimit
      BY <1>3 DEF StreamInv, StreamNode
    <2>2. PICK n \in Route[s.cur], style \in Style[s.cur] :
            streams' = [streams EXCEPT ![w] =
                          [s EXCEPT !.cur = n, !.trace = Append(s.trace, s.cur),
                                    !.execs = s.execs + 1,
                                    !.log = Merge(s.log, Update(s.cur, s.log, style))]]
      BY <1>3 DEF StreamNode
    <2> DEFINE l == Merge(s.log, Update(s.cur, s.log, style))
               u == Append(s.trace, s.cur)
               d == [s EXCEPT !.cur = n, !.trace = u, !.execs = s.execs + 1, !.log = l]
    <2>3. l \in Seq(Node)
      BY <2>1, MergeType, UpdateType DEF Stream
    <2>4. n \in Place /\ u \in Seq(Node) /\ Len(u) = s.execs + 1
      BY <2>1, <2>2, GraphAssumption DEF Stream, StreamOK
    <2>5. IsWalk(u, n)
      BY <2>1, <2>2, LongerWalk DEF Stream, StreamOK
    <2> HIDE DEF l, u
    <2>6. d \in Stream /\ d.cur = n /\ d.trace = u /\ d.execs = s.execs + 1
      <3>1. s.execs + 1 \in Nat
        BY <2>1 DEF Stream
      <3> QED BY <2>1, <2>3, <2>4, <3>1 DEF Stream
    <2>7. streams' = [streams EXCEPT ![w] = d]
      BY <2>2 DEF l, u
    <2> HIDE DEF d
    <2>8. StreamOK(d)
      BY <2>1, <2>4, <2>5, <2>6, GraphAssumption DEF StreamOK, Stream
    <2> QED BY <2>7, <2>8, StreamUpdate
  <1>4. CASE UNCHANGED streams
    BY <1>4 DEF StreamInv
  <1> QED BY <1>1, <1>2, <1>3, <1>4 DEF Next, Delete, vars

LEMMA InitStream == Init => StreamInv
  BY ClosedOK DEF Init, StreamInv, StreamOK

\* Every reachable state has its types: rows, locals and counters of any graph.
THEOREM TypeCorrect == Spec => []TypeOK
  <1>1. Init => TypeInv /\ StreamInv BY InitType, InitStream
  <1>2. (TypeInv /\ StreamInv) /\ [Next]_vars => (TypeInv /\ StreamInv)'
    BY StepType, StepStream
  <1>3. TypeInv /\ StreamInv => TypeOK
    BY DEF TypeInv, CallTypes, StreamInv, TypeOK
  <1> QED BY <1>1, <1>2, <1>3, PTL DEF Spec

\* However calls, streams, failures and crashes interleave, and even when
\* callers share a thread, every checkpoint is one walk of the graph with its
\* pending node, and so is what a stream has yielded.
THEOREM WalkCorrect == Spec => []PathIsWalk
  <1>1. Init => TypeInv /\ WalkInv /\ StreamInv BY InitType, InitWalk, InitStream
  <1>2. (TypeInv /\ WalkInv /\ StreamInv) /\ [Next]_vars
           => (TypeInv /\ WalkInv /\ StreamInv)'
    BY StepType, StepWalk, StepStream
  <1>3. WalkInv /\ StreamInv => PathIsWalk
    BY DEF WalkInv, StreamInv, StreamOK, PathIsWalk
  <1> QED BY <1>1, <1>2, <1>3, PTL DEF Spec

-----------------------------------------------------------------------------
(* Interrupt boundaries *)

\* Only the first node of a resume may be a gated one: the ignore_interrupt_once
\* of StateGraph.resume is used up by the node it is spent on.
THEOREM GateCorrect == Spec => GateHonoured
  <1> DEFINE Passes(w) == inv[w].pc = "top" /\ inv'[w].pc = "node" /\ inv[w].cur \in Gate
             Allowed(w) == inv[w].resumed /\ inv[w].execs = 0
  <1>1. TypeInv /\ [Next]_vars => [\A w \in Worker : Passes(w) => Allowed(w)]_vars
    <2> SUFFICES ASSUME TypeInv, Next, NEW v \in Worker, Passes(v)
                 PROVE  Allowed(v)
      BY DEF vars
    <2> USE DEF TypeInv, CallTypes
    <2>1. ASSUME NEW w \in Worker, inv' = [inv EXCEPT ![w] = Quiet] PROVE FALSE
      BY <2>1, QuietIdle
    <2>2. ASSUME NEW w \in Worker, NEW t, NEW cur, NEW tr, NEW l, NEW r,
                 Begin(w, t, cur, tr, l, r)
          PROVE FALSE
      BY <2>2, QuietType DEF Begin, Call
    <2>3. ASSUME NEW w \in Worker, StartNode(w) PROVE Allowed(v)
      <3>1. CASE v = w
        BY <2>3, <3>1 DEF StartNode, Halted, CallOK
      <3>2. CASE v # w
        BY <2>3, <3>2 DEF StartNode
      <3> QED BY <3>1, <3>2
    <2>4. ASSUME NEW w \in Worker, NodeReturns(w) PROVE FALSE
      BY <2>4 DEF NodeReturns
    <2>5. ASSUME NEW w \in Worker, NodeRetries(w) PROVE FALSE
      BY <2>5 DEF NodeRetries, Call
    <2>6. ASSUME NEW w \in Worker, Record(w) PROVE FALSE
      BY <2>6 DEF Record, Call
    <2>7. CASE inv' = inv
      BY <2>7
    <2> QED
      BY <2>1, <2>2, <2>3, <2>4, <2>5, <2>6, <2>7
      DEF Next, Delete, OpenStream, StreamNode, CloseStream, Step, Invoke, Resume, Finish, Refuse, Interrupt, NodeRaises,
          UnknownRoute, StoreFails, Crash, Abort, Stop
  <1>2. Init => TypeInv BY InitType
  <1>3. TypeInv /\ [Next]_vars => TypeInv' BY StepType
  <1> QED BY <1>1, <1>2, <1>3, PTL DEF Spec, GateHonoured

-----------------------------------------------------------------------------
(* The list that nodes extend *)

\* Unless the list is exactly the increment, merge appends the node once.
LEMMA MergeAppends ==
    ASSUME NEW s \in Seq(Node), NEW n \in Node, NEW style,
           style # "full" => s # <<n>>
    PROVE  Merge(s, Update(n, s, style)) = Append(s, n)
  <1>1. CASE style = "full"
    <2>1. IsPrefix(s, Append(s, n))
      BY DEF IsPrefix
    <2> QED BY <1>1, <2>1 DEF Merge, Update
  <1>2. CASE style # "full"
    <2>1. CASE s = <<>>
      BY <1>2, <2>1 DEF Merge, Update, IsPrefix
    <2>2. CASE s # <<>>
      <3>1. ~IsPrefix(s, <<n>>)
        <4> SUFFICES ASSUME IsPrefix(s, <<n>>) PROVE FALSE
          OBVIOUS
        <4>1. Len(s) = 1
          BY <2>2 DEF IsPrefix
        <4>2. SubSeq(s, 1, 1)[1] = SubSeq(<<n>>, 1, 1)[1]
          BY <4>1 DEF IsPrefix
        <4>3. s[1] = n
          BY <4>1, <4>2
        <4> QED BY <1>2, <4>1, <4>3
      <3>2. Merge(s, Update(n, s, style)) = s \o <<n>>
        BY <1>2, <3>1 DEF Merge, Update
      <3> QED BY <3>2
    <2> QED BY <2>1, <2>2
  <1> QED BY <1>1, <1>2

\* On a walk of a safe graph the list is never the increment itself.
LEMMA NoFalsePrefix ==
    ASSUME MergeIsSafe, NEW s \in Seq(Node), NEW n \in Node, IsWalk(s, n),
           NEW style \in Style[n], style # "full"
    PROVE  s # <<n>>
  BY DEF MergeIsSafe, IsWalk

\* The list of a call, also between a node's return and its record.
LogOK(c) ==
    /\ c.pc \in {"top", "node"} => c.log = c.trace
    /\ c.pc = "returned" => c.log = Append(c.trace, c.cur)

LogInv ==
    /\ \A t \in Thread : store[t] # None => store[t].log = store[t].trace
    /\ \A w \in Worker : LogOK(inv[w])

LEMMA LogUpdate ==
    ASSUME NEW w \in Worker, NEW c, LogOK(c), inv \in [Worker -> Call],
           \A v \in Worker : LogOK(inv[v]), inv' = [inv EXCEPT ![w] = c]
    PROVE  \A v \in Worker : LogOK(inv'[v])
  OBVIOUS

LEMMA QuietLog == LogOK(Quiet)
  BY DEF LogOK, Quiet

LEMMA AbortLog ==
    ASSUME NEW w \in Worker, TypeInv, LogInv, Abort(w), UNCHANGED store
    PROVE  LogInv'
  BY QuietLog, LogUpdate DEF TypeInv, CallTypes, LogInv, Abort, Stop

LEMMA StepLog == MergeIsSafe /\ TypeInv /\ WalkInv /\ LogInv /\ [Next]_vars => LogInv'
  <1> SUFFICES ASSUME MergeIsSafe, TypeInv, WalkInv, LogInv, [Next]_vars
               PROVE  LogInv'
    OBVIOUS
  <1> USE DEF TypeInv, CallTypes
  <1>1. ASSUME NEW w \in Worker, NEW t \in Thread, Invoke(w, t) PROVE LogInv'
    <2> DEFINE d == [Quiet EXCEPT !.pc = "top", !.thread = t, !.cur = First,
                       !.trace = <<>>, !.log = <<>>, !.skip = FALSE, !.resumed = FALSE]
    <2>1. LogOK(d)
      BY DEF Quiet, LogOK
    <2>2. inv' = [inv EXCEPT ![w] = d] /\ store' = store
      BY <1>1 DEF Invoke, Begin
    <2> HIDE DEF d
    <2> QED BY <2>1, <2>2, LogUpdate DEF LogInv
  <1>2. ASSUME NEW w \in Worker, NEW t \in Thread, Resume(w, t) PROVE LogInv'
    <2> DEFINE d == [Quiet EXCEPT !.pc = "top", !.thread = t, !.cur = store[t].next,
                       !.trace = store[t].trace, !.log = store[t].log,
                       !.skip = TRUE, !.resumed = TRUE]
    <2>1. store[t].log = store[t].trace
      BY <1>2 DEF Resume, LogInv
    <2>2. LogOK(d)
      BY <2>1 DEF Quiet, LogOK
    <2>3. inv' = [inv EXCEPT ![w] = d] /\ store' = store
      BY <1>2 DEF Resume, Begin
    <2> HIDE DEF d
    <2> QED BY <2>2, <2>3, LogUpdate DEF LogInv
  <1>3. ASSUME NEW w \in Worker, Finish(w) PROVE LogInv'
    BY <1>3, QuietLog, LogUpdate DEF Finish, Stop, LogInv
  <1>4. ASSUME NEW w \in Worker, Refuse(w) PROVE LogInv'
    BY <1>4, AbortLog DEF Refuse
  <1>5. ASSUME NEW w \in Worker, Interrupt(w) PROVE LogInv'
    <2>1. inv[w].log = inv[w].trace /\ inv' = [inv EXCEPT ![w] = Quiet]
      BY <1>5 DEF Interrupt, Stop, LogInv, LogOK
    <2>2. store' = [store EXCEPT ![inv[w].thread] =
                       [trace |-> inv[w].trace, log |-> inv[w].log, next |-> inv[w].cur]]
      BY <1>5 DEF Interrupt, Snapshot
    <2>3. \A t \in Thread : store'[t] # None => store'[t].log = store'[t].trace
      BY <2>1, <2>2 DEF LogInv
    <2> QED BY <2>1, <2>3, QuietLog, LogUpdate DEF LogInv
  <1>6. ASSUME NEW w \in Worker, StartNode(w) PROVE LogInv'
    <2> DEFINE d == [inv[w] EXCEPT !.pc = "node", !.skip = FALSE,
                                   !.execs = inv[w].execs + 1, !.attempt = 1]
    <2>1. inv' = [inv EXCEPT ![w] = d] /\ store' = store /\ inv[w].pc = "top"
      BY <1>6 DEF StartNode
    <2>2. d.pc = "node" /\ d.trace = inv[w].trace /\ d.log = inv[w].log
      BY DEF Call
    <2>3. LogOK(d)
      BY <2>1, <2>2 DEF LogInv, LogOK
    <2> HIDE DEF d
    <2> QED BY <2>1, <2>3, LogUpdate DEF LogInv
  <1>7. ASSUME NEW w \in Worker, NodeReturns(w) PROVE LogInv'
    <2>1. PICK n \in Route[inv[w].cur], style \in Style[inv[w].cur] :
            inv' = [inv EXCEPT ![w] =
                      [inv[w] EXCEPT !.pc = "returned", !.nxt = n,
                         !.log = Merge(inv[w].log, Update(inv[w].cur, inv[w].log, style))]]
      BY <1>7 DEF NodeReturns
    <2> DEFINE l == Merge(inv[w].log, Update(inv[w].cur, inv[w].log, style))
               d == [inv[w] EXCEPT !.pc = "returned", !.nxt = n, !.log = l]
    <2>2. inv[w] \in Call /\ CallOK(inv[w]) /\ inv[w].pc = "node"
      BY <1>7 DEF NodeReturns
    <2>3. /\ inv[w].trace \in Seq(Node) /\ inv[w].cur \in Node
          /\ inv[w].log = inv[w].trace /\ IsWalk(inv[w].trace, inv[w].cur)
      BY <2>2 DEF Call, CallOK, LogInv, LogOK, WalkInv
    <2>4. l = Append(inv[w].trace, inv[w].cur)
      <3>1. style # "full" => inv[w].trace # <<inv[w].cur>>
        BY <2>3, NoFalsePrefix
      <3> QED BY <2>3, <3>1, MergeAppends
    <2> HIDE DEF l
    <2>5. d.pc = "returned" /\ d.trace = inv[w].trace /\ d.cur = inv[w].cur /\ d.log = l
      BY <2>2 DEF Call
    <2>6. LogOK(d)
      BY <2>4, <2>5 DEF LogOK
    <2>7. inv' = [inv EXCEPT ![w] = d] /\ store' = store
      BY <1>7, <2>1 DEF NodeReturns, l
    <2> HIDE DEF d
    <2> QED BY <2>6, <2>7, LogUpdate DEF LogInv
  <1>8. ASSUME NEW w \in Worker, NodeRetries(w) PROVE LogInv'
    <2> DEFINE d == [inv[w] EXCEPT !.attempt = inv[w].attempt + 1]
    <2>1. inv' = [inv EXCEPT ![w] = d] /\ store' = store
      BY <1>8 DEF NodeRetries
    <2>2. d.pc = inv[w].pc /\ d.trace = inv[w].trace /\ d.log = inv[w].log
          /\ d.cur = inv[w].cur
      BY DEF Call
    <2>3. LogOK(d)
      BY <2>2 DEF LogInv, LogOK
    <2> HIDE DEF d
    <2> QED BY <2>1, <2>3, LogUpdate DEF LogInv
  <1>9. ASSUME NEW w \in Worker, NodeRaises(w) PROVE LogInv'
    BY <1>9, AbortLog DEF NodeRaises
  <1>10. ASSUME NEW w \in Worker, UnknownRoute(w) PROVE LogInv'
    BY <1>10, AbortLog DEF UnknownRoute
  <1>11. ASSUME NEW w \in Worker, Record(w) PROVE LogInv'
    <2> DEFINE c == inv[w]
               d == [c EXCEPT !.pc = "top", !.cur = c.nxt,
                              !.trace = Append(c.trace, c.cur), !.attempt = 0]
    <2>1. inv' = [inv EXCEPT ![w] = d]
          /\ store' = [store EXCEPT ![c.thread] = Snapshot(d, c.nxt)]
          /\ c.pc = "returned"
      BY <1>11 DEF Record
    <2>2. d.pc = "top" /\ d.trace = Append(c.trace, c.cur) /\ d.log = c.log
      BY DEF Call
    <2>3. c.log = Append(c.trace, c.cur)
      BY <2>1 DEF LogInv, LogOK
    <2> HIDE DEF d
    <2>4. LogOK(d)
      BY <2>2, <2>3 DEF LogOK
    <2>5. Snapshot(d, c.nxt).log = Snapshot(d, c.nxt).trace
      BY <2>2, <2>3 DEF Snapshot
    <2>6. \A t \in Thread : store'[t] # None => store'[t].log = store'[t].trace
      BY <2>1, <2>5 DEF LogInv
    <2>7. \A v \in Worker : LogOK(inv'[v])
      BY <2>1, <2>4, LogUpdate DEF LogInv
    <2> QED BY <2>6, <2>7 DEF LogInv
  <1>12. ASSUME NEW w \in Worker, StoreFails(w) PROVE LogInv'
    BY <1>12, AbortLog DEF StoreFails
  <1>13. ASSUME NEW w \in Worker, Crash(w) PROVE LogInv'
    BY <1>13, AbortLog DEF Crash
  <1>14. ASSUME NEW t \in Thread, Delete(t) PROVE LogInv'
    BY <1>14 DEF Delete, LogInv
  <1>15. ASSUME NEW w \in Worker, OpenStream(w) \/ StreamNode(w) \/ CloseStream(w)
         PROVE  LogInv'
    BY <1>15 DEF OpenStream, StreamNode, CloseStream, LogInv
  <1>16. CASE UNCHANGED vars
    BY <1>16 DEF vars, LogInv
  <1> QED
    BY <1>1, <1>2, <1>3, <1>4, <1>5, <1>6, <1>7, <1>8, <1>9, <1>10, <1>11,
       <1>12, <1>13, <1>14, <1>15, <1>16 DEF Next, Step

\* The list a stream shows is the nodes it ran.
StreamLog == \A w \in Worker : streams[w].log = streams[w].trace

LEMMA StreamLogUpdate ==
    ASSUME NEW w \in Worker, NEW s, s.log = s.trace, StreamInv, StreamLog,
           streams' = [streams EXCEPT ![w] = s]
    PROVE  StreamLog'
  BY DEF StreamInv, StreamLog

LEMMA StepStreamLog == MergeIsSafe /\ StreamInv /\ StreamLog /\ [Next]_vars => StreamLog'
  <1> SUFFICES ASSUME MergeIsSafe, StreamInv, StreamLog, [Next]_vars PROVE StreamLog'
    OBVIOUS
  <1>1. ASSUME NEW w \in Worker, Crash(w) \/ CloseStream(w) PROVE StreamLog'
    BY <1>1, StreamLogUpdate DEF Crash, CloseStream, Closed
  <1>2. ASSUME NEW w \in Worker, OpenStream(w) PROVE StreamLog'
    <2> DEFINE d == [on |-> TRUE, cur |-> First, trace |-> <<>>, log |-> <<>>, execs |-> 0]
    <2>1. streams' = [streams EXCEPT ![w] = d]
      BY <1>2 DEF OpenStream
    <2> QED BY <2>1, StreamLogUpdate
  <1>3. ASSUME NEW w \in Worker, StreamNode(w) PROVE StreamLog'
    <2> DEFINE s == streams[w]
    <2>1. /\ s \in Stream /\ s.on /\ s.cur \in Node /\ s.log = s.trace
          /\ s.trace \in Seq(Node) /\ IsWalk(s.trace, s.cur)
      BY <1>3 DEF StreamInv, StreamOK, StreamLog, StreamNode, Stream
    <2>2. PICK n \in Route[s.cur], style \in Style[s.cur] :
            streams' = [streams EXCEPT ![w] =
                          [s EXCEPT !.cur = n, !.trace = Append(s.trace, s.cur),
                                    !.execs = s.execs + 1,
                                    !.log = Merge(s.log, Update(s.cur, s.log, style))]]
      BY <1>3 DEF StreamNode
    <2> DEFINE l == Merge(s.log, Update(s.cur, s.log, style))
               u == Append(s.trace, s.cur)
               d == [s EXCEPT !.cur = n, !.trace = u, !.execs = s.execs + 1, !.log = l]
    <2>3. l = u
      <3>1. style # "full" => s.trace # <<s.cur>>
        BY <2>1, <2>2, NoFalsePrefix
      <3> QED BY <2>1, <3>1, MergeAppends
    <2>4. streams' = [streams EXCEPT ![w] = d]
      BY <2>2
    <2> HIDE DEF l, u
    <2>5. d.log = d.trace
      BY <2>1, <2>3 DEF Stream
    <2> HIDE DEF d
    <2> QED BY <2>4, <2>5, StreamLogUpdate
  <1>4. CASE UNCHANGED streams
    BY <1>4 DEF StreamLog
  <1> QED BY <1>1, <1>2, <1>3, <1>4 DEF Next, Delete, vars

\* On every graph whose first node does not return increments and loop to itself,
\* merge neither drops nor doubles an element, in whichever style nodes update.
THEOREM LogCorrect ==
    ASSUME MergeIsSafe PROVE Spec => []LogIsTrace
  <1> DEFINE I == TypeInv /\ WalkInv /\ LogInv /\ StreamInv /\ StreamLog
  <1>1. Init => I
    BY InitType, InitWalk, InitStream, QuietLog DEF Init, LogInv, StreamLog, Closed
  <1>2. I /\ [Next]_vars => I'
    BY StepType, StepWalk, StepLog, StepStream, StepStreamLog
  <1>3. I => LogIsTrace
    BY DEF LogInv, LogOK, StreamLog, LogIsTrace
  <1> QED BY <1>1, <1>2, <1>3, PTL DEF Spec

-----------------------------------------------------------------------------
(* One call per thread: the store is current *)

Owner ==
    \A v, w \in Worker :
        (v # w /\ inv[v].pc # "idle" /\ inv[w].pc # "idle")
            => inv[v].thread # inv[w].thread

ExclInv == Owner /\ CheckpointIsCurrent

\* A step of one worker that writes no row but its own thread's, and stays in
\* step with it, disturbs nobody else.
LEMMA ExclUpdate ==
    ASSUME TypeInv, ExclInv, NEW w \in Worker, NEW c, inv[w].pc # "idle",
           inv' = [inv EXCEPT ![w] = c],
           \A t \in Thread : t # inv[w].thread => store'[t] = store[t],
           c.pc # "idle" => /\ c.thread = inv[w].thread
                            /\ InStep(store'[c.thread], c)
    PROVE  ExclInv'
  <1> USE DEF TypeInv, CallTypes
  <1>1. Owner'
    BY DEF ExclInv, Owner
  <1>2. ASSUME NEW v \in Worker, inv'[v].pc # "idle"
        PROVE  InStep(store'[inv'[v].thread], inv'[v])
    <2>1. CASE v = w
      BY <1>2, <2>1
    <2>2. CASE v # w
      <3>1. inv'[v] = inv[v] /\ inv[v].thread # inv[w].thread
        BY <1>2, <2>2 DEF ExclInv, Owner
      <3>2. inv[v].thread \in Thread
        BY <1>2, <3>1 DEF Call, CallOK
      <3> QED BY <1>2, <3>1, <3>2 DEF ExclInv, CheckpointIsCurrent
    <2> QED BY <2>1, <2>2
  <1>3. CheckpointIsCurrent'
    BY <1>2 DEF CheckpointIsCurrent
  <1> QED BY <1>1, <1>3 DEF ExclInv

\* A call may begin only on a thread nobody works on.
LEMMA ExclBegin ==
    ASSUME TypeInv, ExclInv, NEW w \in Worker, NEW t \in Thread, NEW c,
           Unused(t), inv' = [inv EXCEPT ![w] = c], store' = store,
           c.thread = t, InStep(store[t], c)
    PROVE  ExclInv'
  <1> USE DEF TypeInv, CallTypes
  <1>1. Owner'
    BY DEF ExclInv, Owner, Unused
  <1>2. CheckpointIsCurrent'
    BY DEF ExclInv, CheckpointIsCurrent
  <1> QED BY <1>1, <1>2 DEF ExclInv

LEMMA AbortExcl ==
    ASSUME NEW w \in Worker, TypeInv, ExclInv, inv[w].pc # "idle",
           Abort(w), UNCHANGED store
    PROVE  ExclInv'
  BY QuietIdle, ExclUpdate DEF Abort, Stop

\* What Interrupt and Record write is what the worker holds.
LEMMA SnapshotInStep ==
    ASSUME NEW c \in Call
    PROVE  InStep(Snapshot(c, c.cur), c)
  <1>1. Snapshot(c, c.cur) # None
    BY SnapshotType DEF Call
  <1> QED BY <1>1 DEF InStep, Snapshot

\* What Record leaves the worker with is a call.
LEMMA RecordCall ==
    ASSUME TypeInv, NEW w \in Worker, Record(w)
    PROVE  [inv[w] EXCEPT !.pc = "top", !.cur = inv[w].nxt,
                          !.trace = Append(inv[w].trace, inv[w].cur), !.attempt = 0] \in Call
  <1>1. inv[w] \in Call /\ inv[w].cur \in Node
    BY DEF TypeInv, CallTypes, CallOK, Record
  <1>2. Append(inv[w].trace, inv[w].cur) \in Seq(Node)
    BY <1>1 DEF Call
  <1> QED BY <1>1, <1>2 DEF Call

LEMMA StepExcl == ~Shared /\ TypeInv /\ ExclInv /\ [Next]_vars => ExclInv'
  <1> SUFFICES ASSUME ~Shared, TypeInv, ExclInv, [Next]_vars PROVE ExclInv'
    OBVIOUS
  <1> USE DEF TypeInv, CallTypes
  <1>1. ASSUME NEW w \in Worker, NEW t \in Thread, Invoke(w, t) PROVE ExclInv'
    <2> DEFINE d == [Quiet EXCEPT !.pc = "top", !.thread = t, !.cur = First,
                       !.trace = <<>>, !.log = <<>>, !.skip = FALSE, !.resumed = FALSE]
    <2>1. d.thread = t /\ d.trace = <<>> /\ ~d.resumed
      BY DEF Quiet
    <2>2. inv' = [inv EXCEPT ![w] = d] /\ store' = store /\ Unused(t) /\ store[t] = None
      BY <1>1 DEF Invoke, Begin
    <2>3. InStep(store[t], d)
      BY <2>1, <2>2 DEF InStep
    <2> HIDE DEF d
    <2> QED BY <2>1, <2>2, <2>3, ExclBegin
  <1>2. ASSUME NEW w \in Worker, NEW t \in Thread, Resume(w, t) PROVE ExclInv'
    <2> DEFINE d == [Quiet EXCEPT !.pc = "top", !.thread = t, !.cur = store[t].next,
                       !.trace = store[t].trace, !.log = store[t].log,
                       !.skip = TRUE, !.resumed = TRUE]
    <2>1. d.thread = t /\ d.trace = store[t].trace /\ d.cur = store[t].next
          /\ d.log = store[t].log
      BY DEF Quiet
    <2>2. inv' = [inv EXCEPT ![w] = d] /\ store' = store /\ Unused(t) /\ store[t] # None
      BY <1>2 DEF Resume, Begin
    <2>3. InStep(store[t], d)
      BY <2>1, <2>2 DEF InStep
    <2> HIDE DEF d
    <2> QED BY <2>1, <2>2, <2>3, ExclBegin
  <1>3. ASSUME NEW w \in Worker, Finish(w) PROVE ExclInv'
    BY <1>3, QuietIdle, ExclUpdate DEF Finish, Stop
  <1>4. ASSUME NEW w \in Worker, Refuse(w) PROVE ExclInv'
    BY <1>4, AbortExcl DEF Refuse
  <1>5. ASSUME NEW w \in Worker, Interrupt(w) PROVE ExclInv'
    BY <1>5, QuietIdle, ExclUpdate DEF Interrupt, Stop
  <1>6. ASSUME NEW w \in Worker, StartNode(w) PROVE ExclInv'
    <2> DEFINE d == [inv[w] EXCEPT !.pc = "node", !.skip = FALSE,
                                   !.execs = inv[w].execs + 1, !.attempt = 1]
    <2>1. inv' = [inv EXCEPT ![w] = d] /\ store' = store /\ inv[w].pc = "top"
      BY <1>6 DEF StartNode
    <2>2. /\ d.pc = "node" /\ d.thread = inv[w].thread /\ d.trace = inv[w].trace
          /\ d.cur = inv[w].cur /\ d.log = inv[w].log /\ d.resumed = inv[w].resumed
      BY DEF Call
    <2> HIDE DEF d
    <2>3. InStep(store[inv[w].thread], d)
      BY <2>1, <2>2 DEF ExclInv, CheckpointIsCurrent, InStep
    <2> QED BY <2>1, <2>2, <2>3, ExclUpdate
  <1>7. ASSUME NEW w \in Worker, NodeReturns(w) PROVE ExclInv'
    <2>1. PICK n \in Route[inv[w].cur], l \in {Merge(inv[w].log, Update(inv[w].cur, inv[w].log, style)) :
                                                  style \in Style[inv[w].cur]} :
            inv' = [inv EXCEPT ![w] =
                      [inv[w] EXCEPT !.pc = "returned", !.nxt = n, !.log = l]]
      BY <1>7 DEF NodeReturns
    <2> DEFINE d == [inv[w] EXCEPT !.pc = "returned", !.nxt = n, !.log = l]
    <2>2. /\ d.pc = "returned" /\ d.thread = inv[w].thread /\ d.trace = inv[w].trace
          /\ d.cur = inv[w].cur /\ d.resumed = inv[w].resumed
      BY DEF Call
    <2>3. inv' = [inv EXCEPT ![w] = d] /\ store' = store /\ inv[w].pc = "node"
      BY <1>7, <2>1 DEF NodeReturns
    <2> HIDE DEF d
    <2>4. InStep(store[inv[w].thread], d)
      BY <2>2, <2>3 DEF ExclInv, CheckpointIsCurrent, InStep
    <2> QED BY <2>2, <2>3, <2>4, ExclUpdate
  <1>8. ASSUME NEW w \in Worker, NodeRetries(w) PROVE ExclInv'
    <2> DEFINE d == [inv[w] EXCEPT !.attempt = inv[w].attempt + 1]
    <2>1. inv' = [inv EXCEPT ![w] = d] /\ store' = store /\ inv[w].pc = "node"
      BY <1>8 DEF NodeRetries
    <2>2. /\ d.pc = inv[w].pc /\ d.thread = inv[w].thread /\ d.trace = inv[w].trace
          /\ d.cur = inv[w].cur /\ d.log = inv[w].log /\ d.resumed = inv[w].resumed
      BY DEF Call
    <2> HIDE DEF d
    <2>3. InStep(store[inv[w].thread], d)
      BY <2>1, <2>2 DEF ExclInv, CheckpointIsCurrent, InStep
    <2> QED BY <2>1, <2>2, <2>3, ExclUpdate
  <1>9. ASSUME NEW w \in Worker, NodeRaises(w) PROVE ExclInv'
    BY <1>9, AbortExcl DEF NodeRaises
  <1>10. ASSUME NEW w \in Worker, UnknownRoute(w) PROVE ExclInv'
    BY <1>10, AbortExcl DEF UnknownRoute
  <1>11. ASSUME NEW w \in Worker, Record(w) PROVE ExclInv'
    <2> DEFINE c == inv[w]
               d == [c EXCEPT !.pc = "top", !.cur = c.nxt,
                              !.trace = Append(c.trace, c.cur), !.attempt = 0]
    <2>1. inv' = [inv EXCEPT ![w] = d]
          /\ store' = [store EXCEPT ![c.thread] = Snapshot(d, c.nxt)]
          /\ c.pc = "returned"
      BY <1>11 DEF Record
    <2>2. d.thread = c.thread /\ d.cur = c.nxt /\ c.thread \in Thread
      BY <2>1 DEF Call, CallOK
    <2>3. d \in Call
      BY <1>11, RecordCall
    <2> HIDE DEF d
    <2>4. InStep(Snapshot(d, c.nxt), d)
      BY <2>2, <2>3, SnapshotInStep
    <2> QED BY <2>1, <2>2, <2>4, ExclUpdate
  <1>12. ASSUME NEW w \in Worker, StoreFails(w) PROVE ExclInv'
    BY <1>12, AbortExcl DEF StoreFails
  <1>13. ASSUME NEW w \in Worker, Crash(w) PROVE ExclInv'
    BY <1>13, AbortExcl DEF Crash
  <1>14. ASSUME NEW t \in Thread, Delete(t) PROVE ExclInv'
    <2>1. Owner'
      BY <1>14 DEF Delete, ExclInv, Owner
    <2>2. CheckpointIsCurrent'
      BY <1>14 DEF Delete, Unused, ExclInv, CheckpointIsCurrent
    <2> QED BY <2>1, <2>2 DEF ExclInv
  <1>15. ASSUME NEW w \in Worker, OpenStream(w) \/ StreamNode(w) \/ CloseStream(w)
         PROVE  ExclInv'
    BY <1>15 DEF OpenStream, StreamNode, CloseStream, ExclInv, Owner, CheckpointIsCurrent
  <1>16. CASE UNCHANGED vars
    BY <1>16 DEF vars, ExclInv, Owner, CheckpointIsCurrent
  <1> QED
    BY <1>1, <1>2, <1>3, <1>4, <1>5, <1>6, <1>7, <1>8, <1>9, <1>10, <1>11,
       <1>12, <1>13, <1>14, <1>15, <1>16 DEF Next, Step

LEMMA InitExcl == Init => ExclInv
  BY QuietIdle DEF Init, ExclInv, Owner, CheckpointIsCurrent

\* Where no two calls share a thread, its checkpoint is exactly what the live
\* call holds between two nodes: a crash loses the running node and no more.
THEOREM CurrentCorrect ==
    ASSUME ~Shared PROVE Spec => []CheckpointIsCurrent
  <1>1. Init => TypeInv /\ ExclInv
    BY InitType, InitExcl
  <1>2. (TypeInv /\ ExclInv) /\ [Next]_vars => (TypeInv /\ ExclInv)'
    BY StepType, StepExcl
  <1>3. ExclInv => CheckpointIsCurrent
    BY DEF ExclInv
  <1> QED BY <1>1, <1>2, <1>3, PTL DEF Spec

-----------------------------------------------------------------------------
(* One call per thread: what an unannounced gate takes *)

\* Gate n of thread t was announced, or a call of the thread was cut off.
Explained(t, n) == n \in asked[t] \/ aborted[t] > 0

\* Only a call that has just been resumed may pass a gate.
CallExplained(c) ==
    /\ c.pc \in {"node", "returned"} => ~c.skip
    /\ c.pc # "idle" /\ c.skip /\ c.cur \in Gate => Explained(c.thread, c.cur)

\* A gate that the store names on a thread nobody works on is explained.
RowExplained(t) ==
    store[t] # None /\ Unused(t) /\ store[t].next \in Gate => Explained(t, store[t].next)

GateInv ==
    /\ \A t \in Thread : RowExplained(t)
    /\ \A w \in Worker : CallExplained(inv[w])

\* A step of one worker that touches nothing but its own thread and leaves
\* that one explained.
LEMMA GateUpdate ==
    ASSUME TypeInv, ExclInv, GateInv, NEW w \in Worker, NEW c, inv[w].pc # "idle",
           NEW own \in Thread, inv[w].thread = own,
           inv' = [inv EXCEPT ![w] = c],
           \A t \in Thread : t # own =>
               store'[t] = store[t] /\ asked'[t] = asked[t] /\ aborted'[t] = aborted[t],
           c.pc = "idle" => c.thread = None /\ RowExplained(own)',
           c.pc # "idle" => c.thread = own /\ ~c.skip
    PROVE  GateInv'
  <1> USE DEF TypeInv, CallTypes
  <1>1. ASSUME NEW t \in Thread PROVE RowExplained(t)'
    <2>1. CASE t = own /\ c.pc = "idle"
      BY <2>1
    <2>2. CASE t = own /\ c.pc # "idle"
      BY <2>2 DEF RowExplained, Unused
    <2>3. CASE t # own
      <3>1. Unused(t)' => Unused(t)
        BY <2>3 DEF Unused
      <3> QED BY <2>3, <3>1 DEF RowExplained, Explained, GateInv
    <2> QED BY <2>1, <2>2, <2>3
  <1>2. ASSUME NEW v \in Worker PROVE CallExplained(inv[v])'
    <2>1. CASE v = w
      <3>1. inv'[v] = c
        BY <2>1
      <3> QED BY <3>1 DEF CallExplained
    <2>2. CASE v # w
      <3>1. inv'[v] = inv[v] /\ CallExplained(inv[v])
        BY <2>2 DEF GateInv
      <3>2. CASE inv[v].pc # "idle"
        <4>1. inv[v].thread \in Thread /\ inv[v].thread # own
          BY <2>2, <3>2 DEF ExclInv, Owner, Call, CallOK
        <4> QED BY <3>1, <4>1 DEF CallExplained, Explained
      <3> QED BY <3>1, <3>2 DEF CallExplained
    <2> QED BY <2>1, <2>2
  <1> QED BY <1>1, <1>2 DEF GateInv

\* A call may begin only on a thread nobody works on.
LEMMA GateBegin ==
    ASSUME TypeInv, GateInv, NEW w \in Worker, NEW t \in Thread, NEW c,
           inv[w].pc = "idle", Unused(t), inv' = [inv EXCEPT ![w] = c],
           UNCHANGED <<store, asked, aborted>>, c.thread = t, CallExplained(c)
    PROVE  GateInv'
  <1> USE DEF TypeInv, CallTypes
  <1>1. \A u \in Thread : Unused(u)' => Unused(u)
    BY NoneAssumption DEF Unused, CallOK
  <1>2. \A u \in Thread : RowExplained(u)'
    BY <1>1 DEF GateInv, RowExplained, Explained
  <1>3. \A v \in Worker : CallExplained(inv[v])'
    BY DEF GateInv, CallExplained, Explained
  <1> QED BY <1>2, <1>3 DEF GateInv

LEMMA QuietCall == Quiet.pc = "idle" /\ Quiet.thread = None
  BY DEF Quiet

\* A call that is cut off explains every gate of its thread.
LEMMA AbortGate ==
    ASSUME TypeInv, ExclInv, GateInv, NEW w \in Worker, inv[w].pc # "idle",
           Abort(w), UNCHANGED <<store, asked>>
    PROVE  GateInv'
  <1>1. PICK own \in Thread : inv[w].thread = own
    BY DEF TypeInv, CallTypes, Call, CallOK
  <1>2. aborted'[own] > 0 /\ \A t \in Thread : t # own => aborted'[t] = aborted[t]
    BY <1>1 DEF Abort, TypeInv, CallTypes
  <1>3. RowExplained(own)'
    BY <1>2 DEF RowExplained, Explained
  <1>4. inv' = [inv EXCEPT ![w] = Quiet]
    BY DEF Abort, Stop
  <1> QED BY <1>1, <1>2, <1>3, <1>4, QuietCall, GateUpdate

LEMMA StepGate == ~Shared /\ TypeInv /\ ExclInv /\ GateInv /\ [Next]_vars => GateInv'
  <1> SUFFICES ASSUME ~Shared, TypeInv, ExclInv, GateInv, [Next]_vars PROVE GateInv'
    OBVIOUS
  <1> USE DEF TypeInv, CallTypes
  <1>1. ASSUME NEW w \in Worker, NEW t \in Thread, Invoke(w, t) PROVE GateInv'
    <2> DEFINE d == [Quiet EXCEPT !.pc = "top", !.thread = t, !.cur = First,
                       !.trace = <<>>, !.log = <<>>, !.skip = FALSE, !.resumed = FALSE]
    <2>1. d.thread = t /\ CallExplained(d)
      BY DEF Quiet, CallExplained
    <2>2. /\ inv' = [inv EXCEPT ![w] = d] /\ UNCHANGED <<store, asked, aborted>>
          /\ Unused(t) /\ inv[w].pc = "idle"
      BY <1>1 DEF Invoke, Begin
    <2> HIDE DEF d
    <2> QED BY <2>1, <2>2, GateBegin
  <1>2. ASSUME NEW w \in Worker, NEW t \in Thread, Resume(w, t) PROVE GateInv'
    <2> DEFINE d == [Quiet EXCEPT !.pc = "top", !.thread = t, !.cur = store[t].next,
                       !.trace = store[t].trace, !.log = store[t].log,
                       !.skip = TRUE, !.resumed = TRUE]
    <2>1. d.pc = "top" /\ d.thread = t /\ d.cur = store[t].next
      BY DEF Quiet
    <2>2. /\ inv' = [inv EXCEPT ![w] = d] /\ UNCHANGED <<store, asked, aborted>>
          /\ Unused(t) /\ store[t] # None /\ inv[w].pc = "idle"
      BY <1>2 DEF Resume, Begin
    <2> HIDE DEF d
    <2>3. CallExplained(d)
      BY <2>1, <2>2 DEF CallExplained, GateInv, RowExplained
    <2> QED BY <2>1, <2>2, <2>3, GateBegin
  <1>3. ASSUME NEW w \in Worker, Finish(w) PROVE GateInv'
    <2>1. inv' = [inv EXCEPT ![w] = Quiet] /\ UNCHANGED <<store, asked, aborted>>
          /\ inv[w].pc = "top" /\ inv[w].cur = End
      BY <1>3 DEF Finish, Stop, history
    <2>2. PICK own \in Thread : inv[w].thread = own
      BY <2>1 DEF Call, CallOK
    <2>3. RowExplained(own)'
      <3>1. InStep(store[own], inv[w]) /\ End \notin Gate
        BY <2>1, <2>2, GraphAssumption DEF ExclInv, CheckpointIsCurrent
      <3>2. store'[own] # None => store'[own].next \notin Gate
        BY <2>1, <3>1 DEF InStep
      <3> QED BY <3>2 DEF RowExplained
    <2> QED BY <2>1, <2>2, <2>3, QuietCall, GateUpdate
  <1>4. ASSUME NEW w \in Worker, Refuse(w) PROVE GateInv'
    BY <1>4, AbortGate DEF Refuse
  <1>5. ASSUME NEW w \in Worker, Interrupt(w) PROVE GateInv'
    <2> DEFINE c == inv[w]
               row == Snapshot(c, c.cur)
    <2>1. /\ inv' = [inv EXCEPT ![w] = Quiet] /\ aborted' = aborted /\ c.pc = "top"
          /\ store' = [store EXCEPT ![c.thread] = row]
          /\ asked' = [asked EXCEPT ![c.thread] = @ \cup {c.cur}]
      BY <1>5 DEF Interrupt, Stop
    <2>2. PICK own \in Thread, n \in Place : c.thread = own /\ c.cur = n
      BY <2>1 DEF Call, CallOK
    <2>3. row.next = n
      BY <2>2 DEF Snapshot
    <2> HIDE DEF row
    <2>4. store'[own].next = n /\ n \in asked'[own]
      BY <2>1, <2>2, <2>3
    <2>5. RowExplained(own)'
      BY <2>4 DEF RowExplained, Explained
    <2>6. \A t \in Thread : t # own =>
              store'[t] = store[t] /\ asked'[t] = asked[t] /\ aborted'[t] = aborted[t]
      BY <2>1, <2>2
    <2> QED BY <2>1, <2>2, <2>5, <2>6, QuietCall, GateUpdate
  <1>6. ASSUME NEW w \in Worker, StartNode(w) PROVE GateInv'
    <2> DEFINE d == [inv[w] EXCEPT !.pc = "node", !.skip = FALSE,
                                   !.execs = inv[w].execs + 1, !.attempt = 1]
    <2>1. /\ inv' = [inv EXCEPT ![w] = d] /\ UNCHANGED <<store, asked, aborted>>
          /\ inv[w].pc = "top"
      BY <1>6 DEF StartNode, history
    <2>2. d.pc = "node" /\ ~d.skip /\ d.thread = inv[w].thread
      BY DEF Call
    <2>3. inv[w].thread \in Thread
      BY <2>1 DEF Call, CallOK
    <2> HIDE DEF d
    <2> QED BY <2>1, <2>2, <2>3, GateUpdate
  \* While a node runs, the call has no gate to pass.
  <1>7. ASSUME NEW w \in Worker, NEW d, inv' = [inv EXCEPT ![w] = d], inv[w].pc \in {"node", "returned"},
               d.pc # "idle", d.skip = inv[w].skip, d.thread = inv[w].thread,
               \A t \in Thread : t # inv[w].thread =>
                   store'[t] = store[t] /\ asked'[t] = asked[t] /\ aborted'[t] = aborted[t]
        PROVE  GateInv'
    <2>1. ~d.skip /\ inv[w].thread \in Thread
      BY <1>7 DEF GateInv, CallExplained, Call, CallOK
    <2> QED BY <1>7, <2>1, GateUpdate
  <1>8. ASSUME NEW w \in Worker, NodeReturns(w) PROVE GateInv'
    <2>1. PICK n \in Route[inv[w].cur], l \in {Merge(inv[w].log, Update(inv[w].cur, inv[w].log, style)) :
                                                  style \in Style[inv[w].cur]} :
            inv' = [inv EXCEPT ![w] =
                      [inv[w] EXCEPT !.pc = "returned", !.nxt = n, !.log = l]]
      BY <1>8 DEF NodeReturns
    <2> DEFINE d == [inv[w] EXCEPT !.pc = "returned", !.nxt = n, !.log = l]
    <2>2. d.pc = "returned" /\ d.thread = inv[w].thread /\ d.skip = inv[w].skip
      BY DEF Call
    <2>3. /\ inv' = [inv EXCEPT ![w] = d] /\ UNCHANGED <<store, asked, aborted>>
          /\ inv[w].pc = "node"
      BY <1>8, <2>1 DEF NodeReturns
    <2> HIDE DEF d
    <2> QED BY <1>7, <2>2, <2>3
  <1>9. ASSUME NEW w \in Worker, NodeRetries(w) PROVE GateInv'
    <2> DEFINE d == [inv[w] EXCEPT !.attempt = inv[w].attempt + 1]
    <2>1. /\ inv' = [inv EXCEPT ![w] = d] /\ UNCHANGED <<store, asked, aborted>>
          /\ inv[w].pc = "node"
      BY <1>9 DEF NodeRetries, history
    <2>2. d.pc = inv[w].pc /\ d.thread = inv[w].thread /\ d.skip = inv[w].skip
      BY DEF Call
    <2> HIDE DEF d
    <2> QED BY <1>7, <2>1, <2>2
  <1>10. ASSUME NEW w \in Worker, Record(w) PROVE GateInv'
    <2> DEFINE c == inv[w]
               d == [c EXCEPT !.pc = "top", !.cur = c.nxt,
                              !.trace = Append(c.trace, c.cur), !.attempt = 0]
               row == Snapshot(d, c.nxt)
    <2>1. /\ inv' = [inv EXCEPT ![w] = d] /\ aborted' = aborted /\ c.pc = "returned"
          /\ store' = [store EXCEPT ![c.thread] = row]
          /\ asked' = [asked EXCEPT ![c.thread] = @ \ {c.cur}]
      BY <1>10 DEF Record
    <2>2. d.pc = "top" /\ d.thread = c.thread /\ d.skip = c.skip
      BY DEF Call
    <2> HIDE DEF d, row
    <2>3. \A t \in Thread : t # c.thread =>
              store'[t] = store[t] /\ asked'[t] = asked[t] /\ aborted'[t] = aborted[t]
      BY <2>1
    <2> QED BY <1>7, <2>1, <2>2, <2>3
  <1>11. ASSUME NEW w \in Worker, NodeRaises(w) \/ UnknownRoute(w) \/ StoreFails(w) \/ Crash(w)
         PROVE  GateInv'
    BY <1>11, AbortGate DEF NodeRaises, UnknownRoute, StoreFails, Crash
  <1>12. ASSUME NEW t \in Thread, Delete(t) PROVE GateInv'
    <2>1. /\ store' = [store EXCEPT ![t] = None] /\ inv' = inv /\ Unused(t)
          /\ \A u \in Thread \ {t} : asked'[u] = asked[u] /\ aborted'[u] = aborted[u]
      BY <1>12 DEF Delete
    <2>2. \A u \in Thread : RowExplained(u)'
      BY <2>1 DEF GateInv, RowExplained, Unused, Explained
    <2>3. \A w \in Worker : CallExplained(inv[w])'
      <3> SUFFICES ASSUME NEW w \in Worker PROVE CallExplained(inv[w])'
        OBVIOUS
      <3>1. inv[w].pc # "idle" => inv[w].thread \in Thread \ {t}
        BY <2>1 DEF Unused, Call, CallOK
      <3> QED BY <2>1, <3>1 DEF GateInv, CallExplained, Explained
    <2> QED BY <2>2, <2>3 DEF GateInv
  <1>13. CASE UNCHANGED <<store, inv, asked, aborted>>
    BY <1>13 DEF GateInv, RowExplained, CallExplained, Unused, Explained
  <1> QED
    BY <1>1, <1>2, <1>3, <1>4, <1>5, <1>6, <1>8, <1>9, <1>10, <1>11, <1>12, <1>13
    DEF Next, Step, OpenStream, StreamNode, CloseStream, history, vars

LEMMA InitGate == Init => GateInv
  BY DEF Init, GateInv, RowExplained, CallExplained, Quiet

\* Where no two calls share a thread, a gated node starts unannounced only after
\* a call of its thread was cut off: what GateAnnounced lacks, and no more.
THEOREM GateMissedCorrect ==
    ASSUME ~Shared PROVE Spec => GateMissedOnlyAfterLoss
  <1> DEFINE Missed(w) == inv[w].pc = "top" /\ inv'[w].pc = "node"
                            /\ inv[w].cur \in Gate \ asked[inv[w].thread]
  <1>1. TypeInv /\ GateInv /\ [Next]_vars =>
            [\A w \in Worker : Missed(w) => aborted[inv[w].thread] > 0]_vars
    <2> SUFFICES ASSUME TypeInv, GateInv, Next, NEW v \in Worker, Missed(v)
                 PROVE  aborted[inv[v].thread] > 0
      BY DEF vars
    <2> USE DEF TypeInv, CallTypes
    <2>1. StartNode(v) => aborted[inv[v].thread] > 0
      BY DEF StartNode, Halted, GateInv, CallExplained, Explained
    <2>2. ASSUME NEW w \in Worker, inv' = [inv EXCEPT ![w] = Quiet] PROVE FALSE
      BY <2>2, QuietIdle
    <2>3. ASSUME NEW w \in Worker, NEW t, NEW cur, NEW tr, NEW l, NEW r,
                 Begin(w, t, cur, tr, l, r)
          PROVE FALSE
      BY <2>3, QuietType DEF Begin, Call
    <2>4. ASSUME NEW w \in Worker, StartNode(w), w # v PROVE FALSE
      BY <2>4 DEF StartNode
    <2>5. ASSUME NEW w \in Worker, NodeReturns(w) \/ NodeRetries(w) \/ Record(w) PROVE FALSE
      BY <2>5 DEF NodeReturns, NodeRetries, Record, Call
    <2>6. CASE inv' = inv
      BY <2>6
    <2> QED
      BY <2>1, <2>2, <2>3, <2>4, <2>5, <2>6
      DEF Next, Delete, OpenStream, StreamNode, CloseStream, Step, Invoke, Resume, Finish, Refuse,
          Interrupt, NodeRaises, UnknownRoute, StoreFails, Crash, Abort, Stop
  <1>2. Init => TypeInv /\ ExclInv /\ GateInv
    BY InitType, InitExcl, InitGate
  <1>3. (TypeInv /\ ExclInv /\ GateInv) /\ [Next]_vars => (TypeInv /\ ExclInv /\ GateInv)'
    BY StepType, StepExcl, StepGate
  <1> QED BY <1>1, <1>2, <1>3, PTL DEF Spec, GateMissedOnlyAfterLoss

-----------------------------------------------------------------------------
(* One call per thread: the checkpoints implement the walk *)

\* Under the mapping, a row is the walk and pending node of a checkpoint.
Row == [t \in Thread |-> IF store[t] = None THEN None
                         ELSE [trace |-> store[t].trace, next |-> store[t].next]]

LEMMA StepWalks ==
    ASSUME ~Shared, TypeInv, WalkInv, ExclInv, [Next]_vars
    PROVE  [Walk!Next]_Row
  <1> USE DEF TypeInv, CallTypes
  <1>1. ASSUME store' = store PROVE Row' = Row
    BY <1>1 DEF Row
  <1>2. ASSUME NEW w \in Worker, Interrupt(w) PROVE [Walk!Next]_Row
    <2> DEFINE c == inv[w]
    <2>0. PICK t \in Thread : t = c.thread
      BY <1>2 DEF Interrupt, CallOK, Call
    <2>1. c \in Call /\ CallOK(c) /\ c.pc = "top" /\ c.cur \in Node
      BY <1>2 DEF Interrupt, Runnable
    <2>2. store' = [store EXCEPT ![t] = Snapshot(c, c.cur)] /\ Snapshot(c, c.cur) # None
      BY <1>2, <2>0, <2>1, SnapshotType DEF Interrupt, Call
    <2>3. Row' = [Row EXCEPT ![t] = [trace |-> c.trace, next |-> c.cur]]
      BY <2>1, <2>2 DEF Row, Snapshot
    <2>4. InStep(store[t], c) /\ IsWalk(c.trace, c.cur)
      BY <2>0, <2>1 DEF ExclInv, CheckpointIsCurrent, WalkInv
    <2>5. CASE store[t] = None
      <3>1. Row[t] = None /\ c.trace = <<>> /\ c.cur = First
        BY <2>1, <2>4, <2>5 DEF Row, InStep, IsWalk
      <3>2. Walk!Open(t)
        BY <2>3, <3>1 DEF Walk!Open, Walk!Start, Row
      <3> QED BY <2>1, <3>2 DEF Walk!Next
    <2>6. CASE store[t] # None
      <3>1. Row[t] = [trace |-> c.trace, next |-> c.cur]
        BY <2>1, <2>4, <2>6 DEF Row, InStep
      <3>2. Row' = Row
        BY <2>1, <2>3, <3>1 DEF Row
      <3> QED BY <3>2
    <2> QED BY <2>5, <2>6
  <1>3. ASSUME NEW w \in Worker, Record(w) PROVE [Walk!Next]_Row
    <2> DEFINE c == inv[w]
               u == Append(c.trace, c.cur)
               d == [c EXCEPT !.pc = "top", !.cur = c.nxt, !.trace = u, !.attempt = 0]
    <2>0. PICK t \in Thread : t = c.thread
      BY <1>3 DEF Record, CallOK, Call
    <2>1. c \in Call /\ CallOK(c) /\ c.pc = "returned" /\ c.cur \in Node
          /\ c.nxt \in Route[c.cur]
      BY <1>3 DEF Record, CallOK
    <2>2. store' = [store EXCEPT ![t] = Snapshot(d, c.nxt)] /\ inv' = [inv EXCEPT ![w] = d]
      BY <1>3, <2>0 DEF Record
    <2>3. d \in Call
      BY <1>3, RecordCall
    <2>4. Snapshot(d, c.nxt) # None /\ d.trace = u
      BY <2>1, <2>3, SnapshotType DEF Call
    <2> HIDE DEF d
    <2>5. Row' = [Row EXCEPT ![t] = [trace |-> u, next |-> c.nxt]]
      BY <2>1, <2>2, <2>4 DEF Row, Snapshot
    <2>6. InStep(store[t], c) /\ IsWalk(c.trace, c.cur)
      BY <2>0, <2>1 DEF ExclInv, CheckpointIsCurrent, WalkInv
    <2> DEFINE r == IF Row[t] = None THEN Walk!Start ELSE Row[t]
    <2>7. r.trace = c.trace /\ r.next = c.cur
      <3>1. CASE store[t] = None
        BY <2>1, <2>6, <3>1 DEF Row, Walk!Start, InStep, IsWalk
      <3>2. CASE store[t] # None
        <4>1. Row[t] = [trace |-> store[t].trace, next |-> store[t].next]
          BY <2>1, <3>2 DEF Row
        <4>2. Row[t] # None
          BY <2>1, <3>2, <4>1, NoneAssumption DEF Checkpoint, Row
        <4> QED BY <2>6, <3>2, <4>1, <4>2 DEF InStep
      <3> QED BY <3>1, <3>2
    <2>8. Walk!Advance(t)
      BY <2>1, <2>5, <2>7 DEF Walk!Advance, Row
    <2> QED BY <2>1, <2>8 DEF Walk!Next
  <1>4. ASSUME NEW w \in Worker, Step(w), ~Interrupt(w), ~Record(w) PROVE store' = store
    BY <1>4 DEF Step, Finish, Refuse, StartNode, NodeReturns, NodeRetries,
                NodeRaises, UnknownRoute, StoreFails
  <1>5. ASSUME NEW w \in Worker, NEW t \in Thread, Invoke(w, t) \/ Resume(w, t)
        PROVE  store' = store
    BY <1>5 DEF Invoke, Resume, Begin
  <1>6. ASSUME NEW w \in Worker, Crash(w) PROVE store' = store
    BY <1>6 DEF Crash
  <1>7. ASSUME NEW w \in Worker, OpenStream(w) \/ StreamNode(w) \/ CloseStream(w)
        PROVE  store' = store
    BY <1>7 DEF OpenStream, StreamNode, CloseStream
  <1>8. ASSUME NEW t \in Thread, Delete(t) PROVE [Walk!Next]_Row
    <2>1. Row' = [Row EXCEPT ![t] = None]
      BY <1>8 DEF Delete, Row
    <2> QED BY <2>1 DEF Walk!Next, Walk!Forget, Row
  <1>9. CASE UNCHANGED vars
    BY <1>1, <1>9 DEF vars
  <1> QED BY <1>1, <1>2, <1>3, <1>4, <1>5, <1>6, <1>7, <1>8, <1>9 DEF Next

\* The store implements the walk: seen through its rows, the runtime with its
\* workers, retries, failed calls and crashes only opens and advances walks.
THEOREM WalkRefined ==
    ASSUME ~Shared PROVE Spec => ImplementsWalk
  <1>1. Init => TypeInv /\ WalkInv /\ ExclInv
    BY InitType, InitWalk, InitExcl
  <1>2. (TypeInv /\ WalkInv /\ ExclInv) /\ [Next]_vars
           => (TypeInv /\ WalkInv /\ ExclInv)'
    BY StepType, StepWalk, StepExcl
  <1>3. Init => Walk!Init
    BY DEF Init, Walk!Init
  <1>4. (TypeInv /\ WalkInv /\ ExclInv) /\ [Next]_vars => [Walk!Next]_Row
    BY StepWalks
  <1> QED BY <1>1, <1>2, <1>3, <1>4, PTL DEF Spec, ImplementsWalk, Walk!Spec, Row

-----------------------------------------------------------------------------
(* A node runs again only where a call was lost *)

\* How often a node occurs in a list.
Count(s, n) == Cardinality({i \in DOMAIN s : s[i] = n})

LEMMA CountType ==
    ASSUME NEW s \in Seq(Node), NEW n
    PROVE  IsFiniteSet({i \in DOMAIN s : s[i] = n}) /\ Count(s, n) \in Nat
  <1>1. IsFiniteSet(1..Len(s)) /\ DOMAIN s = 1..Len(s)
    BY FS_Interval
  <1>2. IsFiniteSet({i \in DOMAIN s : s[i] = n})
    BY <1>1, FS_Subset
  <1> QED BY <1>2, FS_CardinalityType DEF Count

LEMMA CountEmpty == ASSUME NEW n PROVE Count(<<>>, n) = 0
  <1>1. {i \in DOMAIN <<>> : <<>>[i] = n} = {}
    OBVIOUS
  <1> QED BY <1>1, FS_EmptySet DEF Count

LEMMA CountAppend ==
    ASSUME NEW s \in Seq(Node), NEW m \in Node, NEW n \in Node
    PROVE  Count(Append(s, m), n) = Count(s, n) + (IF m = n THEN 1 ELSE 0)
  <1> DEFINE S == {i \in DOMAIN s : s[i] = n}
             T == {i \in DOMAIN Append(s, m) : Append(s, m)[i] = n}
             k == Len(s) + 1
  <1>1. IsFiniteSet(S) /\ Cardinality(S) \in Nat
    BY CountType DEF Count
  <1>2. DOMAIN Append(s, m) = 1..k /\ Append(s, m)[k] = m
        /\ \A i \in 1..Len(s) : Append(s, m)[i] = s[i]
    OBVIOUS
  <1>3. CASE m = n
    <2>1. T = S \cup {k} /\ k \notin S
      BY <1>2, <1>3
    <2>2. Cardinality(S \cup {k}) = Cardinality(S) + 1
      BY <1>1, <2>1, FS_AddElement
    <2> QED BY <1>3, <2>1, <2>2 DEF Count
  <1>4. CASE m # n
    <2>1. T = S
      BY <1>2, <1>4
    <2>2. Cardinality(T) = Cardinality(S)
      BY <2>1
    <2>3. Count(Append(s, m), n) = Cardinality(T) /\ Count(s, n) = Cardinality(S)
      BY DEF Count
    <2> HIDE DEF S, T
    <2> QED BY <1>1, <1>4, <2>2, <2>3
  <1> QED BY <1>3, <1>4

\* Has n returned in a call of t that has not recorded it yet?
Pending(t, n) ==
    \E w \in Worker : inv[w].pc = "returned" /\ inv[w].thread = t /\ inv[w].cur = n

Unrecorded(t, n) == IF Pending(t, n) THEN 1 ELSE 0

\* A run is recorded, about to be, or lost with its call.
Counted(recorded, unrecorded, lost, times) ==
    recorded + unrecorded <= times /\ times <= recorded + lost + unrecorded

\* What a call has not recorded of n.
Due(c, n) == IF c.pc = "returned" /\ c.cur = n THEN 1 ELSE 0

OnceInv ==
    \A t \in Thread, n \in Node :
        Counted(Recorded(t, n), Unrecorded(t, n), aborted[t], ran[t][n])

LEMMA RecordedSame ==
    ASSUME NEW t \in Thread, store'[t] = store[t]
    PROVE  \A n \in Node : Recorded(t, n)' = Recorded(t, n)
  BY DEF Recorded

LEMMA RecordedNew ==
    ASSUME NEW t \in Thread, NEW row \in Checkpoint, row # None, store'[t] = row
    PROVE  \A n \in Node : Recorded(t, n)' = Count(row.trace, n)
  BY DEF Recorded, Count

\* A live call holds the count of its row.
LEMMA RecordedHeld ==
    ASSUME TypeInv, ExclInv, NEW w \in Worker, inv[w].pc # "idle", NEW n \in Node
    PROVE  Recorded(inv[w].thread, n) = Count(inv[w].trace, n)
  <1>1. InStep(store[inv[w].thread], inv[w])
    BY DEF ExclInv, CheckpointIsCurrent
  <1> QED BY <1>1, CountEmpty DEF InStep, Recorded, Count

\* What a live call has not recorded is what it is at.
LEMMA UnrecordedHeld ==
    ASSUME ExclInv, NEW w \in Worker, inv[w].pc # "idle", NEW n \in Node
    PROVE  Unrecorded(inv[w].thread, n) =
               Due(inv[w], n)
  <1>1. \A v \in Worker : inv[v].pc = "returned" /\ inv[v].thread = inv[w].thread => v = w
    BY DEF ExclInv, Owner
  <1> QED BY <1>1 DEF Unrecorded, Pending, Due

LEMMA NothingDue ==
    ASSUME NEW c, c.pc # "returned"
    PROVE  \A n \in Node : Due(c, n) = 0
  BY DEF Due

LEMMA CountsType ==
    ASSUME TypeInv, NEW t \in Thread, NEW n \in Node
    PROVE  /\ Recorded(t, n) \in Nat /\ Unrecorded(t, n) \in {0, 1}
           /\ aborted[t] \in Nat /\ ran[t][n] \in Nat
  <1>1. Recorded(t, n) \in Nat
    <2>1. CASE store[t] = None
      BY <2>1 DEF Recorded
    <2>2. CASE store[t] # None
      <3>1. store[t].trace \in Seq(Node)
        BY <2>2 DEF TypeInv, CallTypes, Checkpoint
      <3> QED BY <2>2, <3>1, CountType DEF Recorded, Count
    <2> QED BY <2>1, <2>2
  <1> QED BY <1>1 DEF TypeInv, CallTypes, Unrecorded

\* A step of one call counts on its own thread only.
LEMMA OnceUpdate ==
    ASSUME TypeInv, ExclInv, OnceInv, NEW w \in Worker, inv[w].pc # "idle",
           NEW t \in Thread, t = inv[w].thread, NEW c,
           inv' = [inv EXCEPT ![w] = c],
           c.pc = "idle" \/ c.thread = t,
           \A u \in Thread \ {t} :
               store'[u] = store[u] /\ ran'[u] = ran[u] /\ aborted'[u] = aborted[u],
           \A n \in Node :
               Counted(Recorded(t, n)', Due(c, n),
                       aborted'[t], ran'[t][n])
    PROVE  OnceInv'
  <1> SUFFICES ASSUME NEW u \in Thread, NEW n \in Node
               PROVE  Counted(Recorded(u, n)', Unrecorded(u, n)', aborted'[u], ran'[u][n])
    BY DEF OnceInv, Counted
  <1>1. inv'[w] = c /\ \A v \in Worker \ {w} : inv'[v] = inv[v]
    BY DEF TypeInv, CallTypes
  <1>2. CASE u = t
    <2>1. \A v \in Worker \ {w} : ~(inv[v].pc = "returned" /\ inv[v].thread = t)
      BY DEF ExclInv, Owner
    <2>2. Pending(t, n)' <=> c.pc = "returned" /\ c.cur = n
      BY <1>1, <2>1 DEF Pending
    <2>3. Unrecorded(t, n)' = Due(c, n)
      BY <2>2 DEF Unrecorded, Due
    <2> QED BY <1>2, <2>3
  <1>3. CASE u # t
    <2>1. Pending(u, n)' <=> Pending(u, n)
      BY <1>1, <1>3 DEF Pending
    <2>2. Recorded(u, n)' = Recorded(u, n)
      BY <1>3, RecordedSame
    <2> QED BY <1>3, <2>1, <2>2 DEF OnceInv, Unrecorded
  <1> QED BY <1>2, <1>3

\* What the counts of a live call's thread are before its step.
LEMMA OnceHeld ==
    ASSUME TypeInv, ExclInv, OnceInv, NEW w \in Worker, inv[w].pc # "idle",
           NEW t \in Thread, t = inv[w].thread, NEW n \in Node
    PROVE  /\ Counted(Recorded(t, n), Due(inv[w], n),
                      aborted[t], ran[t][n])
           /\ Recorded(t, n) \in Nat /\ aborted[t] \in Nat /\ ran[t][n] \in Nat
  <1>1. Unrecorded(t, n) = Due(inv[w], n)
    BY UnrecordedHeld
  <1> QED BY <1>1, CountsType DEF OnceInv

LEMMA ThreadOf ==
    ASSUME TypeInv, NEW w \in Worker, inv[w].pc # "idle"
    PROVE  \E t \in Thread : t = inv[w].thread
  BY DEF TypeInv, CallTypes, Call, CallOK

\* A call that is cut off loses at most the one run it has not recorded.
LEMMA AbortOnce ==
    ASSUME TypeInv, ExclInv, OnceInv, NEW w \in Worker, inv[w].pc # "idle",
           Abort(w), UNCHANGED <<store, ran>>
    PROVE  OnceInv'
  <1>0. PICK t \in Thread : t = inv[w].thread
    BY ThreadOf
  <1>1. /\ inv' = [inv EXCEPT ![w] = Quiet] /\ Quiet.pc = "idle"
        /\ aborted' = [aborted EXCEPT ![t] = aborted[t] + 1]
    BY <1>0, QuietIdle DEF Abort, Stop
  <1>3. aborted'[t] = aborted[t] + 1 /\ \A u \in Thread \ {t} : aborted'[u] = aborted[u]
    BY <1>1 DEF TypeInv, CallTypes
  <1>4. ASSUME NEW n \in Node
        PROVE  Counted(Recorded(t, n)', Due(Quiet, n), aborted'[t], ran'[t][n])
    <2>1. Recorded(t, n)' = Recorded(t, n)
      BY RecordedSame
    <2>2. /\ Counted(Recorded(t, n), Due(inv[w], n),
                     aborted[t], ran[t][n])
          /\ Recorded(t, n) \in Nat /\ aborted[t] \in Nat /\ ran[t][n] \in Nat
      BY <1>0, OnceHeld
    <2>3. Due(inv[w], n) \in {0, 1} /\ Due(Quiet, n) = 0
      BY <1>1, NothingDue DEF Due
    <2> QED BY <1>3, <2>1, <2>2, <2>3 DEF Counted
  <1> QED BY <1>0, <1>1, <1>3, <1>4, OnceUpdate

\* A step that changes no count, of a call at no returned node.
LEMMA QuietOnce ==
    ASSUME TypeInv, ExclInv, OnceInv, NEW w \in Worker, inv[w].pc \in {"top", "node"},
           NEW t \in Thread, t = inv[w].thread, NEW c,
           inv' = [inv EXCEPT ![w] = c], c.pc \in {"idle", "top", "node"},
           c.pc = "idle" \/ c.thread = t,
           \A n \in Node : Recorded(t, n)' = Recorded(t, n),
           \A u \in Thread \ {t} : store'[u] = store[u],
           UNCHANGED <<ran, aborted>>
    PROVE  OnceInv'
  <1>1. ASSUME NEW n \in Node
        PROVE  Counted(Recorded(t, n)', Due(c, n),
                       aborted'[t], ran'[t][n])
    <2>1. Counted(Recorded(t, n), Due(inv[w], n),
                  aborted[t], ran[t][n])
      BY OnceHeld
    <2>2. Due(c, n) = Due(inv[w], n)
      BY DEF Due
    <2> QED BY <2>1, <2>2
  <1> QED BY <1>1, OnceUpdate

LEMMA CountedMore ==
    ASSUME NEW r \in Nat, NEW lost \in Nat, NEW times \in Nat, NEW more \in {0, 1},
           Counted(r, 0, lost, times)
    PROVE  Counted(r, more, lost, times + more)
  BY DEF Counted

LEMMA StepOnce ==
    ~Shared /\ TypeInv /\ ExclInv /\ OnceInv /\ [Next]_vars => OnceInv'
  <1> SUFFICES ASSUME ~Shared, TypeInv, ExclInv, OnceInv, [Next]_vars PROVE OnceInv'
    OBVIOUS
  <1>0. ASSUME UNCHANGED <<store, ran, aborted>>,
               \A t \in Thread, n \in Node : Pending(t, n)' <=> Pending(t, n)
        PROVE  OnceInv'
    BY <1>0 DEF OnceInv, Recorded, Unrecorded
  <1>1. ASSUME NEW w \in Worker, NEW t \in Thread, Invoke(w, t) \/ Resume(w, t) PROVE OnceInv'
    <2>0. inv \in [Worker -> Call]
      BY DEF TypeInv, CallTypes
    <2>1. /\ inv[w].pc = "idle" /\ inv'[w].pc = "top"
          /\ \A v \in Worker \ {w} : inv'[v] = inv[v]
          /\ UNCHANGED <<store, ran, aborted>>
      <3>1. CASE Invoke(w, t)
        BY <2>0, <3>1 DEF Invoke, Begin, Quiet
      <3>2. CASE Resume(w, t)
        BY <2>0, <3>2 DEF Resume, Begin, Quiet
      <3> QED BY <1>1, <3>1, <3>2
    <2>2. \A u \in Thread, n \in Node : Pending(u, n)' <=> Pending(u, n)
      BY <2>1 DEF Pending
    <2> QED BY <1>0, <2>1, <2>2
  <1>2. ASSUME NEW w \in Worker, Finish(w) PROVE OnceInv'
    <2>1. PICK t \in Thread : t = inv[w].thread
      BY <1>2, ThreadOf DEF Finish
    <2> QED BY <1>2, <2>1, QuietIdle, QuietOnce, RecordedSame DEF Finish, Stop, history
  <1>3. ASSUME NEW w \in Worker, Refuse(w) \/ NodeRaises(w) \/ StoreFails(w) \/ Crash(w)
        PROVE  OnceInv'
    BY <1>3, AbortOnce DEF Refuse, NodeRaises, StoreFails, Crash
  <1>4. ASSUME NEW w \in Worker, Interrupt(w) PROVE OnceInv'
    <2>0. PICK t \in Thread : t = inv[w].thread
      BY <1>4, ThreadOf DEF Interrupt
    <2>1. /\ inv[w].pc = "top" /\ inv' = [inv EXCEPT ![w] = Quiet] /\ Quiet.pc = "idle"
          /\ store' = [store EXCEPT ![t] = Snapshot(inv[w], inv[w].cur)]
          /\ UNCHANGED <<ran, aborted>>
      BY <1>4, <2>0, QuietIdle DEF Interrupt, Stop
    <2>2. inv[w] \in Call /\ inv[w].cur \in Place
      BY <2>1 DEF TypeInv, CallTypes, Call, CallOK
    <2>3. /\ Snapshot(inv[w], inv[w].cur) \in Checkpoint /\ Snapshot(inv[w], inv[w].cur) # None
          /\ Snapshot(inv[w], inv[w].cur).trace = inv[w].trace
      BY <2>2, SnapshotType DEF Snapshot
    <2>4. store'[t] = Snapshot(inv[w], inv[w].cur) /\ \A u \in Thread \ {t} : store'[u] = store[u]
      BY <2>1, <2>2 DEF TypeInv, CallTypes
    <2>5. \A n \in Node : Recorded(t, n)' = Count(inv[w].trace, n)
      BY <2>3, <2>4, RecordedNew
    <2>6. \A n \in Node : Recorded(t, n)' = Recorded(t, n)
      BY <2>0, <2>1, <2>5, RecordedHeld
    <2> QED BY <2>0, <2>1, <2>4, <2>6, QuietOnce
  <1>5. ASSUME NEW w \in Worker, StartNode(w) PROVE OnceInv'
    <2> DEFINE d == [inv[w] EXCEPT !.pc = "node", !.skip = FALSE,
                                   !.execs = inv[w].execs + 1, !.attempt = 1]
    <2>1. inv' = [inv EXCEPT ![w] = d] /\ inv[w].pc = "top" /\ UNCHANGED <<store, ran, aborted>>
      BY <1>5 DEF StartNode, history
    <2>2. d.pc = "node" /\ d.thread = inv[w].thread
      BY DEF Call, TypeInv, CallTypes
    <2> HIDE DEF d
    <2>3. PICK t \in Thread : t = inv[w].thread
      BY <2>1, ThreadOf
    <2> QED BY <2>1, <2>2, <2>3, QuietOnce, RecordedSame
  <1>6. ASSUME NEW w \in Worker, NodeReturns(w) PROVE OnceInv'
    <2>0. PICK t \in Thread : t = inv[w].thread
      BY <1>6, ThreadOf DEF NodeReturns
    <2>1. \E d \in {inv'[w]} : /\ inv' = [inv EXCEPT ![w] = d]
                              /\ d.pc = "returned" /\ d.thread = t /\ d.cur = inv[w].cur
      <3>1. PICK n \in Route[inv[w].cur], style \in Style[inv[w].cur] :
              inv' = [inv EXCEPT ![w] =
                        [inv[w] EXCEPT !.pc = "returned", !.nxt = n,
                                       !.log = Merge(inv[w].log, Update(inv[w].cur, inv[w].log, style))]]
        BY <1>6 DEF NodeReturns
      <3>2. inv[w] \in Call /\ inv \in [Worker -> Call]
        BY DEF TypeInv, CallTypes
      <3> QED BY <2>0, <3>1, <3>2 DEF Call
    <2>2. PICK d : /\ inv' = [inv EXCEPT ![w] = d]
                   /\ d.pc = "returned" /\ d.thread = t /\ d.cur = inv[w].cur
      BY <2>1
    <2>3. /\ inv[w].pc = "node"
          /\ ran' = [ran EXCEPT ![t][inv[w].cur] = ran[t][inv[w].cur] + 1]
          /\ UNCHANGED <<store, aborted>>
      BY <1>6, <2>0 DEF NodeReturns
    <2>4. inv[w].cur \in Node
      BY <2>3 DEF TypeInv, CallTypes, Call, CallOK
    <2>5. /\ \A u \in Thread \ {t} : ran'[u] = ran[u]
          /\ \A k \in Node : ran'[t][k] = ran[t][k] + (IF k = inv[w].cur THEN 1 ELSE 0)
      BY <2>3, <2>4, CountsType DEF TypeInv, CallTypes
    <2>6. ASSUME NEW k \in Node
          PROVE  Counted(Recorded(t, k)', Due(d, k),
                         aborted'[t], ran'[t][k])
      <3>1. Recorded(t, k)' = Recorded(t, k)
        BY <2>3, RecordedSame
      <3>2. Counted(Recorded(t, k), 0, aborted[t], ran[t][k])
            /\ Recorded(t, k) \in Nat /\ aborted[t] \in Nat /\ ran[t][k] \in Nat
        <4>1. Due(inv[w], k) = 0
          BY <2>3, NothingDue
        <4> QED BY <2>0, <2>3, <4>1, OnceHeld
      <3>3. Due(d, k) = (IF k = inv[w].cur THEN 1 ELSE 0)
        BY <2>2 DEF Due
      <3>4. ran'[t][k] = ran[t][k] + (IF k = inv[w].cur THEN 1 ELSE 0) /\ aborted'[t] = aborted[t]
        BY <2>3, <2>5
      <3> QED BY <3>1, <3>2, <3>3, <3>4, CountedMore
    <2>7. \A u \in Thread \ {t} : store'[u] = store[u] /\ ran'[u] = ran[u] /\ aborted'[u] = aborted[u]
      BY <2>3, <2>5
    <2>8. inv[w].pc # "idle"
      BY <2>3
    <2>9. inv' = [inv EXCEPT ![w] = d] /\ (d.pc = "idle" \/ d.thread = t)
      BY <2>2
    <2> QED BY <2>0, <2>6, <2>7, <2>8, <2>9, OnceUpdate
  <1>7. ASSUME NEW w \in Worker, NodeRetries(w) PROVE OnceInv'
    <2> DEFINE d == [inv[w] EXCEPT !.attempt = inv[w].attempt + 1]
    <2>1. inv' = [inv EXCEPT ![w] = d] /\ inv[w].pc = "node" /\ UNCHANGED <<store, ran, aborted>>
      BY <1>7 DEF NodeRetries, history
    <2>2. d.pc = inv[w].pc /\ d.thread = inv[w].thread
      BY DEF Call, TypeInv, CallTypes
    <2> HIDE DEF d
    <2>3. PICK t \in Thread : t = inv[w].thread
      BY <2>1, ThreadOf
    <2> QED BY <2>1, <2>2, <2>3, QuietOnce, RecordedSame
  <1>8. ASSUME NEW w \in Worker, UnknownRoute(w) PROVE OnceInv'
    <2>0. PICK t \in Thread : t = inv[w].thread
      BY <1>8, ThreadOf DEF UnknownRoute
    <2>1. /\ inv' = [inv EXCEPT ![w] = Quiet] /\ Quiet.pc = "idle" /\ inv[w].pc = "node"
          /\ ran' = [ran EXCEPT ![t][inv[w].cur] = ran[t][inv[w].cur] + 1]
          /\ aborted' = [aborted EXCEPT ![t] = aborted[t] + 1]
          /\ UNCHANGED store
      BY <1>8, <2>0, QuietIdle DEF UnknownRoute, Abort, Stop
    <2>2. inv[w].cur \in Node
      BY <2>1 DEF TypeInv, CallTypes, Call, CallOK
    <2>3. /\ \A u \in Thread \ {t} : ran'[u] = ran[u] /\ aborted'[u] = aborted[u]
          /\ \A k \in Node : ran'[t][k] = ran[t][k] + (IF k = inv[w].cur THEN 1 ELSE 0)
          /\ aborted'[t] = aborted[t] + 1
      BY <2>1, <2>2, CountsType DEF TypeInv, CallTypes
    <2>4. ASSUME NEW k \in Node
          PROVE  Counted(Recorded(t, k)', Due(Quiet, k), aborted'[t], ran'[t][k])
      <3>1. Recorded(t, k)' = Recorded(t, k) /\ Due(Quiet, k) = 0 /\ Due(inv[w], k) = 0
        BY <2>1, RecordedSame, NothingDue
      <3>2. Counted(Recorded(t, k), Due(inv[w], k), aborted[t], ran[t][k])
            /\ Recorded(t, k) \in Nat /\ aborted[t] \in Nat /\ ran[t][k] \in Nat
        BY <2>0, <2>1, OnceHeld
      <3> QED BY <2>3, <3>1, <3>2 DEF Counted
    <2> QED BY <2>0, <2>1, <2>3, <2>4, OnceUpdate
  <1>9. ASSUME NEW w \in Worker, Record(w) PROVE OnceInv'
    <2>0. PICK t \in Thread : t = inv[w].thread
      BY <1>9, ThreadOf DEF Record
    <2> DEFINE c == inv[w]
               d == [c EXCEPT !.pc = "top", !.cur = c.nxt,
                              !.trace = Append(c.trace, c.cur), !.attempt = 0]
    <2>1. /\ inv' = [inv EXCEPT ![w] = d] /\ c.pc = "returned"
          /\ store' = [store EXCEPT ![t] = Snapshot(d, c.nxt)]
          /\ UNCHANGED <<ran, aborted>>
      BY <1>9, <2>0 DEF Record
    <2>2. /\ d.thread = t /\ d.pc = "top" /\ d.trace = Append(c.trace, c.cur)
          /\ c.cur \in Node /\ c.nxt \in Place /\ c.trace \in Seq(Node)
      BY <2>0, <2>1 DEF Call, CallOK, TypeInv, CallTypes
    <2>3. d \in Call
      BY <1>9, RecordCall
    <2> HIDE DEF d
    <2>4. /\ Snapshot(d, c.nxt) \in Checkpoint /\ Snapshot(d, c.nxt) # None
          /\ Snapshot(d, c.nxt).trace = Append(c.trace, c.cur)
      BY <2>2, <2>3, SnapshotType DEF Snapshot
    <2>5. store'[t] = Snapshot(d, c.nxt) /\ \A u \in Thread \ {t} : store'[u] = store[u]
      BY <2>1, <2>2 DEF TypeInv, CallTypes
    <2>6. ASSUME NEW k \in Node
          PROVE  Counted(Recorded(t, k)', Due(d, k), aborted'[t], ran'[t][k])
      <3>1. Recorded(t, k)' = Count(Append(c.trace, c.cur), k)
        BY <2>4, <2>5, RecordedNew
      <3>2. Recorded(t, k)' = Recorded(t, k) + (IF c.cur = k THEN 1 ELSE 0)
        BY <2>0, <2>1, <2>2, <3>1, CountAppend, RecordedHeld
      <3>3. Counted(Recorded(t, k), Due(c, k), aborted[t], ran[t][k])
            /\ Recorded(t, k) \in Nat /\ aborted[t] \in Nat /\ ran[t][k] \in Nat
        BY <2>0, <2>1, OnceHeld
      <3>4. Due(c, k) = (IF c.cur = k THEN 1 ELSE 0) /\ Due(d, k) = 0
        BY <2>1, <2>2, NothingDue DEF Due
      <3> QED BY <2>1, <3>2, <3>3, <3>4 DEF Counted
    <2> QED BY <2>0, <2>1, <2>2, <2>5, <2>6, OnceUpdate
  <1>10. ASSUME NEW t \in Thread, Delete(t) PROVE OnceInv'
    <2>1. /\ Unused(t) /\ inv' = inv
          /\ store'[t] = None /\ aborted'[t] = 0 /\ \A n \in Node : ran'[t][n] = 0
          /\ \A u \in Thread \ {t} :
                 store'[u] = store[u] /\ ran'[u] = ran[u] /\ aborted'[u] = aborted[u]
      BY <1>10 DEF Delete, TypeInv, CallTypes
    <2>2. \A u \in Thread, n \in Node : Pending(u, n)' <=> Pending(u, n)
      BY <2>1 DEF Pending
    <2>3. \A n \in Node : ~Pending(t, n)
      BY <2>1 DEF Pending, Unused
    <2>4. \A n \in Node : Counted(Recorded(t, n)', Unrecorded(t, n)', aborted'[t], ran'[t][n])
      BY <2>1, <2>2, <2>3 DEF Recorded, Unrecorded, Counted
    <2>5. \A u \in Thread \ {t}, n \in Node :
              Counted(Recorded(u, n)', Unrecorded(u, n)', aborted'[u], ran'[u][n])
      BY <2>1, <2>2 DEF OnceInv, Recorded, Unrecorded
    <2> QED BY <2>4, <2>5 DEF OnceInv
  <1>11. ASSUME UNCHANGED <<store, inv, ran, aborted>> PROVE OnceInv'
    BY <1>0, <1>11 DEF Pending
  <1> QED
    BY <1>1, <1>2, <1>3, <1>4, <1>5, <1>6, <1>7, <1>8, <1>9, <1>10, <1>11
       DEF Next, Step, OpenStream, StreamNode, CloseStream, history, vars

\* Where no two calls share a thread, a node is recorded at most as often as
\* it ran, and every run more than that is the work of a call that was lost.
THEOREM OnceCorrect ==
    ASSUME ~Shared PROVE Spec => []OncePerLoss
  <1>1. Init => TypeInv /\ ExclInv
    BY InitType, InitExcl
  <1>2. Init => OnceInv
    BY QuietIdle DEF Init, OnceInv, Recorded, Unrecorded, Pending, Counted
  <1>3. (TypeInv /\ ExclInv /\ OnceInv) /\ [Next]_vars => (TypeInv /\ ExclInv /\ OnceInv)'
    BY StepType, StepExcl, StepOnce
  <1>4. TypeInv /\ ExclInv /\ OnceInv => OncePerLoss
    <2> SUFFICES ASSUME TypeInv, ExclInv, OnceInv, NEW t \in Thread, NEW n \in Node
                 PROVE  /\ Recorded(t, n) <= ran[t][n]
                        /\ ran[t][n] <= Recorded(t, n) + aborted[t] + Cardinality(Returned(t))
      BY DEF OncePerLoss
    <2>1. Counted(Recorded(t, n), Unrecorded(t, n), aborted[t], ran[t][n])
      BY DEF OnceInv
    <2>2. Cardinality(Returned(t)) \in Nat /\ Unrecorded(t, n) <= Cardinality(Returned(t))
      <3>1. CASE Returned(t) = {}
        <4>1. Unrecorded(t, n) = 0
          BY <3>1 DEF Returned, Unrecorded, Pending
        <4> QED BY <3>1, <4>1, FS_EmptySet
      <3>2. CASE Returned(t) # {}
        <4>1. PICK w \in Worker : w \in Returned(t)
          BY <3>2 DEF Returned
        <4>2. Returned(t) = {w}
          BY <4>1 DEF Returned, ExclInv, Owner
        <4> QED BY <4>2, FS_Singleton DEF Unrecorded
      <3> QED BY <3>1, <3>2
    <2> QED BY <2>1, <2>2, CountsType DEF Counted
  <1> QED BY <1>1, <1>2, <1>3, <1>4, PTL DEF Spec

-----------------------------------------------------------------------------
(* Every call shrinks *)

\* How far one pass of the loop has come.
Ahead(c) == CASE c.pc = "node" -> 2 [] c.pc = "returned" -> 1 [] OTHER -> 0

\* What is left of a call: nodes it may still start, the rest of this one's
\* pass, and its attempts.
Left(c) ==
    << RecursionLimit - c.execs,
       Ahead(c),
       IF c.pc = "node" THEN MaxAttempts[c.cur] - c.attempt ELSE 0 >>

Shrinks(c, d) == c.pc # "idle" /\ d # c => d.pc = "idle" \/ Below(3, Left(d), Left(c))

WithinLimits(c) ==
    /\ c.execs <= RecursionLimit
    /\ c.pc = "node" => c.attempt <= MaxAttempts[c.cur]

LimitInv == \A w \in Worker : WithinLimits(inv[w])

CallShrinks == [][\A w \in Worker : Shrinks(inv[w], inv'[w])]_vars

LEMMA LeftType ==
    ASSUME NEW c \in Call, CallOK(c), WithinLimits(c)
    PROVE  Left(c) \in Tuples(3)
  <1>1. RecursionLimit - c.execs \in Nat
    BY GraphAssumption DEF Call, WithinLimits
  <1>2. Ahead(c) \in Nat
    BY DEF Ahead
  <1>3. c.pc = "node" => MaxAttempts[c.cur] - c.attempt \in Nat
    <2>1. ASSUME c.pc = "node"
          PROVE  MaxAttempts[c.cur] \in Nat /\ c.attempt \in Nat /\ c.attempt <= MaxAttempts[c.cur]
      BY <2>1, GraphAssumption DEF Call, CallOK, WithinLimits
    <2> QED BY <2>1
  <1> QED BY <1>1, <1>2, <1>3 DEF Left, Tuples

LEMMA QuietLimits == WithinLimits(Quiet)
  BY GraphAssumption DEF WithinLimits, Quiet

\* A step that moves one call.
LEMMA MoveOne ==
    ASSUME TypeInv, LimitInv, NEW w \in Worker, NEW d,
           inv' = [inv EXCEPT ![w] = d], WithinLimits(d), Shrinks(inv[w], d)
    PROVE  LimitInv' /\ \A v \in Worker : Shrinks(inv[v], inv'[v])
  <1>1. \A v \in Worker : inv'[v] = IF v = w THEN d ELSE inv[v]
    BY DEF TypeInv, CallTypes
  <1>2. LimitInv'
    BY <1>1 DEF LimitInv
  <1>3. \A v \in Worker : Shrinks(inv[v], inv'[v])
    BY <1>1 DEF Shrinks
  <1> QED BY <1>2, <1>3

LEMMA StopShrinks ==
    ASSUME TypeInv, LimitInv, NEW w \in Worker, inv' = [inv EXCEPT ![w] = Quiet]
    PROVE  LimitInv' /\ \A v \in Worker : Shrinks(inv[v], inv'[v])
  <1>1. Shrinks(inv[w], Quiet)
    BY DEF Shrinks, Quiet
  <1> QED BY <1>1, QuietLimits, MoveOne

LEMMA StepShrinks ==
    ASSUME TypeInv, LimitInv, Next
    PROVE  LimitInv' /\ \A w \in Worker : Shrinks(inv[w], inv'[w])
  <1>0. \A w \in Worker : inv[w] \in Call /\ CallOK(inv[w]) /\ WithinLimits(inv[w])
    BY DEF TypeInv, CallTypes, LimitInv
  <1>1. ASSUME inv' = inv PROVE LimitInv' /\ \A w \in Worker : Shrinks(inv[w], inv'[w])
    BY <1>1 DEF LimitInv, Shrinks
  <1>2. ASSUME NEW w \in Worker, NEW t \in Thread, Invoke(w, t) \/ Resume(w, t)
        PROVE  LimitInv' /\ \A v \in Worker : Shrinks(inv[v], inv'[v])
    <2>1. PICK cur, trace, log, resumed : Begin(w, t, cur, trace, log, resumed)
      BY <1>2 DEF Invoke, Resume
    <2> DEFINE d == [Quiet EXCEPT !.pc = "top", !.thread = t, !.cur = cur, !.trace = trace,
                                  !.log = log, !.skip = resumed, !.resumed = resumed]
    <2>2. inv[w].pc = "idle" /\ inv' = [inv EXCEPT ![w] = d]
      BY <2>1 DEF Begin
    <2>3. d.execs = 0 /\ d.pc = "top"
      BY DEF Quiet
    <2> HIDE DEF d
    <2>4. WithinLimits(d)
      BY <2>3, GraphAssumption DEF WithinLimits
    <2>5. Shrinks(inv[w], d)
      BY <2>2 DEF Shrinks
    <2> QED BY <2>2, <2>4, <2>5, MoveOne
  <1>3. ASSUME NEW w \in Worker,
               \/ Finish(w) \/ Refuse(w) \/ Interrupt(w) \/ NodeRaises(w)
               \/ UnknownRoute(w) \/ StoreFails(w) \/ Crash(w)
        PROVE  LimitInv' /\ \A v \in Worker : Shrinks(inv[v], inv'[v])
    <2>1. inv' = [inv EXCEPT ![w] = Quiet]
      BY <1>3 DEF Finish, Refuse, Interrupt, NodeRaises, UnknownRoute, StoreFails, Crash,
                  Abort, Stop
    <2> QED BY <2>1, StopShrinks
  <1>4. ASSUME NEW w \in Worker, StartNode(w)
        PROVE  LimitInv' /\ \A v \in Worker : Shrinks(inv[v], inv'[v])
    <2> DEFINE c == inv[w]
               d == [c EXCEPT !.pc = "node", !.skip = FALSE, !.execs = c.execs + 1, !.attempt = 1]
    <2>1. /\ c.cur \in Node /\ c.execs < RecursionLimit /\ c.execs \in Nat
          /\ inv' = [inv EXCEPT ![w] = d]
      BY <1>0, <1>4 DEF StartNode, Runnable, Call
    <2>2. d.execs = c.execs + 1 /\ d.pc = "node" /\ d.attempt = 1 /\ d.cur = c.cur
      BY <1>0 DEF Call
    <2> HIDE DEF d, c
    <2>3. WithinLimits(d)
      <3>1. MaxAttempts[c.cur] \in Nat \ {0}
        BY <2>1, GraphAssumption
      <3> QED BY <2>1, <2>2, <3>1, GraphAssumption DEF WithinLimits
    <2>4. RecursionLimit - d.execs < RecursionLimit - c.execs
      BY <2>1, <2>2, GraphAssumption
    <2>5. Below(3, Left(d), Left(c))
      BY <2>4 DEF Below, Left
    <2>6. Shrinks(inv[w], d)
      BY <2>5 DEF Shrinks, c
    <2> QED BY <2>1, <2>3, <2>6, MoveOne
  <1>5. ASSUME NEW w \in Worker, NodeReturns(w)
        PROVE  LimitInv' /\ \A v \in Worker : Shrinks(inv[v], inv'[v])
    <2> DEFINE c == inv[w]
    <2>1. PICK n, u : inv' = [inv EXCEPT ![w] =
                                 [c EXCEPT !.pc = "returned", !.nxt = n, !.log = Merge(c.log, u)]]
      BY <1>5 DEF NodeReturns
    <2> DEFINE d == [c EXCEPT !.pc = "returned", !.nxt = n, !.log = Merge(c.log, u)]
    <2>2. d.execs = c.execs /\ d.pc = "returned" /\ c.pc = "node"
      BY <1>0, <1>5 DEF Call, NodeReturns
    <2>3. inv' = [inv EXCEPT ![w] = d]
      BY <2>1
    <2> HIDE DEF d
    <2>4. WithinLimits(d)
      BY <1>0, <2>2 DEF WithinLimits
    <2>5. Below(3, Left(d), Left(c))
      BY <2>2 DEF Below, Left, Ahead
    <2>6. Shrinks(inv[w], d)
      BY <2>5 DEF Shrinks
    <2> QED BY <2>3, <2>4, <2>6, MoveOne
  <1>6. ASSUME NEW w \in Worker, NodeRetries(w)
        PROVE  LimitInv' /\ \A v \in Worker : Shrinks(inv[v], inv'[v])
    <2> DEFINE c == inv[w]
               d == [c EXCEPT !.attempt = c.attempt + 1]
    <2>1. /\ c.pc = "node" /\ c.attempt < MaxAttempts[c.cur]
          /\ c.attempt \in Nat /\ MaxAttempts[c.cur] \in Nat
          /\ inv' = [inv EXCEPT ![w] = d]
      BY <1>0, <1>6, GraphAssumption DEF NodeRetries, Call, CallOK
    <2>2. d.execs = c.execs /\ d.pc = c.pc /\ d.attempt = c.attempt + 1 /\ d.cur = c.cur
      BY <1>0 DEF Call
    <2>3. WithinLimits(c)
      BY <1>0
    <2> HIDE DEF d, c
    <2>4. WithinLimits(d)
      BY <2>1, <2>2, <2>3 DEF WithinLimits
    <2>5. MaxAttempts[c.cur] - d.attempt < MaxAttempts[c.cur] - c.attempt
      BY <2>1, <2>2
    <2>6. Below(3, Left(d), Left(c))
      BY <2>1, <2>2, <2>5 DEF Below, Left, Ahead
    <2>7. Shrinks(inv[w], d)
      BY <2>6 DEF Shrinks, c
    <2> QED BY <2>1, <2>4, <2>7, MoveOne
  <1>7. ASSUME NEW w \in Worker, Record(w)
        PROVE  LimitInv' /\ \A v \in Worker : Shrinks(inv[v], inv'[v])
    <2> DEFINE c == inv[w]
               d == [c EXCEPT !.pc = "top", !.cur = c.nxt,
                              !.trace = Append(c.trace, c.cur), !.attempt = 0]
    <2>1. c.pc = "returned" /\ inv' = [inv EXCEPT ![w] = d]
      BY <1>7 DEF Record
    <2>2. d.execs = c.execs /\ d.pc = "top"
      BY <1>0 DEF Call
    <2> HIDE DEF d
    <2>3. WithinLimits(d)
      BY <1>0, <2>2 DEF WithinLimits
    <2>4. Below(3, Left(d), Left(c))
      BY <2>1, <2>2 DEF Below, Left, Ahead
    <2>5. Shrinks(inv[w], d)
      BY <2>4 DEF Shrinks
    <2> QED BY <2>1, <2>3, <2>5, MoveOne
  <1>8. ASSUME NEW t \in Thread, Delete(t) PROVE inv' = inv
    BY <1>8 DEF Delete
  <1>9. ASSUME NEW w \in Worker, OpenStream(w) \/ StreamNode(w) \/ CloseStream(w) PROVE inv' = inv
    BY <1>9 DEF OpenStream, StreamNode, CloseStream
  <1> QED BY <1>1, <1>2, <1>3, <1>4, <1>5, <1>6, <1>7, <1>8, <1>9 DEF Next, Step

\* On any graph, cyclic or not, and however many workers share a thread:
\* whatever happens to a call leaves less of it, in a well-founded order, so
\* that no call runs for ever; the recursion limit and the attempts are its bound.
THEOREM CallsShrink ==
    Spec => [](\A w \in Worker : Left(inv[w]) \in Tuples(3)) /\ CallShrinks
  <1>1. Init => TypeInv /\ LimitInv
    BY InitType, QuietLimits DEF Init, LimitInv
  <1>2. TypeInv /\ LimitInv /\ [Next]_vars =>
            (TypeInv /\ LimitInv)' /\ [\A w \in Worker : Shrinks(inv[w], inv'[w])]_vars
    <2> SUFFICES ASSUME TypeInv, LimitInv, [Next]_vars
                 PROVE  /\ TypeInv' /\ LimitInv'
                        /\ [\A w \in Worker : Shrinks(inv[w], inv'[w])]_vars
      OBVIOUS
    <2>1. CASE Next
      BY <2>1, StepType, StepShrinks
    <2>2. CASE UNCHANGED vars
      BY <2>2, StepType DEF vars, LimitInv
    <2> QED BY <2>1, <2>2
  <1>3. TypeInv /\ LimitInv => \A w \in Worker : Left(inv[w]) \in Tuples(3)
    BY LeftType DEF TypeInv, CallTypes, LimitInv
  <1> QED BY <1>1, <1>2, <1>3, PTL DEF Spec, CallShrinks

=============================================================================
