---------------------------- MODULE GraphRuntime ----------------------------
(***************************************************************************)
(* The durable state graph of src/src/sophyane/graph_runtime.py: a caller  *)
(* invokes or resumes a graph under a checkpoint id (a thread, here), the  *)
(* loop of StateGraph.invoke runs one node after another, and after each   *)
(* node the whole state is written to the SQLite store.  Workers are the   *)
(* processes (or Python threads) that make those calls; what they hold in  *)
(* memory is lost when they crash, the store is not.  A stream walks the   *)
(* graph without the store: its consumer asks for one node after another.  *)
(*                                                                         *)
(* Of the graph state the model keeps one list, `log', that every node     *)
(* extends in one of the two styles StateGraph.merge documents.            *)
(***************************************************************************)
EXTENDS Naturals, FiniteSets, SequencesExt

CONSTANTS
    Worker,          \* processes that call invoke or resume
    Thread,          \* checkpoint ids
    Node,            \* node names added by add_node
    First,           \* target of the edge from START
    End,             \* StateGraph.END
    Ghost,           \* stands for every destination that names no node
    None,            \* no checkpoint, no thread
    Route,           \* Route[n]: destinations n may lead to
    Gate,            \* interrupt_before
    Mapped,          \* nodes whose selector goes through a route map
    Style,           \* Style[n]: how n may return its list update
    MaxAttempts,     \* RetryPolicy.max_attempts of each node (1 without policy)
    RecursionLimit,  \* recursion_limit of every call
    Shared,          \* may two live calls, or a second invoke, use one thread?
    MaxCalls,        \* bound: calls in a behaviour
    MaxCrashes       \* bound: crashes in a behaviour

Place == Node \cup {End, Ghost}
Styles == {"incremental", "full"}

ASSUME GraphAssumption ==
    /\ {End, Ghost} \cap Node = {} /\ End # Ghost
    /\ First \in Place
    /\ Route \in [Node -> SUBSET Place]
    /\ Gate \subseteq Node /\ Mapped \subseteq Node
    /\ Style \in [Node -> SUBSET Styles]
    /\ MaxAttempts \in [Node -> Nat \ {0}]
    /\ RecursionLimit \in Nat
    /\ Shared \in BOOLEAN
    /\ MaxCalls \in Nat /\ MaxCrashes \in Nat

ASSUME NoneAssumption ==
    /\ None \notin Thread
    /\ None \notin [trace : Seq(Node), log : Seq(Node), next : Place]
    /\ None \notin [trace : Seq(Node), next : Place]

VARIABLES
    store,    \* the checkpoint rows of graph_state: durable
    inv,      \* the live call of each worker: volatile
    streams,  \* the generator of StateGraph.stream each worker holds: volatile
    asked,    \* history: gates whose GraphInterrupt was raised, not yet passed
    ran,      \* history: times each node ran to its end, per thread
    aborted,  \* history: calls that ended by an exception or a crash
    calls,    \* calls made so far
    crashes   \* crashes so far

history == <<asked, ran, aborted, calls, crashes>>
vars == <<store, inv, streams, asked, ran, aborted, calls, crashes>>

-----------------------------------------------------------------------------
(* Data *)

\* A row of graph_state, and the local variables of one invoke.
Checkpoint == [trace : Seq(Node), log : Seq(Node), next : Place]

Call == [pc      : {"idle", "top", "node", "returned"},
         thread  : Thread \cup {None},
         cur     : Place,
         nxt     : Place,
         trace   : Seq(Node),
         log     : Seq(Node),
         skip    : BOOLEAN,
         resumed : BOOLEAN,
         execs   : Nat,
         attempt : Nat]

Quiet == [pc |-> "idle", thread |-> None, cur |-> End, nxt |-> End,
          trace |-> <<>>, log |-> <<>>, skip |-> FALSE, resumed |-> FALSE,
          execs |-> 0, attempt |-> 0]

\* The local variables of one generator, suspended after a node.
Stream == [on : BOOLEAN, cur : Place, trace : Seq(Node), log : Seq(Node), execs : Nat]

Closed == [on |-> FALSE, cur |-> End, trace |-> <<>>, log |-> <<>>, execs |-> 0]

\* The list update a node returns, and what StateGraph.merge makes of it.
Update(n, log, style) == IF style = "full" THEN Append(log, n) ELSE <<n>>

\* Mutation of Merge: a full list is appended too.
MergeAlwaysAppends(existing, value) == existing \o value

Merge(existing, value) ==
    IF IsPrefix(existing, value) THEN value ELSE existing \o value

Snapshot(c, next) == [trace |-> c.trace, log |-> c.log, next |-> next]

\* No live call works on thread t.
Unused(t) == \A w \in Worker : inv[w].thread # t

Init ==
    /\ store = [t \in Thread |-> None]
    /\ inv = [w \in Worker |-> Quiet]
    /\ streams = [w \in Worker |-> Closed]
    /\ asked = [t \in Thread |-> {}]
    /\ ran = [t \in Thread |-> [n \in Node |-> 0]]
    /\ aborted = [t \in Thread |-> 0]
    /\ calls = 0
    /\ crashes = 0

-----------------------------------------------------------------------------
(* The two entry points.  A caller in src/ draws a new checkpoint id for   *)
(* every first invoke; with Shared = TRUE callers may also reuse one, or   *)
(* work on one at the same time, which nothing in the code prevents.       *)

Begin(w, t, cur, trace, log, resumed) ==
    /\ inv[w].pc = "idle"
    /\ calls < MaxCalls
    /\ calls' = calls + 1
    /\ inv' = [inv EXCEPT ![w] =
                 [Quiet EXCEPT !.pc = "top", !.thread = t, !.cur = cur,
                               !.trace = trace, !.log = log,
                               !.skip = resumed, !.resumed = resumed]]
    /\ UNCHANGED <<store, asked, ran, aborted, crashes>>

Invoke(w, t) ==
    /\ Shared \/ (store[t] = None /\ Unused(t))
    /\ Begin(w, t, First, <<>>, <<>>, FALSE)

\* Mutations of Resume: the saved node is ignored; so is the saved trace.
ResumeAtFirst(w, t) ==
    /\ store[t] # None
    /\ Shared \/ Unused(t)
    /\ Begin(w, t, First, store[t].trace, store[t].log, TRUE)

ResumeFromScratch(w, t) ==
    /\ store[t] # None
    /\ Shared \/ Unused(t)
    /\ Begin(w, t, First, <<>>, <<>>, TRUE)

Resume(w, t) ==
    /\ store[t] # None
    /\ Shared \/ Unused(t)
    /\ Begin(w, t, store[t].next, store[t].trace, store[t].log, TRUE)

-----------------------------------------------------------------------------
(* The loop *)

Stop(w) == inv' = [inv EXCEPT ![w] = Quiet]

\* The call ends by an exception: what it held in memory is gone.
Abort(w) ==
    /\ Stop(w)
    /\ aborted' = [aborted EXCEPT ![inv[w].thread] = @ + 1]

\* The checks at the top of the loop, in their order.
Runnable(c) == c.cur \in Node /\ c.execs < RecursionLimit

Halted(c) == c.cur \in Gate /\ ~c.skip

Finish(w) ==
    /\ inv[w].pc = "top" /\ inv[w].cur = End
    /\ Stop(w)
    /\ UNCHANGED <<store, history>>

Refuse(w) ==
    /\ inv[w].pc = "top" /\ inv[w].cur # End
    /\ ~Runnable(inv[w])
    /\ Abort(w)
    /\ UNCHANGED <<store, asked, ran, calls, crashes>>

Interrupt(w) ==
    LET c == inv[w] IN
    /\ c.pc = "top" /\ Runnable(c) /\ Halted(c)
    /\ store' = [store EXCEPT ![c.thread] = Snapshot(c, c.cur)]
    /\ asked' = [asked EXCEPT ![c.thread] = @ \cup {c.cur}]
    /\ Stop(w)
    /\ UNCHANGED <<ran, aborted, calls, crashes>>

\* Mutation of StartNode: skip_interrupt is never reset.
StartNodeKeepsSkip(w) ==
    LET c == inv[w] IN
    /\ c.pc = "top" /\ Runnable(c) /\ ~Halted(c)
    /\ inv' = [inv EXCEPT ![w] = [c EXCEPT !.pc = "node", !.execs = @ + 1, !.attempt = 1]]
    /\ UNCHANGED <<store, history>>

StartNode(w) ==
    LET c == inv[w] IN
    /\ c.pc = "top" /\ Runnable(c) /\ ~Halted(c)
    /\ inv' = [inv EXCEPT ![w] = [c EXCEPT !.pc = "node", !.skip = FALSE,
                                           !.execs = @ + 1, !.attempt = 1]]
    /\ UNCHANGED <<store, history>>

\* The node's function returns; _next_node merges and picks the destination.
NodeReturns(w) ==
    LET c == inv[w] IN
    /\ c.pc = "node"
    /\ \E n \in Route[c.cur], style \in Style[c.cur] :
         inv' = [inv EXCEPT ![w] =
                   [c EXCEPT !.pc = "returned", !.nxt = n,
                             !.log = Merge(@, Update(c.cur, @, style))]]
    /\ ran' = [ran EXCEPT ![c.thread][c.cur] = @ + 1]
    /\ UNCHANGED <<store, asked, aborted, calls, crashes>>

\* Mutation of NodeRetries: the attempt counter starts over.
NodeRetriesAnew(w) ==
    LET c == inv[w] IN
    /\ c.pc = "node"
    /\ inv' = [inv EXCEPT ![w].attempt = IF @ < MaxAttempts[c.cur] THEN @ + 1 ELSE 0]
    /\ UNCHANGED <<store, history>>

\* A retry exception with attempts left.
NodeRetries(w) ==
    LET c == inv[w] IN
    /\ c.pc = "node" /\ c.attempt < MaxAttempts[c.cur]
    /\ inv' = [inv EXCEPT ![w].attempt = @ + 1]
    /\ UNCHANGED <<store, history>>

\* Any other exception, or the last attempt's.
NodeRaises(w) ==
    /\ inv[w].pc = "node"
    /\ Abort(w)
    /\ UNCHANGED <<store, asked, ran, calls, crashes>>

\* The node ran, but its selector answered a key the route map lacks.
UnknownRoute(w) ==
    LET c == inv[w] IN
    /\ c.pc = "node" /\ c.cur \in Mapped
    /\ Abort(w)
    /\ ran' = [ran EXCEPT ![c.thread][c.cur] = @ + 1]
    /\ UNCHANGED <<store, asked, calls, crashes>>

\* Mutations of Record: the row names the node that just ran; the row is built
\* before the trace is extended.
RecordCurrent(w) ==
    LET c == inv[w]
        d == [c EXCEPT !.pc = "top", !.cur = c.nxt,
                       !.trace = Append(@, c.cur), !.attempt = 0]
    IN
    /\ c.pc = "returned"
    /\ inv' = [inv EXCEPT ![w] = d]
    /\ store' = [store EXCEPT ![c.thread] = Snapshot(d, c.cur)]
    /\ asked' = [asked EXCEPT ![c.thread] = @ \ {c.cur}]
    /\ UNCHANGED <<ran, aborted, calls, crashes>>

RecordEarly(w) ==
    LET c == inv[w]
        d == [c EXCEPT !.pc = "top", !.cur = c.nxt,
                       !.trace = Append(@, c.cur), !.attempt = 0]
    IN
    /\ c.pc = "returned"
    /\ inv' = [inv EXCEPT ![w] = d]
    /\ store' = [store EXCEPT ![c.thread] = Snapshot(c, c.nxt)]
    /\ asked' = [asked EXCEPT ![c.thread] = @ \ {c.cur}]
    /\ UNCHANGED <<ran, aborted, calls, crashes>>

\* Trace, checkpoint, and on to the next node.
Record(w) ==
    LET c == inv[w]
        d == [c EXCEPT !.pc = "top", !.cur = c.nxt,
                       !.trace = Append(@, c.cur), !.attempt = 0]
    IN
    /\ c.pc = "returned"
    /\ inv' = [inv EXCEPT ![w] = d]
    /\ store' = [store EXCEPT ![c.thread] = Snapshot(d, c.nxt)]
    /\ asked' = [asked EXCEPT ![c.thread] = @ \ {c.cur}]
    /\ UNCHANGED <<ran, aborted, calls, crashes>>

\* DurableStore.put raises: busy database, or a state JSON cannot encode.
StoreFails(w) ==
    LET c == inv[w] IN
    /\ c.pc = "returned" \/ (c.pc = "top" /\ Runnable(c) /\ Halted(c))
    /\ Abort(w)
    /\ UNCHANGED <<store, asked, ran, calls, crashes>>

Crash(w) ==
    /\ inv[w].pc # "idle"
    /\ crashes < MaxCrashes
    /\ crashes' = crashes + 1
    /\ Abort(w)
    /\ streams' = [streams EXCEPT ![w] = Closed]
    /\ UNCHANGED <<store, asked, ran, calls>>

Step(w) ==
    \/ Finish(w) \/ Refuse(w) \/ Interrupt(w) \/ StartNode(w)
    \/ NodeReturns(w) \/ NodeRetries(w) \/ NodeRaises(w) \/ UnknownRoute(w)
    \/ Record(w) \/ StoreFails(w)

-----------------------------------------------------------------------------
(* The store and the streams *)

\* DurableStore.delete, by a caller who is done with the thread.
Delete(t) ==
    /\ store[t] # None
    /\ Shared \/ Unused(t)
    /\ store' = [store EXCEPT ![t] = None]
    /\ asked' = [asked EXCEPT ![t] = {}]
    /\ ran' = [ran EXCEPT ![t] = [n \in Node |-> 0]]
    /\ aborted' = [aborted EXCEPT ![t] = 0]
    /\ UNCHANGED <<inv, streams, calls, crashes>>

OpenStream(w) ==
    /\ ~streams[w].on /\ calls < MaxCalls
    /\ calls' = calls + 1
    /\ streams' = [streams EXCEPT ![w] =
                   [on |-> TRUE, cur |-> First, trace |-> <<>>, log |-> <<>>, execs |-> 0]]
    /\ UNCHANGED <<store, inv, asked, ran, aborted, crashes>>

\* The consumer asks for one more node: no gate is checked, nothing is stored.
StreamNode(w) ==
    LET s == streams[w] IN
    /\ s.on /\ s.cur \in Node /\ s.execs < RecursionLimit
    /\ \E n \in Route[s.cur], style \in Style[s.cur] :
         streams' = [streams EXCEPT ![w] =
                       [s EXCEPT !.cur = n, !.trace = Append(@, s.cur), !.execs = @ + 1,
                                 !.log = Merge(@, Update(s.cur, @, style))]]
    /\ UNCHANGED <<store, inv, history>>

\* END, an exception, an unknown node, the limit; or the consumer is content.
CloseStream(w) ==
    /\ streams[w].on
    /\ streams' = [streams EXCEPT ![w] = Closed]
    /\ UNCHANGED <<store, inv, history>>

Next ==
    \/ \E w \in Worker, t \in Thread : (Invoke(w, t) \/ Resume(w, t)) /\ UNCHANGED streams
    \/ \E w \in Worker : Step(w) /\ UNCHANGED streams
    \/ \E w \in Worker : Crash(w) \/ OpenStream(w) \/ StreamNode(w) \/ CloseStream(w)
    \/ \E t \in Thread : Delete(t)

Spec == Init /\ [][Next]_vars

\* Node functions end, and a started call is not suspended for ever; nothing
\* makes the consumer of a stream go on.
FairSpec == Spec /\ \A w \in Worker : WF_vars(Step(w) /\ UNCHANGED streams)

-----------------------------------------------------------------------------
(* Properties *)

\* Every variable has its type: graph_state rows, locals of invoke, counters.
TypeOK ==
    /\ store \in [Thread -> Checkpoint \cup {None}]
    /\ inv \in [Worker -> Call]
    /\ streams \in [Worker -> Stream]
    /\ asked \in [Thread -> SUBSET Node]
    /\ ran \in [Thread -> [Node -> Nat]]
    /\ aborted \in [Thread -> Nat]
    /\ calls \in Nat /\ crashes \in Nat

\* A walk of the graph: from First along Route, with `next' still to run.
IsWalk(trace, next) ==
    IF trace = <<>> THEN next = First
    ELSE /\ trace[1] = First
         /\ \A i \in 1 .. Len(trace) - 1 : trace[i + 1] \in Route[trace[i]]
         /\ next \in Route[trace[Len(trace)]]

\* Whatever crashes, failures and concurrent calls happened, a checkpoint
\* holds one walk of the graph and the node that is really next on it: resume
\* never continues from a mixture of two calls (invoke, _checkpoint).  What a
\* stream has yielded is such a walk as well, within its limit.
PathIsWalk ==
    /\ \A t \in Thread : store[t] # None => IsWalk(store[t].trace, store[t].next)
    /\ \A w \in Worker : inv[w].pc # "idle" => IsWalk(inv[w].trace, inv[w].cur)
    /\ \A w \in Worker : streams[w].on =>
          /\ IsWalk(streams[w].trace, streams[w].cur)
          /\ Len(streams[w].trace) <= RecursionLimit

\* The list the nodes extended is the list of nodes that ran: StateGraph.merge
\* neither drops nor doubles an element, in either update style, and a stream
\* shows its consumer the same list a call would store.
LogIsTrace ==
    /\ \A t \in Thread : store[t] # None => store[t].log = store[t].trace
    /\ \A w \in Worker : inv[w].pc \in {"top", "node"} => inv[w].log = inv[w].trace
    /\ \A w \in Worker : streams[w].log = streams[w].trace

\* The graphs for which merge is right: unless First may lead straight back to
\* itself and returns increments, whose second one looks like a full list.
MergeIsSafe ==
    (First \in Node /\ First \in Route[First]) => Style[First] \subseteq {"full"}

\* A gated node starts only as the very first node of a call of resume: one
\* resume never carries a caller through a second interrupt_before boundary.
GateHonoured ==
    [][\A w \in Worker :
         (inv[w].pc = "top" /\ inv'[w].pc = "node" /\ inv[w].cur \in Gate)
            => inv[w].resumed /\ inv[w].execs = 0]_vars

\* Where no two calls share a thread, the store is never behind nor ahead of
\* the one live call: its row is what that call holds, up to the node that is
\* running (a first invoke has no row before its first node is recorded).
InStep(row, c) ==
    IF row = None
    THEN c.trace = <<>> /\ ~c.resumed
    ELSE /\ row.trace = c.trace /\ row.next = c.cur
         /\ c.pc # "returned" => row.log = c.log

CheckpointIsCurrent ==
    \A w \in Worker : inv[w].pc # "idle" => InStep(store[inv[w].thread], inv[w])

\* How often a node occurs in what the store remembers of a thread.
Recorded(t, n) ==
    IF store[t] = None THEN 0
    ELSE Cardinality({i \in DOMAIN store[t].trace : store[t].trace[i] = n})

Returned(t) == {w \in Worker : inv[w].pc = "returned" /\ inv[w].thread = t}

\* A node is never recorded without having run, and runs again only where a
\* call of that thread was cut off by an exception or a crash: resume repeats
\* the pending node and nothing that is already in the checkpoint.
OncePerLoss ==
    \A t \in Thread, n \in Node :
        /\ Recorded(t, n) <= ran[t][n]
        /\ ran[t][n] <= Recorded(t, n) + aborted[t] + Cardinality(Returned(t))

\* Every call ends, on a cyclic graph too: the recursion limit and
\* max_attempts bound the work of one call (its nodes are assumed to return).
Terminates == \A w \in Worker : inv[w].pc # "idle" ~> inv[w].pc = "idle"

\* What the checkpoints promise without the loop, its workers and its crashes.
Walk == INSTANCE CheckpointWalk WITH
          row <- [t \in Thread |->
                    IF store[t] = None THEN None
                    ELSE [trace |-> store[t].trace, next |-> store[t].next]]

ImplementsWalk == Walk!Spec

\* docs/SOPHYANE_21_GRAPH_RUNTIME.md:14 promises "Interrupt-before boundaries
\* for human approval": a gated node would start only after GraphInterrupt was
\* raised for it.  The code does not keep this.
GateAnnounced ==
    [][\A w \in Worker :
         (inv[w].pc = "top" /\ inv'[w].pc = "node" /\ inv[w].cur \in Gate)
            => inv[w].cur \in asked[inv[w].thread]]_vars

\* What the code keeps of it, where no two calls share a thread: a gated node
\* starts unannounced only where an earlier call of its thread was cut off, by an
\* exception or a crash, before it came to the gate.
GateMissedOnlyAfterLoss ==
    [][\A w \in Worker :
         LET c == inv[w] IN
         (c.pc = "top" /\ inv'[w].pc = "node" /\ c.cur \in Gate \ asked[c.thread])
            => aborted[c.thread] > 0]_vars
=============================================================================
