--------------------------- MODULE MCGraphRuntime ---------------------------
(* Instances of GraphRuntime for TLC. *)
EXTENDS GraphRuntime, TLC

CONSTANTS draft, revise, publish, w1, w2

\* A review loop: draft leads to revise, which may go back to draft, leave by a
\* route the map lacks, or go on to publish, whose Command may name no node.
LoopNodes == {draft, revise, publish}
LoopRoute == draft :> {revise} @@ revise :> {draft, revise, publish} @@ publish :> {End, Ghost}
LoopStyle == draft :> {"incremental", "full"} @@ revise :> {"incremental"} @@ publish :> {"full"}
LoopAttempts == draft :> 1 @@ revise :> 2 @@ publish :> 1

\* The example of docs/SOPHYANE_21_GRAPH_RUNTIME.md: one node that routes to
\* itself until its selector answers "done".
AgainNodes == {draft}
AgainRoute == draft :> {draft, End}
AgainStyle == draft :> {"incremental"}
AgainAttempts == draft :> 1

Workers == Permutations({w1, w2})
=============================================================================
