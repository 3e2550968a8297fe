--------------------------- MODULE MCServiceFabric ---------------------------
(* Instances of ServiceFabric for TLC, and the order of its _order. *)
EXTENDS ServiceFabric, TLC, SequencesExt

CONSTANTS base, mid, leaf, full, small

-----------------------------------------------------------------------------
(* _order: the depth-first walk over services in declaration order, with the *)
(* dependencies deps[s] of each in theirs.  A cycle raises.                  *)


\* visit(s), with the result so far and whether a cycle was met.
RECURSIVE Visit(_, _, _, _)
Visit(deps, walk, visiting, s) ==
    IF walk.raised \/ s \in ToSet(walk.result) THEN walk
    ELSE IF s \in visiting THEN [walk EXCEPT !.raised = TRUE]
    ELSE LET below == FoldLeft(LAMBDA w, d : Visit(deps, w, visiting \cup {s}, d), walk, deps[s])
         IN IF below.raised THEN below ELSE [below EXCEPT !.result = Append(@, s)]

DepthFirst(declared, deps) ==
    FoldLeft(LAMBDA w, s : Visit(deps, w, {}, s), [result |-> <<>>, raised |-> FALSE], declared)

\* On every graph of three services and with every order of declaration, the
\* walk raises exactly on a cycle and otherwise returns each service once,
\* after its dependencies.
Cyclic(deps) ==
    \E S \in (SUBSET DOMAIN deps) \ {{}} : \A s \in S : ToSet(deps[s]) \cap S # {}

ASSUME OrderIsTopological ==
    LET S == {base, mid, leaf}
        Dependencies == UNION {SetToSeqs(D) : D \in SUBSET S}
    IN \A declared \in SetToSeqs(S), deps \in [S -> Dependencies] :
           LET walk == DepthFirst(declared, deps)
           IN /\ walk.raised <=> Cyclic(deps)
              /\ ~walk.raised =>
                     /\ IsInjective(walk.result) /\ ToSet(walk.result) = S
                     /\ \A i \in DOMAIN walk.result :
                            ToSet(deps[walk.result[i]]) \subseteq ToSet(SubSeq(walk.result, 1, i - 1))

-----------------------------------------------------------------------------
\* Two services on one base, declared before it; the small manifest has one
\* of them.  base always comes back, mid when it failed, leaf never.
Chain == base :> <<>> @@ mid :> <<base>> @@ leaf :> <<mid, base>>
Manifest == full :> <<leaf, base, mid>> @@ small :> <<mid, base>>

ChainOrder == full :> <<base, mid, leaf>> @@ small :> <<base, mid>>

ASSUME OrderIsDepthFirst ==
    \A m \in {full, small} : ChainOrder[m] = DepthFirst(Manifest[m], Chain).result

ChainDeps == base :> ToSet(Chain[base]) @@ mid :> ToSet(Chain[mid]) @@ leaf :> ToSet(Chain[leaf])
ChainPolicy == base :> "always" @@ mid :> "on-failure" @@ leaf :> "no"
=============================================================================
