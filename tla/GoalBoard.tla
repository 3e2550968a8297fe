------------------------------ MODULE GoalBoard ------------------------------
(***************************************************************************)
(* What the goal runtime promises to those who read its report: a goal is  *)
(* tried over proven dependencies and only so often, it counts as proven   *)
(* when a validator saw its evidence, what is given up stays so and takes  *)
(* with it what is built on it, and no run ends while a goal is tried.     *)
(* Priorities, passes, batches, cycles and checkpoints are not seen.       *)
(***************************************************************************)
EXTENDS Naturals, FiniteSets

CONSTANTS Goals, Deps, Required, Limit, Touches, Threads

VARIABLES
    view,      \* view[g]: "open", "trying", "left" half tried, "proven" or "lost"
    tries,     \* tries[g]: how often g was tried
    evidence,  \* evidence[g]: would the validator of g pass?
    said       \* "busy", or what the last run said: "done" or "rest"

Ready(g) == \A d \in Deps[g] : view[d] = "proven"
Trying == {g \in Goals : view[g] = "trying"}

Init ==
    /\ view = [g \in Goals |-> "open"] /\ tries = [g \in Goals |-> 0]
    /\ evidence \in [Goals -> BOOLEAN] /\ said = "rest"

\* What is open behind something lost may be lost; all else but S stays.
Spread(S) ==
    \A g \in Goals \ S :
        \/ view'[g] = view[g]
        \/ view[g] = "open" /\ view'[g] = "lost" /\ \E d \in Deps[g] : view'[d] = "lost"

\* A run goes on, or ends: not while a goal is tried, and it is done with all
\* required goals proven.
GoesOn ==
    /\ said = "busy"
    /\ said' # "busy" => Trying' = {}
    /\ said' = "done" => \A g \in Required : view'[g] = "proven"

Begin ==
    /\ said # "busy" /\ said' = "busy"
    /\ Spread({})
    /\ UNCHANGED <<tries, evidence>>

Sweep ==
    /\ GoesOn /\ Spread({})
    /\ UNCHANGED <<tries, evidence>>

Try(g) ==
    /\ GoesOn /\ Cardinality(Trying) < Threads
    /\ view[g] = "open" /\ Ready(g) /\ tries[g] < Limit[g]
    /\ view'[g] = "trying" /\ Spread({g})
    /\ tries' = [tries EXCEPT ![g] = @ + 1]
    /\ UNCHANGED evidence

Act(g) ==
    /\ view[g] = "trying"
    /\ \A h \in Goals \ Touches[g] : evidence'[h] = evidence[h]
    /\ UNCHANGED <<view, tries, said>>

\* The verdict on a goal that was tried, or, when none is, on any other.
Judge(g) ==
    /\ GoesOn
    /\ view[g] = "trying" \/ (Trying = {} /\ view[g] # "lost")
    /\ Ready(g)
    /\ \/ view'[g] = "proven" /\ evidence[g]
       \/ view'[g] = "open" /\ (view[g] = "trying" => tries[g] < Limit[g])
       \/ view'[g] = "lost"
    /\ Spread({g})
    /\ UNCHANGED <<tries, evidence>>

\* The try broke off, and no one will say how it went.
Leave(g) ==
    /\ GoesOn /\ view[g] = "trying"
    /\ view' = [view EXCEPT ![g] = "left"]
    /\ UNCHANGED <<tries, evidence>>

Next ==
    \/ Begin \/ Sweep
    \/ \E g \in Goals : Try(g) \/ Act(g) \/ Judge(g) \/ Leave(g)

Spec == Init /\ [][Next]_<<view, tries, evidence, said>>
=============================================================================
