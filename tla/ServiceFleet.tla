----------------------------- MODULE ServiceFleet -----------------------------
(***************************************************************************)
(* What the service fabric promises to those who run services with it: a   *)
(* service is out, up or ended; there is one process of it; it is brought  *)
(* up over its dependencies; a call that returns leaves what it was asked  *)
(* for, and one that fails is followed by the end of all - but for a       *)
(* service that was being brought up when the user cut the call: that one  *)
(* may stray, up and in nobody's hands.  Processes, the table and the      *)
(* order of the walks are not seen.                                        *)
(***************************************************************************)
CONSTANTS Services, Deps, Policy

VARIABLES
    state,    \* state[s]: "out", "up", or how the process of s ended
    stray,    \* services with a process that is up and that the fleet lost
    call,     \* what the fabric is at
    wanted    \* services of the manifest it was last given

Known == {s \in Services : state[s] # "out"}

Init ==
    /\ state = [s \in Services |-> "out"] /\ stray = {}
    /\ call = "none" /\ wanted = {}

Ask ==
    /\ call = "none"
    /\ call' \in {"start", "reconcile"} /\ wanted' \in SUBSET Services
    /\ UNCHANGED <<state, stray>>

AskStop ==
    /\ call = "none" /\ call' = "stop"
    /\ UNCHANGED <<state, stray, wanted>>

\* The policy brings back what has ended.
ComesBack(s) ==
    \/ Policy[s] = "always" /\ state[s] \in {"clean", "failed"}
    \/ Policy[s] = "on-failure" /\ state[s] = "failed"

BringUp(s) ==
    /\ s \in wanted /\ state[s] # "up"
    /\ \A d \in Deps[s] : state[d] # "out"
    /\ call = "start" \/ (call = "reconcile" /\ (state[s] = "out" \/ ComesBack(s)))
    /\ state' = [state EXCEPT ![s] = "up"]
    /\ UNCHANGED <<stray, call, wanted>>

\* What is not wanted goes, and at the end all do.
TakeOut(s) ==
    /\ state[s] # "out"
    /\ call = "stop" \/ (call = "reconcile" /\ s \notin wanted)
    /\ state' = [state EXCEPT ![s] = "out"]
    /\ UNCHANGED <<stray, call, wanted>>

Answer ==
    /\ \/ call = "start" /\ wanted \subseteq Known
       \/ call = "reconcile" /\ wanted = Known
    /\ call' = "none"
    /\ UNCHANGED <<state, stray, wanted>>

\* The one that could not be brought back is out then.
Fail ==
    /\ call \in {"start", "reconcile"} /\ call' = "stop"
    /\ \/ UNCHANGED state
       \/ \E s \in wanted : /\ call = "reconcile" /\ ComesBack(s)
                            /\ state' = [state EXCEPT ![s] = "out"]
    /\ UNCHANGED <<stray, wanted>>

\* The user cuts the call while s is brought up: the fleet is left with what
\* it had of s before, and the new process strays if it lives.
Cut(s) ==
    /\ call \in {"start", "reconcile"} /\ call' = "stop"
    /\ s \in wanted /\ state[s] # "out"
    /\ \E how \in {"out", "clean", "failed"} : state' = [state EXCEPT ![s] = how]
    /\ stray' = IF state[s] = "up" THEN {s} ELSE {}
    /\ UNCHANGED wanted

\* A stop ends with everything down, or it breaks off.
Over ==
    /\ call = "stop"
    /\ \/ Known = {} /\ call' = "stopped"
       \/ call' = "broken"
    /\ UNCHANGED <<state, stray, wanted>>

End(s) ==
    /\ state[s] = "up"
    /\ \E how \in {"clean", "failed"} : state' = [state EXCEPT ![s] = how]
    /\ UNCHANGED <<stray, call, wanted>>

StrayEnds ==
    /\ stray # {} /\ stray' = {}
    /\ UNCHANGED <<state, call, wanted>>

\* Another supervisor takes over and knows of nothing.
Renew ==
    /\ state' = [s \in Services |-> "out"] /\ stray' = {}
    /\ call' = "none" /\ wanted' = {}

Next ==
    \/ Ask \/ AskStop \/ Answer \/ Fail \/ Over \/ StrayEnds \/ Renew
    \/ \E s \in Services : BringUp(s) \/ TakeOut(s) \/ Cut(s) \/ End(s)

Spec == Init /\ [][Next]_<<state, stray, call, wanted>>
=============================================================================
