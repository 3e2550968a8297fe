----------------------------- MODULE AtomicPatch -----------------------------
(***************************************************************************)
(* What the application boundary promises to the owner of the repository:  *)
(* an approved patch is begun once, over files that are what it was made   *)
(* for, and ends by changing all of its files at once or none of them.     *)
(* Other files change by the user's hand only.  There are no processes,    *)
(* locks, temporary files, half written files or crashes at this level.    *)
(***************************************************************************)
CONSTANTS Request, File, Paths, Patch, Text

VARIABLES
    file,      \* the text of each file, as committed
    state,     \* what became of each request
    approved   \* requests the human approved

vars == <<file, state, approved>>

Init ==
    /\ file = [f \in File |-> "base"]
    /\ state = [r \in Request |-> "none"]
    /\ approved = {}

Approve(r) ==
    /\ approved' = approved \cup {r}
    /\ UNCHANGED <<file, state>>

\* Files of a patch that is under way are not the user's.
Edit(f, text) ==
    /\ \A r \in Request : state[r] = "applying" => f \notin Paths[r]
    /\ file' = [file EXCEPT ![f] = text]
    /\ UNCHANGED <<state, approved>>

Begin(r) ==
    /\ r \in approved /\ state[r] = "none"
    /\ \A f \in Paths[r] : file[f] = "base"
    /\ state' = [state EXCEPT ![r] = "applying"]
    /\ UNCHANGED <<file, approved>>

\* All of the patch ...
Apply(r) ==
    /\ state[r] = "applying"
    /\ state' = [state EXCEPT ![r] = "applied"]
    /\ file' = [f \in File |-> IF f \in Paths[r] THEN Patch[r] ELSE file[f]]
    /\ UNCHANGED approved

\* ... or nothing.
RollBack(r) ==
    /\ state[r] = "applying"
    /\ state' = [state EXCEPT ![r] = "rolled_back"]
    /\ UNCHANGED <<file, approved>>

Next ==
    \/ \E r \in Request : Approve(r) \/ Begin(r) \/ Apply(r) \/ RollBack(r)
    \/ \E f \in File, text \in Text : Edit(f, text)

Spec == Init /\ [][Next]_vars

=============================================================================
