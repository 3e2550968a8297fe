------------------------- MODULE MCCompetitiveApply -------------------------
(* Instances of CompetitiveApply for TLC. *)
EXTENDS CompetitiveApply, TLC

CONSTANTS p1, p2, r1, r2, f1, f2, f3

\* Two candidates of one repository that share no file: what one changes belongs
\* to the repository the other must find untouched.
ApartPaths == r1 :> {f1, f2} @@ r2 :> {f3}
ApartPatch == r1 :> "one" @@ r2 :> "two"

\* Two candidates where r1 changes the file r2 changes and another one; f3, where
\* there is one, stands for everything no patch names.
NestedPaths == r1 :> {f1, f2} @@ r2 :> {f1}
NestedPatch == r1 :> "one" @@ r2 :> "two"

\* One candidate.
SinglePaths == r1 :> {f1, f2}
SinglePatch == r1 :> "one"

Procs == Permutations({p1, p2})
=============================================================================
