----------------------------- MODULE MCDetails -----------------------------
(***************************************************************************)
(* Details for TLC; ids of rows are interchangeable, but for those of      *)
(* tasks, which order them.  Planning is checked along with it: the two    *)
(* have nothing in common, so its requests come while nothing else is.     *)
(***************************************************************************)
EXTENDS Details, Planning, TLC

Symmetry == Permutations(Project) \cup Permutations(Story) \cup Permutations(Label)

\* Bound: no filters where there are tasks, which they have nothing to do with.
Bound == filters = {} \/ tasks = {}

MCInit == Init /\ PlanningInit

MCNext ==
  \/ asked = {} /\ Next /\ UNCHANGED asked
  \/ Init /\ PlanningNext /\ UNCHANGED vars

MCSpec == MCInit /\ [][MCNext]_<<vars, asked>>
=============================================================================
