------------------------------ MODULE MCAccess ------------------------------
(***************************************************************************)
(* Access on small instances.  Accounts and requests have no order, so     *)
(* states that differ by their names only are one.  Operations, which is   *)
(* about the installation and not about who uses it, is checked along with *)
(* it: one of the two moves while the other has not begun, Operations      *)
(* where there are no accounts yet.                                        *)
(***************************************************************************)
EXTENDS Access, Operations

Symmetry == Permutations(User) \cup Permutations(Request)

MCInit == Init /\ OperationsInit

MCNext ==
  \/ OperationsInit /\ Next /\ UNCHANGED operationsVars
  \/ DOMAIN account = {} /\ OperationsNext /\ UNCHANGED vars

MCSpec == MCInit /\ [][MCNext]_<<vars, operationsVars>>
=============================================================================
