--------------------------- MODULE MCCredentials ---------------------------
(***************************************************************************)
(* Credentials for TLC: ids of accounts and of grants are interchangeable. *)
(***************************************************************************)
EXTENDS Credentials, TLC

Symmetry == Permutations(User) \cup Permutations(Grant)

\* The accounts that have something to present, or are about to.
Using == {row.user : row \in db.sessions \cup db.keys \cup db.codes \cup db.grants}
         \cup ({request[r].user : r \in Request} \ {None})

\* Bound: the last secret is drawn only where one account uses the system, and
\* has no API token.
Bound ==
  /\ drawn < MaxSecret \/ (db.keys = {} /\ \A a, b \in Using : a = b)
  /\ \A k, l \in db.keys : k = l
=============================================================================
