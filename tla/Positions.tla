----------------------------- MODULE Positions -----------------------------
(***************************************************************************)
(* Sparse integer positions (src/internal/story/position.go) and the slot  *)
(* computation of place (src/internal/story/story.go).                     *)
(*                                                                         *)
(* A table column of positions is a function pos from story ids to         *)
(* integers.  The rows of one ordering scope are a set of ids, read back   *)
(* "ORDER BY position, id".  A slot between two rows is the set `below' of *)
(* the rows that come before it, so `index' of the code is the cardinality *)
(* of `below', and the neighbours are the last row of `below' and the      *)
(* first of the others.                                                    *)
(***************************************************************************)
EXTENDS Integers, FiniteSets

CONSTANTS
  Gap,    \* distance between freshly normalized positions (2^16 in the code)
  None    \* the nil of optional ids

ASSUME GapAssumption == Gap \in Nat /\ Gap >= 2

-----------------------------------------------------------------------------
(* The order of a scope *)

\* ORDER BY position, id
Before(pos, a, b) == pos[a] < pos[b] \/ (pos[a] = pos[b] /\ a < b)

Preceding(pos, rows, a) == {b \in rows : Before(pos, b, a)}

First(pos, S) == CHOOSE a \in S : \A b \in S \ {a} : Before(pos, a, b)

Last(pos, S) == CHOOSE a \in S : \A b \in S \ {a} : Before(pos, b, a)

-----------------------------------------------------------------------------
(* Between and Normalize *)

HasRoom(pos, below, above) ==
  \/ below = {}
  \/ above = {}
  \/ pos[First(pos, above)] - pos[Last(pos, below)] >= 2

Between(pos, below, above) ==
  CASE below = {} /\ above = {} -> Gap
    [] below = {} /\ above # {} -> pos[First(pos, above)] - Gap
    [] below # {} /\ above = {} -> pos[Last(pos, below)] + Gap
    [] below # {} /\ above # {} ->
         pos[Last(pos, below)]
           + (pos[First(pos, above)] - pos[Last(pos, below)]) \div 2

\* Slip: the rows are numbered in the order of their ids.
SlipNormalize(pos, rows) ==
  [t \in DOMAIN pos |->
     IF t \in rows THEN Gap * (Cardinality({r \in rows : r < t}) + 1) ELSE pos[t]]

Normalize(pos, rows) ==
  [t \in DOMAIN pos |->
     IF t \in rows THEN Gap * (Cardinality(Preceding(pos, rows, t)) + 1)
                   ELSE pos[t]]

-----------------------------------------------------------------------------
(* place *)

\* A placement asks for a slot: right after prev, else right before next,
\* else the bottom, else the top.
Placement(ids) ==
  [prev : ids \cup {None}, next : ids \cup {None}, bottom : BOOLEAN]

After(s)  == [prev |-> s, next |-> None, bottom |-> FALSE]
Bottom    == [prev |-> None, next |-> None, bottom |-> TRUE]
Top       == [prev |-> None, next |-> None, bottom |-> FALSE]

\* The named neighbour must be a row of the scope.
Anchored(rows, at) ==
  IF at.prev # None THEN at.prev \in rows
                    ELSE at.next # None => at.next \in rows

\* Slip: the slot after prev is off by one.
SlipBelow(pos, rows, at) ==
  IF at.prev # None THEN Preceding(pos, rows, at.prev)
  ELSE IF at.next # None THEN Preceding(pos, rows, at.next)
  ELSE IF at.bottom THEN rows ELSE {}

Below(pos, rows, at) ==
  IF at.prev # None THEN Preceding(pos, rows, at.prev) \cup {at.prev}
  ELSE IF at.next # None THEN Preceding(pos, rows, at.next)
  ELSE IF at.bottom THEN rows ELSE {}

\* The positions after story s took the slot above `below' among `rows' (the
\* scope without s): one row changes, unless the slot is full and the scope
\* is first spread out again.
Placed(pos, rows, s, below) ==
  LET base == IF HasRoom(pos, below, rows \ below) THEN pos
                                                   ELSE Normalize(pos, rows)
  IN  [t \in DOMAIN pos \cup {s} |->
         IF t = s THEN Between(base, below, rows \ below) ELSE base[t]]
=============================================================================
