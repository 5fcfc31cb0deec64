----------------------------- MODULE BoardOrder -----------------------------
(***************************************************************************)
(* What the board promises about order, with no positions in it.  A story  *)
(* is in one panel or in none, and the stories of a panel are in a strict  *)
(* total order.  A request takes one group of stories to one place of one  *)
(* panel, where they end up next to each other, or takes stories off the   *)
(* board.  In both cases no other two stories change places, and no other  *)
(* story changes panel.                                                    *)
(*                                                                         *)
(* Stories.tla implements this with sparse integer positions.              *)
(***************************************************************************)
EXTENDS Naturals, FiniteSets

CONSTANTS
  Story,
  Panel,
  None,
  MaxBlock  \* the most stories one request moves

VARIABLES
  panel,   \* the panel each story is in, or None
  before   \* the pairs <<a, b>> of stories of one panel with a above b

vars == <<panel, before>>

-----------------------------------------------------------------------------
\* bf orders the stories of each panel of pl and relates no others.
Ordered(pl, bf) ==
  /\ \A a, b \in Story :
       <<a, b>> \in bf => pl[a] = pl[b] /\ pl[a] # None /\ <<b, a>> \notin bf
  /\ \A a, b \in Story :
       a # b /\ pl[a] = pl[b] /\ pl[a] # None => <<a, b>> \in bf \/ <<b, a>> \in bf
  /\ \A a, b, c \in Story :
       <<a, b>> \in bf /\ <<b, c>> \in bf => <<a, c>> \in bf

\* From one board to the next, the stories outside G keep panel and order.
SameOutside(G, pl, bf, plNew, bfNew) ==
  \A a \in Story \ G :
    /\ plNew[a] = pl[a]
    /\ \A b \in Story \ G : <<a, b>> \in bfNew <=> <<a, b>> \in bf

\* The group G is in panel p as one block: every other story of the panel is
\* above all of G or below all of G.
Block(G, p, pl, bf) ==
  /\ \A s \in G : pl[s] = p
  /\ \A t \in {t \in Story \ G : pl[t] = p} :
       \/ \A s \in G : <<t, s>> \in bf
       \/ \A s \in G : <<s, t>> \in bf

Step(pl, bf, plNew, bfNew) ==
  /\ plNew \in [Story -> Panel \cup {None}]
  /\ bfNew \in SUBSET (Story \X Story)
  /\ Ordered(plNew, bfNew)
  /\ \E G \in (SUBSET Story) \ {{}} :
       /\ SameOutside(G, pl, bf, plNew, bfNew)
       /\ \/ Cardinality(G) <= MaxBlock /\ \E p \in Panel : Block(G, p, plNew, bfNew)
          \/ \A s \in G : plNew[s] = None

\* A board in any order, as a server finds it.
Init ==
  /\ panel \in [Story -> Panel \cup {None}]
  /\ before \in SUBSET (Story \X Story)
  /\ Ordered(panel, before)

\* The values are bound before they are compared, so that a refinement mapping is
\* worked out once for each step.
Next ==
  \E pl \in {panel}, bf \in {before}, plNew \in {panel'}, bfNew \in {before'} :
    Step(pl, bf, plNew, bfNew)

Spec == Init /\ [][Next]_vars
=============================================================================
