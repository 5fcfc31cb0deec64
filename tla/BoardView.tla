----------------------------- MODULE BoardView -----------------------------
(***************************************************************************)
(* What the browser makes of the board (web/src/lib/board.ts, dragdrop.ts, *)
(* web/src/components/Board.svelte): the order it shows, the requests it   *)
(* sends for a drop and a button, and the rows it shows until the answer.  *)
(*                                                                         *)
(* The browser's positions are fractions.  Here they are twice the         *)
(* server's, so that the mean of two is a whole number.                    *)
(***************************************************************************)
EXTENDS Stories

Doubled(p) == [t \in DOMAIN p |-> 2 * p[t]]

\* Those of a list that are in a set, in the order of the list.
Those(ids, wanted) ==
  LET kept[n \in 0..Len(ids)] ==
        IF n = 0 THEN <<>>
        ELSE IF ids[n] \in wanted THEN Append(kept[n - 1], ids[n]) ELSE kept[n - 1]
  IN  kept[Len(ids)]

Without(ids, some) == Those(ids, {ids[i] : i \in DOMAIN ids} \ some)

-----------------------------------------------------------------------------
(* What is shown *)

\* The stories of a panel that can be dragged, by position.
sectionStories(tbl, p, sec) ==
  LET rows == {t \in DOMAIN tbl : /\ ~tbl[t].trashed
                                  /\ SectionOf(tbl[t].state) = sec
                                  /\ tbl[t].state # "accepted"}
  IN  [i \in 1..Cardinality(rows) |->
         CHOOSE t \in rows : Cardinality(Preceding(p, rows, t)) = i - 1]

canDrop(row, target) ==
  row.state # "accepted" /\ (row.state \in InProgress => target = "current")

\* The checked stories in the order of the board.
orderedSelection(checked) ==
  LET some(sec) == Those(sectionStories(story, pos, sec), checked)
  IN  some("icebox") \o some("backlog") \o some("current")

nextActions(row) ==
  CASE row.state \in {"icebox", "backlog", "unstarted"} -> {"started"}
    [] row.state = "rejected"  -> {"started"}
    [] row.state = "started"   -> {"finished"}
    [] row.state = "finished"  -> {"delivered"}
    [] row.state = "delivered" -> {"accepted", "rejected"}
    [] row.state = "accepted"  -> {}

needsEstimate(row) == row.type = "feature" /\ row.points = None

\* The buttons of a row: the workflow's, or those to estimate it first.
Buttons(row) == IF needsEstimate(row) THEN {} ELSE nextActions(row)

-----------------------------------------------------------------------------
(* Requests *)

Neighbour(ids, i) == IF i \in DOMAIN ids THEN ids[i] ELSE None

\* Slip: the stories that move are still in the list.
SlipBulkMoveRequest(orderedIds, moving, newIndex) ==
  [prev |-> Neighbour(orderedIds, newIndex),
   next |-> Neighbour(orderedIds, newIndex + 1), bottom |-> FALSE]

\* The neighbours at an index of the list without the stories that move;
\* moveRequest is the case of one.
bulkMoveRequest(orderedIds, moving, newIndex) ==
  LET ids   == Without(orderedIds, moving)
      index == IF newIndex < Len(ids) THEN newIndex ELSE Len(ids)
  IN  [prev |-> Neighbour(ids, index), next |-> Neighbour(ids, index + 1),
       bottom |-> FALSE]

moveRequest(orderedIds, moved, newIndex) ==
  bulkMoveRequest(orderedIds, {moved}, newIndex)

\* What a drop sends: the checked stories all go when the dragged one is among
\* them, and the index is the one among the rows without the dragged one.
onDrop(s, checked, sec, index) ==
  LET shown == sectionStories(story, pos, sec)
      ids   == orderedSelection(checked)
  IN  IF s \in checked /\ Cardinality(checked) > 1
      THEN [ids |-> ids,
            at  |-> bulkMoveRequest(shown, {ids[i] : i \in DOMAIN ids}, index)]
      ELSE [ids |-> <<s>>, at |-> moveRequest(shown, s, index)]

-----------------------------------------------------------------------------
(* What is shown until the answer *)

\* The row at once between its new neighbours.
applyMove(moved, sec, newIndex) ==
  LET p      == Doubled(pos)
      target == Without(sectionStories(story, p, sec), {moved})
      index  == IF newIndex < Len(target) THEN newIndex ELSE Len(target)
      prev   == Neighbour(target, index)
      next   == Neighbour(target, index + 1)
      position == CASE prev = None /\ next = None -> 0
                    [] prev = None /\ next # None -> p[next] - 2
                    [] prev # None /\ next = None -> p[prev] + 2
                    [] prev # None /\ next # None -> (p[prev] + p[next]) \div 2
  IN  [story |-> [story EXCEPT ![moved].state =
                    IF SectionOf(@) = sec THEN @ ELSE EntryState(sec)],
       pos   |-> [p EXCEPT ![moved] = position]]

\* The row at once in its new state, below everything if it joins the panel.
applyState(s, state) ==
  LET p        == Doubled(pos)
      current  == sectionStories(story, p, "current")
      joins    == /\ state \in InProgress \cup {"accepted"}
                  /\ SectionOf(story[s].state) # "current"
      position == CHOOSE n \in {0} \cup {p[current[i]] : i \in DOMAIN current} :
                    n >= 0 /\ \A i \in DOMAIN current : n >= p[current[i]]
  IN  [story |-> [story EXCEPT ![s].state   = state,
                               ![s].stamped = state = "accepted"],
       pos   |-> IF joins THEN [p EXCEPT ![s] = position + 2] ELSE p]

-----------------------------------------------------------------------------
(* What the server makes of it *)

\* The board after MoveMany took `ids' to a slot, or Move the only one of them.
Answered(ids, sec, at) ==
  LET board[n \in 0..Len(ids)] ==
        IF n = 0 THEN [story |-> story, pos |-> pos]
        ELSE LET s    == ids[n]
                 b    == board[n - 1]
                 rows == Scope(b.story, sec) \ {s}
                 slot == IF n = 1 THEN at ELSE After(ids[n - 1])
             IN  [story |-> [b.story EXCEPT ![s] = Dragged(s, sec)],
                  pos   |-> Placed(b.pos, rows, s, Below(b.pos, rows, slot))]
  IN  board[Len(ids)]

Shown(board, sec) == sectionStories(board.story, board.pos, sec)

\* What the browser lets the user drop, the server takes; the rows end up where
\* they were dropped, a group of them in the order of the board; and a single
\* row is shown there at once, in the state it will have, unless its two
\* neighbours have the same position.  For a group, none of it may be above the
\* drop in the same panel: the index the group is dropped at counts those, and
\* the list it is looked up in has them no more (board.ts:67-98, 186-204,
\* Board.svelte:336-352).
DropsLandWhereDropped ==
  tx = None =>
    \A s \in DOMAIN story, sec \in Panels :
    \A checked \in {c \in SUBSET DOMAIN story : s \in c} :
      LET others == Without(sectionStories(story, pos, sec), {s})
      IN  \A index \in 0..Len(others) :
            LET drop  == onDrop(s, checked, sec, index)
                group == {drop.ids[i] : i \in DOMAIN drop.ids}
                above == SubSeq(others, 1, index)
                below == SubSeq(others, index + 1, Len(others))
                there == above \o drop.ids \o Without(below, group)
                guess == applyMove(s, sec, index)
            IN  (/\ \A t \in group : ~story[t].trashed /\ canDrop(story[t], sec)
                 /\ s \in group
                 /\ \A i \in DOMAIN above : above[i] \notin group)
                => /\ \A t \in group : Movable(t, sec)
                   /\ Anchored(Scope(story, sec) \ group, drop.at)
                   /\ Shown(Answered(drop.ids, sec, drop.at), sec) = there
                   /\ group = {s} =>
                        /\ guess.story = Answered(drop.ids, sec, drop.at).story
                        /\ \/ Shown(guess, sec) = there
                           \/ /\ 0 < index /\ index < Len(others)
                              /\ pos[others[index]] = pos[others[index + 1]]

\* A button the browser shows is a step the server takes, and the row is at once
\* where it will be and in the state it will have (board.ts:105-142,
\* story.go:406-446).
ButtonsShowWhatComes ==
  tx = None =>
    \A s \in {t \in DOMAIN story : ~story[t].trashed} :
    \A state \in Buttons(story[s]) :
      LET guess  == applyState(s, state)
          rows   == Scope(story, "current") \ {s}
          placed == Placed(pos, rows, s, Below(pos, rows, Bottom))
      IN  /\ state \in transitions[story[s].state]
          /\ ~LacksEstimate(story[s].type, story[s].points, state)
          /\ guess.story[s].stamped = Stamp(story[s], state)
          /\ Shown(guess, "current") =
               sectionStories(guess.story,
                              IF SectionOf(story[s].state) = "current" THEN pos
                                                                       ELSE placed,
                              "current")

\* The two together: the board shows at once what the answer will say.
BoardForetells == DropsLandWhereDropped /\ ButtonsShowWhatComes
=============================================================================
