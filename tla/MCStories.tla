----------------------------- MODULE MCStories -----------------------------
(* Values of the constants of Stories for model checking. *)
EXTENDS BoardView

CONSTANTS MaxBatch, MaxStory

StoryIds == 1..MaxStory

\* Lists of at most MaxBatch ids, repeated ids included.
IdLists == UNION {[1..n -> StoryIds] : n \in 1..MaxBatch}

-----------------------------------------------------------------------------
(* A board in use: two delivered bugs around an unstarted one.  Accepting   *)
(* and reopening the first two is what brings equal positions about.        *)

BugRow(st) == [state |-> st, type |-> "bug", points |-> None, owner |-> None,
               stamped |-> FALSE, trashed |-> FALSE]

InUse ==
  /\ story = <<BugRow("delivered"), BugRow("unstarted"), BugRow("delivered")>>
  /\ pos = <<Gap, 2 * Gap, 3 * Gap>>
  /\ pointsOnAll = FALSE
  /\ rebalances = 0
  /\ tx = None

InUseSpec == InUse /\ [][Next]_vars
=============================================================================
