------------------------------ MODULE Blockers ------------------------------
(***************************************************************************)
(* "Blocked by": which stories wait on which (src/internal/story/tasks.go, *)
(* setBlockers and reaches), and how the waiting is shown, for one story   *)
(* (load) and in lists (List).  The stories are those of all projects, as  *)
(* the table holds them; of a story's state only "accepted" matters here,  *)
(* and whether that was in the current iteration.                          *)
(*                                                                         *)
(* A request is one transaction under the write lock and so one action.    *)
(* reaches is a depth-first search that gives up below depth MaxDepth.  It *)
(* is defined by the walks it finds, without recursion, so that it can be  *)
(* proved about.                                                           *)
(***************************************************************************)
EXTENDS Integers, FiniteSets

CONSTANTS
  Story,        \* ids of story rows: a finite set of positive integers
  Project,      \* the projects
  MaxDepth,     \* the depth below which reaches gives up (50 in the code)
  MaxBlockers   \* the longest "blocked by" list (20 in the code)

ASSUME BlockersAssumption ==
  /\ IsFiniteSet(Story) /\ Story \subseteq Nat \ {0}
  /\ MaxDepth \in Nat
  /\ MaxBlockers \in Nat

VARIABLES
  story,  \* the rows of table stories, by id
  waits   \* table story_blockers: <<s, b>> when story s waits on story b

vars == <<story, waits>>

\* accepted_at: not set, in the current iteration, or before it.
Acceptance == {"no", "now", "past"}

Row == [project : Project, accepted : Acceptance, trashed : BOOLEAN]

-----------------------------------------------------------------------------
(* The search *)

BlockersOf(s) == {b \in Story : <<s, b>> \in waits}

\* The walks of n steps along "waits on" that start at story a.
Walks(a, n) ==
  {w \in [0..n -> Story] : /\ w[0] = a
                           /\ \A i \in 1..n : <<w[i - 1], w[i]>> \in waits}

\* Slip: only the blockers themselves are looked at.
SlipReaches(from, target) == target \in BlockersOf(from)

\* Is `from' (transitively) blocked by `target'?  A chain that is too long
\* counts as a yes.
Reaches(from, target) ==
  \/ \E n \in 1..MaxDepth + 1 : \E w \in Walks(from, n) : w[n] = target
  \/ Walks(from, MaxDepth + 1) # {}

-----------------------------------------------------------------------------
(* Operations *)

\* What setBlockers asks of the new list of story s, a row of project p.
Allowed(s, p, ids) ==
  /\ s \notin ids
  /\ \A b \in ids : /\ b \in DOMAIN story
                    /\ ~story[b].trashed
                    /\ story[b].project = p
                    /\ ~Reaches(b, s)
  /\ Cardinality(ids) <= MaxBlockers

Replaced(s, ids) == {e \in waits : e[1] # s} \cup ({s} \X ids)

IsNextId(id) ==
  /\ \A t \in DOMAIN story : t < id
  /\ id = 1 \/ id - 1 \in DOMAIN story

Create(id, p, ids) ==
  /\ IsNextId(id)
  /\ Allowed(id, p, ids)
  /\ story' = [t \in DOMAIN story \cup {id} |->
                 IF t = id THEN [project |-> p, accepted |-> "no", trashed |-> FALSE]
                           ELSE story[t]]
  /\ waits' = Replaced(id, ids)

\* Update with blocked_by.
SetBlockers(s, ids) ==
  /\ ~story[s].trashed
  /\ Allowed(s, story[s].project, ids)
  /\ waits' = Replaced(s, ids)
  /\ UNCHANGED story

\* Blockers never prevent a state change.
Accept(s) ==
  /\ ~story[s].trashed
  /\ story[s].accepted = "no"
  /\ story' = [story EXCEPT ![s].accepted = "now"]
  /\ UNCHANGED waits

Reopen(s) ==
  /\ ~story[s].trashed
  /\ story[s].accepted # "no"
  /\ story' = [story EXCEPT ![s].accepted = "no"]
  /\ UNCHANGED waits

Delete(s) ==
  /\ ~story[s].trashed
  /\ story' = [story EXCEPT ![s].trashed = TRUE]
  /\ UNCHANGED waits

Restore(s) ==
  /\ story[s].trashed
  /\ story' = [story EXCEPT ![s].trashed = FALSE]
  /\ UNCHANGED waits

\* Slip: only the list of the removed story goes with it.
SlipRemove(rows) ==
  /\ story' = [t \in DOMAIN story \ rows |-> story[t]]
  /\ waits' = {e \in waits : e[1] \notin rows}

\* Rows go for good, and by ON DELETE CASCADE every line that names them.
Remove(rows) ==
  /\ story' = [t \in DOMAIN story \ rows |-> story[t]]
  /\ waits' = {e \in waits : e[1] \notin rows /\ e[2] \notin rows}

Purge(rows) == (\A s \in rows : story[s].trashed) /\ Remove(rows)

DeleteProject(p) == Remove({s \in DOMAIN story : story[s].project = p})

\* The current iteration ends.
NextIteration ==
  /\ story' = [s \in DOMAIN story |->
                 IF story[s].accepted = "now" THEN [story[s] EXCEPT !.accepted = "past"]
                                              ELSE story[s]]
  /\ UNCHANGED waits

-----------------------------------------------------------------------------
(* What is shown *)

\* Slip: stories in the trash still block.
SlipShownBlockers(s) == BlockersOf(s)

\* load: the blockers of one story, and whether it is blocked.
ShownBlockers(s) == {b \in BlockersOf(s) : ~story[b].trashed}

ShownBlocked(s) == \E b \in ShownBlockers(s) : story[b].accepted = "no"

\* List, for a list of rows.  A blocker that is not among the rows is taken to
\* be done or deleted.
SlipListedBlocked(rows, s) == BlockersOf(s) \cap rows # {}

ListedBlocked(rows, s) == \E b \in BlockersOf(s) \cap rows : story[b].accepted = "no"

\* The rows of the board of project p: everything not accepted before the
\* current iteration.
BoardRows(p) ==
  {s \in DOMAIN story : /\ story[s].project = p
                        /\ ~story[s].trashed
                        /\ story[s].accepted # "past"}

-----------------------------------------------------------------------------
Init ==
  /\ story = [s \in {} |-> {}]
  /\ waits = {}

Operation(s) ==
  \/ \E ids \in SUBSET Story : SetBlockers(s, ids)
  \/ Accept(s)
  \/ Reopen(s)
  \/ Delete(s)
  \/ Restore(s)

Next ==
  \/ \E id \in Story, p \in Project, ids \in SUBSET Story : Create(id, p, ids)
  \/ \E s \in DOMAIN story : Operation(s)
  \/ \E rows \in SUBSET DOMAIN story : Purge(rows)
  \/ \E p \in Project : DeleteProject(p)
  \/ NextIteration

Spec == Init /\ [][Next]_vars
-----------------------------------------------------------------------------
(* Properties *)

\* The columns of the schema and its foreign keys: both ends of a line exist.
TypeOK ==
  /\ DOMAIN story \subseteq Story
  /\ story \in [DOMAIN story -> Row]
  /\ waits \subseteq (DOMAIN story) \X (DOMAIN story)

\* No story waits on itself, however long the chain: in every set of stories one
\* waits on no other of the set.  Edges of trashed stories count, because a
\* restore brings them back (tasks.go:132-133).
NoCycle ==
  \A S \in (SUBSET Story) \ {{}} : \E s \in S : \A b \in S : <<s, b>> \notin waits

\* A story only ever waits on stories of its own project, also after a purge
\* whose ids SQLite has given to stories of other projects (tasks.go:132).
WithinProject ==
  \A e \in waits :
    e[1] \in DOMAIN story /\ e[2] \in DOMAIN story
      => story[e[1]].project = story[e[2]].project

\* The lines "blocked by" are sound: no cycles, and none between projects.
EdgesAreSound == NoCycle /\ WithinProject

\* Everyone waiting on everyone is impossible: while a project has open stories,
\* one of them is not blocked.
SomeoneCanProceed ==
  \A p \in Project :
    LET open == {s \in DOMAIN story : /\ story[s].project = p
                                      /\ ~story[s].trashed
                                      /\ story[s].accepted = "no"}
    IN  open # {} => \E s \in open : ~ShownBlocked(s)

\* On the board a story is marked blocked exactly when it is, although List only
\* looks at the rows of the board: what has left it is done or deleted
\* (story.go:321).
BoardShowsBlocked ==
  \A p \in Project : \A s \in BoardRows(p) : ListedBlocked(BoardRows(p), s) <=> ShownBlocked(s)
=============================================================================
