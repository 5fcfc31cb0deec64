------------------------------ MODULE Stories ------------------------------
(***************************************************************************)
(* The stories of one project: workflow state, estimate and order          *)
(* (src/internal/story/story.go, states.go, position.go), and the project  *)
(* option that lets bugs and chores carry points.                          *)
(*                                                                         *)
(* Every operation of the service runs in one SQLite transaction that      *)
(* takes the write lock when it begins, so it is one action here.  The     *)
(* exception is MoveMany, whose loop is modelled one story at a time with  *)
(* the write lock held (tx): an error in the middle rolls everything back, *)
(* and the process may stop there.  A request the code refuses changes     *)
(* nothing and is no step.                                                 *)
(***************************************************************************)
EXTENDS Positions, Sequences

CONSTANTS
  Story,        \* ids of story rows: a finite set of positive integers
  User,         \* the users who act and own stories
  Keep,         \* an optional field a request leaves out
  Estimates,    \* the point scale
  Types,        \* story types in use
  Asked,        \* the states requests ask for
  Sections,     \* the panels requests name
  Owners,       \* the owners requests name
  Batches,      \* the id lists MoveMany is called with
  ByAdmin,      \* whether requests come from an administrator: some of BOOLEAN
  Options,      \* the values requests give estimate_bugs_and_chores
  PosMin, PosMax, \* bounds of the model: positions stay in PosMin..PosMax
  CounterMod    \* bound of the model: Rebalances is kept modulo this

States == {"icebox", "backlog", "unstarted", "started", "finished",
           "delivered", "accepted", "rejected"}
Panels == {"icebox", "backlog", "current"}

ASSUME StoryAssumption ==
  /\ IsFiniteSet(Story) /\ Story \subseteq Nat \ {0}
  /\ None \notin Story /\ None \notin Panels
  /\ None \notin User /\ None \notin Estimates
  /\ Keep \notin User /\ Keep \notin Estimates /\ Keep # None
  /\ Types \subseteq {"feature", "bug", "chore"}
  /\ Asked \subseteq States
  /\ Sections \subseteq Panels
  /\ Owners \subseteq User \cup {None}
  /\ ByAdmin \subseteq BOOLEAN
  /\ Options \subseteq BOOLEAN
  /\ Batches \subseteq Seq(Story)
  /\ PosMin \in Int /\ PosMax \in Int
  /\ CounterMod \in Nat \ {0}

VARIABLES
  story,       \* the rows of table stories, by id, without the position
  pos,         \* column position, by id
  pointsOnAll, \* projects.estimate_bugs_and_chores
  rebalances,  \* Service.Rebalances: in memory, modulo CounterMod
  tx           \* the MoveMany transaction in progress, or None

vars == <<story, pos, pointsOnAll, rebalances, tx>>

Row == [state : States, type : Types, points : Estimates \cup {None},
        owner : User \cup {None}, stamped : BOOLEAN, trashed : BOOLEAN]

\* What tx can be.
Transaction ==
  [todo : Seq(Story), done : Seq(Story), section : Sections, at : Placement(Story),
   story : UNION {[rows -> Row] : rows \in SUBSET Story},
   pos : UNION {[rows -> Int] : rows \in SUBSET Story}]

ASSUME NoTransactionAssumption == None \notin Transaction
-----------------------------------------------------------------------------
(* The workflow (states.go) *)

transitions ==
  [icebox    |-> {"backlog", "unstarted", "started"},
   backlog   |-> {"icebox", "unstarted", "started"},
   unstarted |-> {"icebox", "backlog", "started"},
   started   |-> {"finished", "unstarted"},
   finished  |-> {"delivered", "started"},
   delivered |-> {"accepted", "rejected"},
   rejected  |-> {"started"},
   accepted  |-> {"delivered"}]

SectionOf(st) == IF st \in {"icebox", "backlog"} THEN st ELSE "current"


OrderedStates(sec) ==
  IF sec = "current"
  THEN {"unstarted", "started", "finished", "delivered", "rejected"}
  ELSE {sec}

\* Slip: a panel taken for a state.
SlipEntryState(sec) == sec

EntryState(sec) == IF sec = "current" THEN "unstarted" ELSE sec

InProgress == {"started", "finished", "delivered", "rejected"}

-----------------------------------------------------------------------------
(* Table operations *)

\* The rows of one ordering scope (ListSectionPositions).
Scope(tbl, sec) ==
  {t \in DOMAIN tbl : ~tbl[t].trashed /\ tbl[t].state \in OrderedStates(sec)}

\* SQLite's next INTEGER PRIMARY KEY: one more than the largest in the table.
\* The id of a purged row comes back when it was the largest.
IsNextId(id) ==
  /\ \A t \in DOMAIN story : t < id
  /\ id = 1 \/ id - 1 \in DOMAIN story

WithRow(s, row) ==
  [t \in DOMAIN story \cup {s} |-> IF t = s THEN row ELSE story[t]]

Only(tbl, rows) == [t \in rows |-> tbl[t]]

\* Story s takes the slot `at' of a panel (place, then the save of the row).
Place(s, sec, at) ==
  LET rows == Scope(story, sec) \ {s}
  IN  /\ Anchored(rows, at)
      /\ pos' = Placed(pos, rows, s, Below(pos, rows, at))
      /\ \A t \in DOMAIN pos' : pos'[t] \in PosMin..PosMax

\* Slip: nobody counts.
SlipCountRebalance(s, sec, at) == UNCHANGED rebalances

\* place says whether it spread the scope out; Move and MoveMany count that.
CountRebalance(s, sec, at) ==
  LET rows  == Scope(story, sec) \ {s}
      below == Below(pos, rows, at)
  IN  rebalances' = IF HasRoom(pos, below, rows \ below) THEN rebalances
                    ELSE (rebalances + 1) % CounterMod
-----------------------------------------------------------------------------
(* Operations of one transaction *)

Create(id, sec, type, points, owner, after) ==
  /\ tx = None
  /\ IsNextId(id)
  /\ points # None => type = "feature" \/ pointsOnAll
  /\ Place(id, sec, IF after # None THEN After(after)
                    ELSE IF sec = "icebox" THEN Top ELSE Bottom)
  /\ story' = WithRow(id, [state |-> EntryState(sec), type |-> type,
                           points |-> points, owner |-> owner,
                           stamped |-> FALSE, trashed |-> FALSE])
  /\ UNCHANGED <<pointsOnAll, rebalances, tx>>

\* Slip: only the step to started asks for the estimate.
SlipLacksEstimate(type, points, state) ==
  type = "feature" /\ points = None /\ state = "started"

\* "a feature needs an estimate before it can be started"
LacksEstimate(type, points, state) ==
  type = "feature" /\ points = None /\ state \in InProgress \cup {"accepted"}

\* Slip: an accepted story's estimate may change.
SlipRewritesHistory(old, type, points) == type # old.type

\* What an accepted story refuses.
RewritesHistory(old, type, points) == type # old.type \/ points # old.points

\* accepted_at: set on the way in, cleared on the way out.
Stamp(old, state) ==
  IF old.state # state /\ "accepted" \in {old.state, state}
  THEN state = "accepted" ELSE old.stamped

\* Update by actor.  type and state may be the current ones; points and owner
\* may be Keep (left out) or None (cleared).
Update(s, actor, isAdmin, type, points, owner, state) ==
  LET old       == story[s]
      from      == old.state
      asked     == IF points = Keep THEN old.points ELSE points
      newOwner  == IF owner = Keep THEN old.owner ELSE owner
      dropped   == type # "feature" /\ ~pointsOnAll
      row == [old EXCEPT
                !.state   = state,
                !.type    = type,
                !.points  = IF dropped THEN None ELSE asked,
                !.owner   = IF from # state /\ state = "started" /\ newOwner = None
                            THEN actor ELSE newOwner,
                !.stamped = Stamp(old, state)]
  IN  /\ tx = None
      /\ ~old.trashed
      /\ from = "accepted" => ~RewritesHistory(old, type, asked)
      /\ from # state => /\ state \in transitions[from]
                         /\ from = "accepted" => isAdmin
      /\ ~LacksEstimate(type, asked, state)
      /\ dropped => points \in {Keep, None}
      /\ IF SectionOf(from) # SectionOf(state)
         THEN Place(s, SectionOf(state), Bottom)
         ELSE UNCHANGED pos
      /\ story' = WithRow(s, row)
      /\ UNCHANGED <<pointsOnAll, rebalances, tx>>

\* Slip: work in progress may be dragged anywhere.
SlipMovable(s, sec) ==
  s \in DOMAIN story /\ ~story[s].trashed /\ story[s].state # "accepted"

\* The refusals Move and MoveMany share.
Movable(s, sec) ==
  /\ s \in DOMAIN story
  /\ ~story[s].trashed
  /\ story[s].state # "accepted"
  /\ story[s].state \in InProgress => sec = "current"

\* The row of a story dragged into a panel.
Dragged(s, sec) ==
  IF SectionOf(story[s].state) = sec THEN story[s]
  ELSE [story[s] EXCEPT !.state = EntryState(sec)]

Move(s, sec, at) ==
  /\ tx = None
  /\ Movable(s, sec)
  /\ story' = WithRow(s, Dragged(s, sec))
  /\ Place(s, sec, at)
  /\ CountRebalance(s, sec, at)
  /\ UNCHANGED <<pointsOnAll, tx>>

Delete(s) ==
  /\ tx = None
  /\ ~story[s].trashed
  /\ story' = [story EXCEPT ![s].trashed = TRUE]
  /\ UNCHANGED <<pos, pointsOnAll, rebalances, tx>>

\* Slip: a restored story takes its old position again.
SlipRestore(s) ==
  /\ tx = None
  /\ story[s].trashed
  /\ story' = [story EXCEPT ![s].trashed = FALSE]
  /\ UNCHANGED <<pos, pointsOnAll, rebalances, tx>>

\* Back to the bottom of the panel it was in; an accepted story keeps its
\* position.
Restore(s) ==
  /\ tx = None
  /\ story[s].trashed
  /\ story' = [story EXCEPT ![s].trashed = FALSE]
  /\ IF story[s].state = "accepted" THEN UNCHANGED pos
     ELSE Place(s, SectionOf(story[s].state), Bottom)
  /\ UNCHANGED <<pointsOnAll, rebalances, tx>>

\* ClearNonFeatureEstimates takes the points of every bug and chore, in the
\* trash and accepted ones included.
LosesPoints(row) == row.type # "feature"

\* project.Update as far as stories can tell.
SetPointsOnAll(on) ==
  /\ tx = None
  /\ pointsOnAll' = on
  /\ story' = [t \in DOMAIN story |->
                 IF pointsOnAll /\ ~on /\ LosesPoints(story[t])
                 THEN [story[t] EXCEPT !.points = None] ELSE story[t]]
  /\ UNCHANGED <<pos, rebalances, tx>>

-----------------------------------------------------------------------------
(* MoveMany, one story at a time under the write lock *)

\* "move between 1 and 200 stories at a time"
MaxIds == 200

BeginMoveMany(ids, sec, at) ==
  /\ tx = None
  /\ Len(ids) \in 1..MaxIds
  /\ \A i \in DOMAIN ids : ids[i] \notin {at.prev, at.next}
  /\ tx' = [todo |-> ids, done |-> <<>>, section |-> sec, at |-> at,
            story |-> story, pos |-> pos]
  /\ UNCHANGED <<story, pos, pointsOnAll, rebalances>>

Seen(s) == \E i \in DOMAIN tx.done : tx.done[i] = s

\* The first story goes where the caller asked, each next one right after the
\* one before it.
Slot == IF tx.done = <<>> THEN tx.at ELSE After(tx.done[Len(tx.done)])

MoveOne ==
  /\ tx # None
  /\ tx.todo # <<>>
  /\ LET s == Head(tx.todo)
     IN  \/ /\ Seen(s)
            /\ tx' = [tx EXCEPT !.todo = Tail(@)]
            /\ UNCHANGED <<story, pos, rebalances>>
         \/ /\ ~Seen(s)
            /\ Movable(s, tx.section)
            /\ Place(s, tx.section, Slot)
            /\ CountRebalance(s, tx.section, Slot)
            /\ story' = WithRow(s, Dragged(s, tx.section))
            /\ tx' = [tx EXCEPT !.todo = Tail(@), !.done = Append(@, s)]
  /\ UNCHANGED pointsOnAll

CommitMoveMany ==
  /\ tx # None
  /\ tx.todo = <<>>
  /\ tx' = None
  /\ UNCHANGED <<story, pos, pointsOnAll, rebalances>>

\* Slip: an error in the middle keeps what was moved so far.
SlipRollbackMoveMany ==
  /\ tx # None
  /\ tx' = None
  /\ UNCHANGED <<story, pos, pointsOnAll, rebalances>>

\* InTx rolls back on an error: the rows come back, the counter does not.
\* Besides the refusals, a statement may fail at any point.
RollbackMoveMany ==
  /\ tx # None
  /\ story' = tx.story
  /\ pos' = tx.pos
  /\ tx' = None
  /\ UNCHANGED <<pointsOnAll, rebalances>>

\* The process stops and starts again: SQLite forgets the open transaction,
\* the counter starts from 0, and serve purges the stories that have been in
\* the trash for too long.  How long each has been there is left open.
Restart ==
  LET disk == IF tx = None THEN story ELSE tx.story
      spos == IF tx = None THEN pos ELSE tx.pos
  IN  \E purged \in SUBSET {t \in DOMAIN disk : disk[t].trashed} :
        /\ story' = Only(disk, DOMAIN disk \ purged)
        /\ pos' = Only(spos, DOMAIN disk \ purged)
        /\ rebalances' = 0
        /\ tx' = None
        /\ UNCHANGED pointsOnAll

-----------------------------------------------------------------------------
Init ==
  /\ story = Only(<<>>, {})
  /\ pos = Only(<<>>, {})
  /\ pointsOnAll = FALSE
  /\ rebalances = 0
  /\ tx = None

\* The placements a move request can carry: prev_id, next_id or neither.
\* next_id is not looked at when there is a prev_id.
Drops == {at \in Placement(Story) : ~at.bottom /\ None \in {at.prev, at.next}}

Operation(s) ==
  \/ \E actor \in User, isAdmin \in ByAdmin, type \in Types,
        points \in Estimates \cup {None, Keep}, owner \in Owners \cup {Keep},
        state \in Asked \cup {story[s].state} :
       Update(s, actor, isAdmin, type, points, owner, state)
  \/ \E sec \in Sections, at \in Drops : Move(s, sec, at)
  \/ Delete(s)
  \/ Restore(s)

Next ==
  \/ \E id \in Story, sec \in Sections, type \in Types,
        points \in Estimates \cup {None}, owner \in Owners,
        after \in Story \cup {None} :
       Create(id, sec, type, points, owner, after)
  \/ \E s \in DOMAIN story : Operation(s)
  \/ \E on \in Options : SetPointsOnAll(on)
  \/ \E ids \in Batches, sec \in Sections, at \in Drops :
       BeginMoveMany(ids, sec, at)
  \/ MoveOne
  \/ CommitMoveMany
  \/ RollbackMoveMany
  \/ Restart

Spec == Init /\ [][Next]_vars
-----------------------------------------------------------------------------
(* Type invariant *)

IsTable(tbl) == DOMAIN tbl \subseteq Story /\ tbl \in [DOMAIN tbl -> Row]

IsTransaction(t) ==
  /\ t = [todo |-> t.todo, done |-> t.done, section |-> t.section, at |-> t.at,
          story |-> t.story, pos |-> t.pos]
  /\ t.todo \in Seq(Story)
  /\ t.done \in Seq(Story)
  /\ t.section \in Sections
  /\ t.at \in Placement(Story)
  /\ IsTable(t.story)
  /\ t.pos \in [DOMAIN t.story -> Int]

\* The rows and their positions, in the working tables and in the ones a
\* rollback brings back, have the columns of the schema.
TypeOK ==
  /\ IsTable(story)
  /\ pos \in [DOMAIN story -> Int]
  /\ pointsOnAll \in BOOLEAN
  /\ rebalances \in 0..CounterMod - 1
  /\ tx # None => IsTransaction(tx)

-----------------------------------------------------------------------------
(* Safety: the workflow *)

\* What readers outside the transaction see.
Committed    == IF tx = None THEN story ELSE tx.story
CommittedPos == IF tx = None THEN pos ELSE tx.pos

\* A feature that is being worked on or accepted has an estimate, whatever
\* mix of type, estimate and state changes brought it there (story.go:443-445).
Estimated(tbl) ==
  \A s \in DOMAIN tbl :
    tbl[s].type = "feature" /\ tbl[s].state \in InProgress \cup {"accepted"}
      => tbl[s].points # None

\* While the project does not allow points on bugs and chores none has any, in
\* the trash and among the accepted stories too, so velocity never counts
\* them (projects.sql:31-36, story.go:446-460).
PointsAllowed(tbl) ==
  ~pointsOnAll => \A s \in DOMAIN tbl : tbl[s].type # "feature" => tbl[s].points = None

\* accepted_at is set exactly while a story is accepted, so that the lists of
\* active and done stories, which select on accepted_at, agree with the state.
StampedIffAccepted(tbl) ==
  \A s \in DOMAIN tbl : tbl[s].stamped <=> tbl[s].state = "accepted"

\* The three rules above hold of what is committed and of the rows a MoveMany
\* has in hand.
EstimatedInv == Estimated(story) /\ Estimated(Committed)
PointsAllowedInv == PointsAllowed(story) /\ PointsAllowed(Committed)
StampedInv == StampedIffAccepted(story) /\ StampedIffAccepted(Committed)

\* Whatever mix of type, estimate, state and project option the requests set, in
\* whatever order, no row is left in between: the three rules of points and
\* acceptance hold together, of what a rollback brings back too (story.go:379-470).
RowsKeepTheRules == EstimatedInv /\ PointsAllowedInv /\ StampedInv

\* An accepted story is frozen: until it is reopened its type and position do
\* not change, not even when its old panel is spread out again, and its points
\* only go when the project stops allowing them (story.go:379, 389, 499).
AcceptedFrozen ==
  [][\A s \in DOMAIN story \cap DOMAIN story' :
       story[s].state = "accepted" /\ story'[s].state = "accepted" =>
         /\ story'[s].type = story[s].type
         /\ pos'[s] = pos[s]
         /\ \/ story'[s].points = story[s].points
            \/ story[s].type # "feature" /\ pointsOnAll /\ ~pointsOnAll']_vars

\* Work in progress stays in the current iteration until someone sets it back
\* to unstarted: no drag, alone or in a batch, takes it out, trashed or not
\* (story.go:500, 971).
WorkStaysCurrent ==
  [][\A s \in DOMAIN Committed \cap DOMAIN Committed' :
       Committed[s].state \in InProgress =>
         SectionOf(Committed'[s].state) = "current"]_vars

-----------------------------------------------------------------------------
(* Safety: the order *)

OnBoard == {s \in DOMAIN Committed :
              ~Committed[s].trashed /\ Committed[s].state # "accepted"}

BoardPanel ==
  [s \in Story |-> IF s \in OnBoard THEN SectionOf(Committed[s].state) ELSE None]

BoardBefore ==
  {e \in OnBoard \X OnBoard :
     /\ SectionOf(Committed[e[1]].state) = SectionOf(Committed[e[2]].state)
     /\ Before(CommittedPos, e[1], e[2])}

\* The most stories a request of the model moves.
LongestBatch ==
  LET lengths == {1} \cup ({Len(ids) : ids \in Batches} \cap 1..MaxIds)
  IN  CHOOSE n \in lengths : \A m \in lengths : m <= n

Board == INSTANCE BoardOrder
           WITH Panel <- Panels, panel <- BoardPanel, before <- BoardBefore,
                MaxBlock <- LongestBatch

\* Sparse positions implement the board's order: each committed operation,
\* MoveMany as a whole included, puts one block of stories somewhere, no more
\* than the request names, or takes stories off the board, and no other two
\* stories change places.
ImplementsBoardOrder == Board!Spec

\* The stories `ids' are in panel sec at the slot `at' of the order before the
\* request, one after the other, and the rest of the panel is in that order still.
LandsAt(ids, sec, at) ==
  LET others == {t \in Scope(story', sec) : \A i \in DOMAIN ids : ids[i] # t}
      above  == IF at.prev # None
                THEN {t \in others : t = at.prev \/ Before(CommittedPos, t, at.prev)}
                ELSE IF at.next # None
                THEN {t \in others : Before(CommittedPos, t, at.next)}
                ELSE {}
  IN  /\ \A i \in DOMAIN ids : ids[i] \in Scope(story', sec)
      /\ \A i, j \in DOMAIN ids : i < j => Before(pos', ids[i], ids[j])
      /\ \A t \in others, i \in DOMAIN ids :
           Before(pos', t, ids[i]) <=> t \in above
      /\ \A t, u \in others : Before(pos', t, u) <=> Before(CommittedPos, t, u)

\* A dragged story lands exactly where it was dropped: right after prev, right
\* before next, or on top, with ties and a spread-out panel in between.
MoveLandsAt ==
  [][\A s \in DOMAIN story, sec \in Sections, at \in Drops :
       tx' = tx /\ Move(s, sec, at) => LandsAt(<<s>>, sec, at)]_vars

\* MoveMany is all or nothing.  However it ends, by its last step, an error or
\* the process stopping, either all its stories stand at the drop point as one
\* block in the order given, or every story that is left is as it was
\* (story.go:932-934).
MoveManyAllOrNothing ==
  [][tx # None /\ tx' = None =>
       \/ tx.todo = <<>> /\ LandsAt(tx.done, tx.section, tx.at)
       \/ /\ story' = Only(tx.story, DOMAIN story')
          /\ pos' = Only(tx.pos, DOMAIN story')]_vars

\* A story that joins a panel by a state change or from the trash does not
\* jump the queue; the one exception is a reopened story, which returns to
\* its old position (story.go:182-184, 425-431, 566-571).
JoinsAtTheBottom ==
  [][\A s \in DOMAIN story, sec \in Panels :
       /\ s \in Scope(story', sec) \ Scope(story, sec)
       /\ story[s].state # "accepted"
       /\ tx = None
       /\ ~\E to \in Sections, at \in Drops : Move(s, to, at)
       => \A t \in Scope(story', sec) \ {s} : Before(pos', t, s)]_vars

\* The rows a step writes a new position to.
Repositioned ==
  {t \in DOMAIN pos' : t \notin DOMAIN pos \/ pos'[t] # pos[t]}

\* A drag changes one row; when it changes more, the panel was spread out and
\* the counter says so (position.go:3-6).
OneRowPerMove ==
  [][/\ tx = None /\ tx' = None
     /\ DOMAIN pos' = DOMAIN pos
     /\ Cardinality(Repositioned) > 1
     => rebalances' = (rebalances + 1) % CounterMod]_vars
=============================================================================
