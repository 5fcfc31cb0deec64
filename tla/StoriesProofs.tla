--------------------------- MODULE StoriesProofs ---------------------------
(***************************************************************************)
(* Proofs about Stories for every set of stories, users, estimates and     *)
(* requests, and every Gap of at least 2.                                  *)
(*                                                                         *)
(* First the types and the rules of rows.  Then the placement algorithm of *)
(* Positions, for every finite scope and every column of integer           *)
(* positions, ties included: no two other rows change places, and the      *)
(* placed row lands in the slot.  Then what follows for the operations on  *)
(* the story table, one at a time and in batches.  Last the board: what    *)
(* the browser sends for a drop or a button, and what it shows meanwhile,  *)
(* as lists of rows.                                                       *)
(***************************************************************************)
EXTENDS BoardView, FiniteSetTheorems, SequenceTheorems, TLAPS

-----------------------------------------------------------------------------
(* Tables *)

\* Writing one row keeps a table a table.
LEMMA WithRowIsTable ==
  ASSUME IsTable(story), NEW s \in Story, NEW row \in Row
  PROVE  /\ IsTable(WithRow(s, row))
         /\ DOMAIN WithRow(s, row) = DOMAIN story \cup {s}
  BY DEF IsTable, WithRow

\* A placement writes an integer position for one more story.
LEMMA PlaceIsTyped ==
  ASSUME IsTable(story), pos \in [DOMAIN story -> Int],
         NEW s, NEW sec, NEW at, Place(s, sec, at)
  PROVE  pos' \in [DOMAIN story \cup {s} -> Int]
<1>1. DOMAIN pos = DOMAIN story
  OBVIOUS
<1>2. /\ pos' = [t \in DOMAIN pos' |-> pos'[t]]
      /\ DOMAIN pos' = DOMAIN story \cup {s}
  BY <1>1 DEF Place, Placed
<1>3. \A t \in DOMAIN pos' : pos'[t] \in PosMin..PosMax
  BY DEF Place
<1>4. PosMin..PosMax \subseteq Int
  BY StoryAssumption
<1>5. QED
  BY <1>2, <1>3, <1>4

\* Dropping rows keeps a table a table.
LEMMA OnlyIsTable ==
  ASSUME NEW tbl, IsTable(tbl), NEW ps \in [DOMAIN tbl -> Int], NEW rows,
         rows \subseteq DOMAIN tbl
  PROVE  /\ IsTable(Only(tbl, rows))
         /\ DOMAIN Only(tbl, rows) = rows
         /\ Only(ps, rows) \in [rows -> Int]
  BY DEF IsTable, Only

\* A drag only changes the state.
LEMMA DraggedIsRow ==
  ASSUME IsTable(story), NEW s, NEW sec \in Sections, Movable(s, sec)
  PROVE  s \in Story /\ Dragged(s, sec) \in Row
<1>1. s \in DOMAIN story /\ story[s] \in Row
  BY DEF Movable, IsTable
<1>2. EntryState(sec) \in States
  BY StoryAssumption DEF EntryState, Panels, States
<1>3. QED
  BY <1>1, <1>2 DEF Dragged, Row, IsTable

\* A transaction in hand is never taken for none.
LEMMA TransactionIsSome ==
  ASSUME NEW t, IsTransaction(t)
  PROVE  t # None
<1>1. t.story \in UNION {[rows -> Row] : rows \in SUBSET Story}
  BY DEF IsTransaction, IsTable
<1>2. t.pos \in UNION {[rows -> Int] : rows \in SUBSET Story}
  BY DEF IsTransaction, IsTable
<1>3. t \in Transaction
  BY <1>1, <1>2 DEF IsTransaction, Transaction
<1>4. QED
  BY <1>3, NoTransactionAssumption

-----------------------------------------------------------------------------
(* Type correctness *)

LEMMA CreateType ==
  ASSUME TypeOK, NEW id \in Story, NEW sec \in Sections, NEW type \in Types,
         NEW points \in Estimates \cup {None}, NEW owner \in Owners,
         NEW after \in Story \cup {None},
         Create(id, sec, type, points, owner, after)
  PROVE  TypeOK'
<1> DEFINE row == [state |-> EntryState(sec), type |-> type,
                   points |-> points, owner |-> owner,
                   stamped |-> FALSE, trashed |-> FALSE]
<1>1. row \in Row
  BY StoryAssumption DEF Row, EntryState, Panels, States
<1>2. story' = WithRow(id, row)
  BY DEF Create
<1>3. IsTable(story') /\ DOMAIN story' = DOMAIN story \cup {id}
  <2>1. IsTable(story)
    BY DEF TypeOK
  <2>2. QED
    BY <1>1, <1>2, <2>1, WithRowIsTable
<1>4. pos' \in [DOMAIN story \cup {id} -> Int]
  BY PlaceIsTyped DEF Create, TypeOK
<1>5. QED
  BY <1>3, <1>4 DEF Create, TypeOK

LEMMA UpdateType ==
  ASSUME TypeOK, NEW s \in DOMAIN story, NEW actor \in User, NEW isAdmin \in ByAdmin,
         NEW type \in Types, NEW points \in Estimates \cup {None, Keep},
         NEW owner \in Owners \cup {Keep}, NEW state \in Asked \cup {story[s].state},
         Update(s, actor, isAdmin, type, points, owner, state)
  PROVE  /\ TypeOK'
         /\ \E row \in Row : story' = WithRow(s, row)
<1> DEFINE old      == story[s]
           asked    == IF points = Keep THEN old.points ELSE points
           newOwner == IF owner = Keep THEN old.owner ELSE owner
           dropped  == type # "feature" /\ ~pointsOnAll
           newPoints == IF dropped THEN None ELSE asked
           takenBy  == IF old.state # state /\ state = "started" /\ newOwner = None
                       THEN actor ELSE newOwner
           row == [old EXCEPT !.state = state, !.type = type, !.points = newPoints,
                              !.owner = takenBy, !.stamped = Stamp(old, state)]
<1>1. s \in Story /\ old \in Row
  BY DEF TypeOK, IsTable
<1>2. state \in States /\ newPoints \in Estimates \cup {None}
  BY <1>1, StoryAssumption DEF Row
<1>3. takenBy \in User \cup {None}
  BY <1>1, StoryAssumption DEF Row
<1>4. Stamp(old, state) \in BOOLEAN
  BY <1>1 DEF Row, Stamp
<1>5. row \in Row
  BY <1>1, <1>2, <1>3, <1>4 DEF Row
<1>6. story' = WithRow(s, row)
  BY DEF Update
<1>7. IsTable(story') /\ DOMAIN story' = DOMAIN story
  <2> HIDE DEF row
  <2>1. IsTable(story)
    BY DEF TypeOK
  <2>2. IsTable(story') /\ DOMAIN story' = DOMAIN story \cup {s}
    BY <1>1, <1>5, <1>6, <2>1, WithRowIsTable
  <2>3. QED
    BY <2>2
<1>8. pos' \in [DOMAIN story -> Int]
  <2>1. CASE UNCHANGED pos
    BY <2>1 DEF TypeOK
  <2>2. CASE Place(s, SectionOf(state), Bottom)
    <3>1. pos' \in [DOMAIN story \cup {s} -> Int]
      BY <2>2, PlaceIsTyped DEF TypeOK
    <3>2. QED
      BY <3>1
  <2>3. QED
    BY <2>1, <2>2 DEF Update
<1>9. TypeOK'
  BY <1>7, <1>8 DEF Update, TypeOK
<1>10. QED
  BY <1>5, <1>6, <1>9

\* What Move and each step of MoveMany do to the tables.
LEMMA DragType ==
  ASSUME TypeOK, NEW s, NEW sec \in Sections, NEW at, Movable(s, sec),
         Place(s, sec, at), story' = WithRow(s, Dragged(s, sec))
  PROVE  /\ IsTable(story')
         /\ pos' \in [DOMAIN story' -> Int]
<1>1. s \in Story /\ s \in DOMAIN story /\ Dragged(s, sec) \in Row
  BY DraggedIsRow DEF Movable, TypeOK
<1>2. IsTable(story') /\ DOMAIN story' = DOMAIN story
  <2>1. IsTable(story)
    BY DEF TypeOK
  <2> DEFINE row == Dragged(s, sec)
  <2>2. row \in Row /\ story' = WithRow(s, row)
    BY <1>1
  <2> HIDE DEF row
  <2>3. IsTable(story') /\ DOMAIN story' = DOMAIN story \cup {s}
    BY <1>1, <2>1, <2>2, WithRowIsTable
  <2>4. QED
    BY <1>1, <2>3
<1>3. pos' \in [DOMAIN story \cup {s} -> Int]
  BY PlaceIsTyped DEF TypeOK
<1>4. QED
  BY <1>1, <1>2, <1>3

\* The counter stays in its range.
LEMMA CounterType ==
  ASSUME TypeOK, NEW s, NEW sec, NEW at, CountRebalance(s, sec, at)
  PROVE  rebalances' \in 0..CounterMod - 1
<1>1. rebalances \in Nat /\ CounterMod \in Nat /\ CounterMod > 0
  BY StoryAssumption DEF TypeOK
<1>2. (rebalances + 1) % CounterMod \in 0..CounterMod - 1
  BY <1>1
<1>3. rebalances' = rebalances \/ rebalances' = (rebalances + 1) % CounterMod
  BY DEF CountRebalance
<1>4. QED
  BY <1>2, <1>3 DEF TypeOK

LEMMA MoveType ==
  ASSUME TypeOK, NEW s \in DOMAIN story, NEW sec \in Sections, NEW at \in Drops,
         Move(s, sec, at)
  PROVE  TypeOK'
<1>1. IsTable(story') /\ pos' \in [DOMAIN story' -> Int]
  BY DragType DEF Move
<1>2. rebalances' \in 0..CounterMod - 1
  BY CounterType DEF Move
<1>3. QED
  BY <1>1, <1>2 DEF Move, TypeOK

LEMMA DeleteType ==
  ASSUME TypeOK, NEW s \in DOMAIN story, Delete(s)
  PROVE  TypeOK'
<1>1. story[s] \in Row /\ [story[s] EXCEPT !.trashed = TRUE] \in Row
  BY DEF TypeOK, IsTable, Row
<1>2. IsTable(story') /\ DOMAIN story' = DOMAIN story
  BY <1>1 DEF Delete, TypeOK, IsTable
<1>3. QED
  BY <1>2 DEF Delete, TypeOK

LEMMA RestoreType ==
  ASSUME TypeOK, NEW s \in DOMAIN story, Restore(s)
  PROVE  TypeOK'
<1>1. story[s] \in Row /\ [story[s] EXCEPT !.trashed = FALSE] \in Row
  BY DEF TypeOK, IsTable, Row
<1>2. IsTable(story') /\ DOMAIN story' = DOMAIN story
  BY <1>1 DEF Restore, TypeOK, IsTable
<1>3. pos' \in [DOMAIN story -> Int]
  <2>1. CASE UNCHANGED pos
    BY <2>1 DEF TypeOK
  <2>2. CASE Place(s, SectionOf(story[s].state), Bottom)
    <3>1. pos' \in [DOMAIN story \cup {s} -> Int]
      BY <2>2, PlaceIsTyped DEF TypeOK
    <3>2. QED
      BY <3>1
  <2>3. QED
    BY <2>1, <2>2 DEF Restore
<1>4. QED
  BY <1>2, <1>3 DEF Restore, TypeOK

LEMMA SetPointsType ==
  ASSUME TypeOK, NEW on \in Options, SetPointsOnAll(on)
  PROVE  TypeOK'
<1>1. \A t \in DOMAIN story :
        story[t] \in Row /\ [story[t] EXCEPT !.points = None] \in Row
  BY DEF TypeOK, IsTable, Row
<1>2. IsTable(story') /\ DOMAIN story' = DOMAIN story
  BY <1>1 DEF SetPointsOnAll, TypeOK, IsTable
<1>3. on \in BOOLEAN
  BY StoryAssumption
<1>4. QED
  BY <1>2, <1>3 DEF SetPointsOnAll, TypeOK

-----------------------------------------------------------------------------
(* Type correctness of MoveMany *)

LEMMA BeginType ==
  ASSUME TypeOK, NEW ids \in Batches, NEW sec \in Sections, NEW at \in Drops,
         BeginMoveMany(ids, sec, at)
  PROVE  TypeOK'
<1>1. ids \in Seq(Story) /\ <<>> \in Seq(Story)
  BY StoryAssumption
<1>2. at \in Placement(Story)
  BY DEF Drops
<1>3. IsTransaction(tx')
  BY <1>1, <1>2 DEF BeginMoveMany, IsTransaction, TypeOK
<1>4. QED
  BY <1>3 DEF BeginMoveMany, TypeOK

LEMMA MoveOneType ==
  ASSUME TypeOK, MoveOne
  PROVE  TypeOK'
<1> DEFINE s == Head(tx.todo)
<1>1. IsTransaction(tx) /\ tx.todo \in Seq(Story) /\ tx.todo # <<>> /\ tx.section \in Sections
  BY DEF MoveOne, TypeOK, IsTransaction
<1>2. s \in Story /\ Tail(tx.todo) \in Seq(Story)
  BY <1>1
<1>3. CASE Seen(s) /\ tx' = [tx EXCEPT !.todo = Tail(@)] /\ UNCHANGED <<story, pos, rebalances>>
  <2>1. IsTransaction(tx')
    BY <1>1, <1>2, <1>3 DEF IsTransaction

  <2>2. QED
    BY <1>3, <2>1 DEF MoveOne, TypeOK
<1>4. CASE /\ Movable(s, tx.section)
           /\ Place(s, tx.section, Slot)
           /\ CountRebalance(s, tx.section, Slot)
           /\ story' = WithRow(s, Dragged(s, tx.section))
           /\ tx' = [tx EXCEPT !.todo = Tail(@), !.done = Append(@, s)]
  <2>1. Append(tx.done, s) \in Seq(Story)
    BY <1>1, <1>2 DEF IsTransaction

  <2>2. IsTransaction(tx')
    BY <1>1, <1>2, <1>4, <2>1 DEF IsTransaction

  <2>3. IsTable(story') /\ pos' \in [DOMAIN story' -> Int]
    BY <1>1, <1>4, DragType
  <2>4. rebalances' \in 0..CounterMod - 1
    BY <1>4, CounterType
  <2>5. QED
    BY <2>2, <2>3, <2>4 DEF MoveOne, TypeOK
<1>5. QED
  BY <1>3, <1>4 DEF MoveOne

LEMMA RollbackType ==
  ASSUME TypeOK, RollbackMoveMany
  PROVE  TypeOK'
  BY DEF RollbackMoveMany, TypeOK, IsTransaction

LEMMA RestartType ==
  ASSUME TypeOK, Restart
  PROVE  TypeOK'
<1> DEFINE disk == IF tx = None THEN story ELSE tx.story
           spos == IF tx = None THEN pos ELSE tx.pos
<1>1. IsTable(disk) /\ spos \in [DOMAIN disk -> Int]
  BY DEF TypeOK, IsTransaction
<1>2. PICK purged : /\ story' = Only(disk, DOMAIN disk \ purged)
                    /\ pos' = Only(spos, DOMAIN disk \ purged)
                    /\ rebalances' = 0 /\ tx' = None /\ UNCHANGED pointsOnAll
  BY DEF Restart
<1>3. DOMAIN disk \ purged \subseteq DOMAIN disk
  OBVIOUS
<1> HIDE DEF disk, spos
<1>4. IsTable(story') /\ pos' \in [DOMAIN story' -> Int]
  BY <1>1, <1>2, <1>3, OnlyIsTable
<1>5. 0 \in 0..CounterMod - 1
  BY StoryAssumption
<1>6. QED
  BY <1>2, <1>4, <1>5 DEF TypeOK

LEMMA InitType == Init => TypeOK
<1> SUFFICES ASSUME Init PROVE TypeOK
  OBVIOUS
<1>1. IsTable(story) /\ pos \in [DOMAIN story -> Int]
  BY DEF Init, Only, IsTable
<1>2. 0 \in 0..CounterMod - 1
  BY StoryAssumption
<1>3. QED
  BY <1>1, <1>2 DEF Init, TypeOK

LEMMA NextType == TypeOK /\ [Next]_vars => TypeOK'
<1> SUFFICES ASSUME TypeOK, [Next]_vars PROVE TypeOK'
  OBVIOUS
<1>1. CASE \E id \in Story, sec \in Sections, type \in Types,
              points \in Estimates \cup {None}, owner \in Owners,
              after \in Story \cup {None} :
             Create(id, sec, type, points, owner, after)
  BY <1>1, CreateType
<1>2. ASSUME NEW s \in DOMAIN story, Operation(s)
      PROVE  TypeOK'
  BY <1>2, UpdateType, MoveType, DeleteType, RestoreType DEF Operation
<1>3. CASE \E on \in Options : SetPointsOnAll(on)
  BY <1>3, SetPointsType
<1>4. CASE \E ids \in Batches, sec \in Sections, at \in Drops :
             BeginMoveMany(ids, sec, at)
  BY <1>4, BeginType
<1>5. CASE MoveOne
  BY <1>5, MoveOneType
<1>6. CASE CommitMoveMany
  BY <1>6 DEF CommitMoveMany, TypeOK
<1>7. CASE RollbackMoveMany
  BY <1>7, RollbackType
<1>8. CASE Restart
  BY <1>8, RestartType
<1>9. CASE UNCHANGED vars
  BY <1>9 DEF vars, TypeOK
<1>10. QED
  BY <1>1, <1>2, <1>3, <1>4, <1>5, <1>6, <1>7, <1>8, <1>9 DEF Next

\* The tables keep the columns of the schema, whatever requests arrive, wherever
\* a MoveMany fails and whenever the process restarts.
THEOREM TypeCorrect == Spec => []TypeOK
<1>1. QED
  BY InitType, NextType, PTL DEF Spec

-----------------------------------------------------------------------------
(* The workflow rules *)

\* The three rules for one row, when the project's option is `on'.
GoodRow(row, on) ==
  /\ row.type = "feature" /\ row.state \in InProgress \cup {"accepted"} => row.points # None
  /\ ~on /\ row.type # "feature" => row.points = None
  /\ row.stamped <=> row.state = "accepted"

GoodTable(tbl, on) == \A s \in DOMAIN tbl : GoodRow(tbl[s], on)

\* The rules have to hold of the rows a MoveMany has in hand and of the ones a
\* rollback would bring back; none of them is inductive without the types.
IInv ==
  /\ TypeOK
  /\ GoodTable(story, pointsOnAll)
  /\ tx # None => GoodTable(tx.story, pointsOnAll)

LEMMA WithRowGood ==
  ASSUME NEW on, GoodTable(story, on), NEW s, NEW row, GoodRow(row, on)
  PROVE  GoodTable(WithRow(s, row), on)
  BY DEF GoodTable, WithRow

\* No drag breaks a rule: it takes a story to a state that asks for no estimate.
LEMMA DraggedGood ==
  ASSUME NEW on, GoodTable(story, on), NEW s, NEW sec \in Sections, Movable(s, sec),
         IsTable(story)
  PROVE  GoodRow(Dragged(s, sec), on)
<1>1. s \in DOMAIN story /\ story[s] \in Row /\ GoodRow(story[s], on)
  BY DEF Movable, IsTable, GoodTable
<1>2. CASE SectionOf(story[s].state) = sec
  BY <1>1, <1>2 DEF Dragged
<1>3. CASE SectionOf(story[s].state) # sec
  <2>1. EntryState(sec) \notin InProgress \cup {"accepted"}
    BY StoryAssumption DEF EntryState, InProgress, Panels
  <2>2. story[s].state # "accepted"
    BY DEF Movable
  <2>3. Dragged(s, sec) = [story[s] EXCEPT !.state = EntryState(sec)]
    BY <1>3 DEF Dragged
  <2>4. QED
    BY <1>1, <2>1, <2>2, <2>3 DEF GoodRow, Row
<1>4. QED
  BY <1>2, <1>3

LEMMA CreateGood ==
  ASSUME IInv, NEW id \in Story, NEW sec \in Sections, NEW type \in Types,
         NEW points \in Estimates \cup {None}, NEW owner \in Owners,
         NEW after \in Story \cup {None},
         Create(id, sec, type, points, owner, after)
  PROVE  GoodTable(story', pointsOnAll')
<1> DEFINE row == [state |-> EntryState(sec), type |-> type,
                   points |-> points, owner |-> owner,
                   stamped |-> FALSE, trashed |-> FALSE]
<1>1. EntryState(sec) \notin InProgress \cup {"accepted"}
  BY StoryAssumption DEF EntryState, InProgress, Panels
<1>2. GoodRow(row, pointsOnAll)
  BY <1>1 DEF GoodRow, Create
<1>3. story' = WithRow(id, row) /\ pointsOnAll' = pointsOnAll
  BY DEF Create
<1>4. QED
  BY <1>2, <1>3, WithRowGood DEF IInv

LEMMA UpdateGood ==
  ASSUME IInv, NEW s \in DOMAIN story, NEW actor \in User, NEW isAdmin \in ByAdmin,
         NEW type \in Types, NEW points \in Estimates \cup {None, Keep},
         NEW owner \in Owners \cup {Keep}, NEW state \in Asked \cup {story[s].state},
         Update(s, actor, isAdmin, type, points, owner, state)
  PROVE  GoodTable(story', pointsOnAll')
<1> DEFINE old      == story[s]
           asked    == IF points = Keep THEN old.points ELSE points
           newOwner == IF owner = Keep THEN old.owner ELSE owner
           dropped  == type # "feature" /\ ~pointsOnAll
           newPoints == IF dropped THEN None ELSE asked
           takenBy  == IF old.state # state /\ state = "started" /\ newOwner = None
                       THEN actor ELSE newOwner
           stamp    == Stamp(old, state)
           row == [old EXCEPT !.state = state, !.type = type, !.points = newPoints,
                              !.owner = takenBy, !.stamped = stamp]
<1>1. old \in Row /\ GoodRow(old, pointsOnAll)
  BY DEF IInv, TypeOK, IsTable, GoodTable
<1>2. /\ row.state = state /\ row.type = type
      /\ row.points = newPoints /\ row.stamped = stamp
  BY <1>1 DEF Row
<1>3. ~LacksEstimate(type, asked, state)
  BY DEF Update
<1>4. type = "feature" /\ state \in InProgress \cup {"accepted"} => newPoints # None
  BY <1>3 DEF LacksEstimate
<1>5. ~pointsOnAll /\ type # "feature" => newPoints = None
  OBVIOUS
<1>6. stamp <=> state = "accepted"
  BY <1>1 DEF Stamp, GoodRow
<1>7. story' = WithRow(s, row) /\ pointsOnAll' = pointsOnAll
  BY DEF Update
<1> HIDE DEF row, newPoints, stamp
<1>8. GoodRow(row, pointsOnAll)
  BY <1>2, <1>4, <1>5, <1>6 DEF GoodRow
<1>9. QED
  BY <1>7, <1>8, WithRowGood DEF IInv

LEMMA DragGood ==
  ASSUME IInv, NEW s, NEW sec \in Sections, Movable(s, sec),
         story' = WithRow(s, Dragged(s, sec)), pointsOnAll' = pointsOnAll
  PROVE  GoodTable(story', pointsOnAll')
  BY DraggedGood, WithRowGood DEF IInv, TypeOK

LEMMA SetPointsGood ==
  ASSUME IInv, NEW on \in Options, SetPointsOnAll(on)
  PROVE  GoodTable(story', pointsOnAll')
<1> SUFFICES ASSUME NEW t \in DOMAIN story
             PROVE  GoodRow(story'[t], on)
  BY DEF SetPointsOnAll, GoodTable
<1>1. story[t] \in Row /\ GoodRow(story[t], pointsOnAll)
  BY DEF IInv, TypeOK, IsTable, GoodTable
<1>2. CASE pointsOnAll /\ ~on /\ LosesPoints(story[t])
  <2>1. story'[t] = [story[t] EXCEPT !.points = None]
    BY <1>2 DEF SetPointsOnAll
  <2>2. QED
    BY <1>1, <1>2, <2>1 DEF GoodRow, LosesPoints, Row
<1>3. CASE ~(pointsOnAll /\ ~on /\ LosesPoints(story[t]))
  <2>1. story'[t] = story[t]
    BY <1>3 DEF SetPointsOnAll
  <2>2. QED
    BY <1>1, <1>3, <2>1 DEF GoodRow, LosesPoints
<1>4. QED
  BY <1>2, <1>3

\* Taking a story to the trash or out of it changes nothing the rules are about.
LEMMA TrashGood ==
  ASSUME IInv, NEW s \in DOMAIN story, Delete(s) \/ Restore(s)
  PROVE  GoodTable(story', pointsOnAll')
<1>1. PICK b \in BOOLEAN : story' = [story EXCEPT ![s].trashed = b]
  BY DEF Delete, Restore
<1>2. pointsOnAll' = pointsOnAll
  BY DEF Delete, Restore
<1>3. \A t \in DOMAIN story :
        /\ GoodRow(story[t], pointsOnAll) /\ story[t] \in Row
        /\ GoodRow([story[t] EXCEPT !.trashed = b], pointsOnAll)
  BY DEF IInv, TypeOK, IsTable, GoodTable, GoodRow, Row
<1>4. QED
  BY <1>1, <1>2, <1>3 DEF GoodTable

LEMMA InitGood == Init => IInv
  BY InitType DEF Init, IInv, GoodTable, Only

LEMMA NextGood == IInv /\ [Next]_vars => IInv'
<1> SUFFICES ASSUME IInv, [Next]_vars PROVE IInv'
  OBVIOUS
<1>1. TypeOK /\ TypeOK'
  BY NextType DEF IInv
<1> DEFINE Committing == tx # None => GoodTable(tx.story, pointsOnAll)
\* It is enough to look at the rows and at the rows of the transaction.
<1>2. SUFFICES GoodTable(story', pointsOnAll') /\ Committing'
  BY <1>1 DEF IInv
<1>3. CASE \E id \in Story, sec \in Sections, type \in Types,
              points \in Estimates \cup {None}, owner \in Owners,
              after \in Story \cup {None} :
             Create(id, sec, type, points, owner, after)
  BY <1>3, CreateGood DEF Create
<1>4. ASSUME NEW s \in DOMAIN story, Operation(s)
      PROVE  GoodTable(story', pointsOnAll') /\ Committing'
  <2>1. CASE \E actor \in User, isAdmin \in ByAdmin, type \in Types,
                points \in Estimates \cup {None, Keep}, owner \in Owners \cup {Keep},
                state \in Asked \cup {story[s].state} :
               Update(s, actor, isAdmin, type, points, owner, state)
    <3>1. GoodTable(story', pointsOnAll')
      BY <2>1, UpdateGood
    <3>2. tx = None /\ tx' = tx
      BY <2>1 DEF Update
    <3>3. QED
      BY <3>1, <3>2
  <2>2. CASE \E sec \in Sections, at \in Drops : Move(s, sec, at)
    BY <2>2, DragGood DEF Move
  <2>3. CASE Delete(s) \/ Restore(s)
    <3>1. GoodTable(story', pointsOnAll')
      BY <2>3, TrashGood
    <3>2. tx = None /\ tx' = tx
      BY <2>3 DEF Delete, Restore
    <3>3. QED
      BY <3>1, <3>2
  <2>4. QED
    BY <1>4, <2>1, <2>2, <2>3 DEF Operation
<1>5. CASE \E on \in Options : SetPointsOnAll(on)
  BY <1>5, SetPointsGood DEF SetPointsOnAll
<1>6. CASE \E ids \in Batches, sec \in Sections, at \in Drops :
             BeginMoveMany(ids, sec, at)
  BY <1>6 DEF BeginMoveMany, IInv
<1>7. CASE MoveOne
  <2>1. tx.section \in Sections /\ IsTransaction(tx)
    BY <1>1, <1>7 DEF MoveOne, TypeOK, IsTransaction
  <2>2. pointsOnAll' = pointsOnAll /\ tx # None /\ tx'.story = tx.story
    BY <1>7, <2>1 DEF MoveOne, IsTransaction
  <2>3. GoodTable(tx.story, pointsOnAll)
    BY <2>2 DEF IInv
  <2>4. GoodTable(story', pointsOnAll')
    BY <1>7, <2>1, <2>2, DragGood DEF MoveOne, IInv
  <2>5. QED
    BY <2>2, <2>3, <2>4
<1>8. CASE CommitMoveMany
  BY <1>8 DEF CommitMoveMany, IInv
<1>9. CASE RollbackMoveMany
  BY <1>9 DEF RollbackMoveMany, IInv
<1>10. CASE Restart
  <2> DEFINE disk == IF tx = None THEN story ELSE tx.story
  <2>1. GoodTable(disk, pointsOnAll)
    BY DEF IInv
  <2>2. PICK purged : story' = Only(disk, DOMAIN disk \ purged)
    BY <1>10 DEF Restart
  <2>3. tx' = None /\ pointsOnAll' = pointsOnAll
    BY <1>10 DEF Restart
  <2> HIDE DEF disk
  <2>4. GoodTable(story', pointsOnAll')
    BY <2>1, <2>2, <2>3 DEF GoodTable, Only
  <2>5. QED
    BY <2>3, <2>4
<1>11. CASE UNCHANGED vars
  BY <1>11 DEF vars, IInv
<1>12. QED
  BY <1>3, <1>4, <1>5, <1>6, <1>7, <1>8, <1>9, <1>10, <1>11 DEF Next

LEMMA IInvCorrect == Spec => []IInv
<1>1. QED
  BY InitGood, NextGood, PTL DEF Spec

\* No feature is ever worked on or accepted without an estimate, and this
\* includes what a MoveMany has in hand, the trash, and what a restart brings
\* back.
THEOREM EstimatedCorrect == Spec => []EstimatedInv
<1>1. IInv => EstimatedInv
  BY DEF IInv, GoodTable, GoodRow, EstimatedInv, Estimated, Committed
<1>2. QED
  BY <1>1, IInvCorrect, PTL

\* No bug or chore, in the trash or accepted ones included, ever has points in
\* a project that does not allow them.
THEOREM PointsAllowedCorrect == Spec => []PointsAllowedInv
<1>1. IInv => PointsAllowedInv
  BY DEF IInv, GoodTable, GoodRow, PointsAllowedInv, PointsAllowed, Committed
<1>2. QED
  BY <1>1, IInvCorrect, PTL

\* accepted_at and the state agree in every reachable table.
THEOREM StampedCorrect == Spec => []StampedInv
<1>1. IInv => StampedInv
  BY DEF IInv, GoodTable, GoodRow, StampedInv, StampedIffAccepted, Committed
<1>2. QED
  BY <1>1, IInvCorrect, PTL

\* The three rules together, for any set of stories, users, estimates and
\* requests.
THEOREM RowsKeepTheRulesCorrect == Spec => []RowsKeepTheRules
<1>1. EstimatedInv /\ PointsAllowedInv /\ StampedInv => RowsKeepTheRules
  BY DEF RowsKeepTheRules
<1>2. QED
  BY <1>1, EstimatedCorrect, PointsAllowedCorrect, StampedCorrect, PTL

-----------------------------------------------------------------------------
(* Scopes *)

\* A scope of a column of positions: finitely many rows with integer ids.
IsScope(col, rows) ==
  /\ IsFiniteSet(rows)
  /\ rows \subseteq Int
  /\ rows \subseteq DOMAIN col
  /\ \A t \in rows : col[t] \in Int

-----------------------------------------------------------------------------
(* ORDER BY position, id is a strict total order *)

LEMMA BeforeIrreflexive ==
  ASSUME NEW col, NEW rows, IsScope(col, rows), NEW a \in rows
  PROVE  ~Before(col, a, a)
<1>1. a \in Int /\ col[a] \in Int
  BY DEF IsScope
<1>2. QED
  BY <1>1 DEF Before

LEMMA BeforeTransitive ==
  ASSUME NEW col, NEW rows, IsScope(col, rows),
         NEW a \in rows, NEW b \in rows, NEW c \in rows,
         Before(col, a, b), Before(col, b, c)
  PROVE  Before(col, a, c)
<1>1. /\ a \in Int /\ b \in Int /\ c \in Int
      /\ col[a] \in Int /\ col[b] \in Int /\ col[c] \in Int
  BY DEF IsScope
<1>2. QED
  BY <1>1 DEF Before

LEMMA BeforeTotal ==
  ASSUME NEW col, NEW rows, IsScope(col, rows), NEW a \in rows, NEW b \in rows, a # b
  PROVE  Before(col, a, b) <=> ~Before(col, b, a)
<1>1. a \in Int /\ b \in Int /\ col[a] \in Int /\ col[b] \in Int
  BY DEF IsScope
<1>2. QED
  BY <1>1 DEF Before

-----------------------------------------------------------------------------
(* The number of rows before a row *)

LEMMA RankType ==
  ASSUME NEW col, NEW rows, IsScope(col, rows), NEW a \in rows
  PROVE  /\ IsFiniteSet(Preceding(col, rows, a))
         /\ Preceding(col, rows, a) \subseteq rows \ {a}
         /\ Cardinality(Preceding(col, rows, a)) \in Nat
<1>1. Preceding(col, rows, a) \subseteq rows \ {a}
  BY BeforeIrreflexive DEF Preceding
<1>2. IsFiniteSet(Preceding(col, rows, a))
  BY <1>1, FS_Subset DEF IsScope
<1>3. QED
  BY <1>1, <1>2, FS_CardinalityType

\* The rank grows along the order.
LEMMA RankMonotone ==
  ASSUME NEW col, NEW rows, IsScope(col, rows),
         NEW a \in rows, NEW b \in rows, Before(col, a, b)
  PROVE  Cardinality(Preceding(col, rows, a)) < Cardinality(Preceding(col, rows, b))
<1> DEFINE A == Preceding(col, rows, a)
           B == Preceding(col, rows, b)
<1>1. /\ IsFiniteSet(B) /\ Cardinality(B) \in Nat
      /\ IsFiniteSet(A) /\ Cardinality(A) \in Nat
  BY RankType
<1>2. A \subseteq B
  BY BeforeTransitive DEF Preceding
<1>3. a \in B /\ a \notin A
  BY RankType DEF Preceding
<1>4. Cardinality(A) <= Cardinality(B) /\ (Cardinality(A) = Cardinality(B) => A = B)
  BY <1>1, <1>2, FS_Subset
<1>5. QED
  BY <1>1, <1>3, <1>4

\* Every rank from 0 up occurs: the rank maps the scope one to one into as many
\* numbers as it has rows.
LEMMA RankOnto ==
  ASSUME NEW col, NEW rows, IsScope(col, rows),
         NEW k \in 0..Cardinality(rows) - 1
  PROVE  \E a \in rows : Cardinality(Preceding(col, rows, a)) = k
<1> DEFINE n == Cardinality(rows)
           f == [a \in rows |-> Cardinality(Preceding(col, rows, a))]
<1>1. IsFiniteSet(rows) /\ n \in Nat
  BY FS_CardinalityType DEF IsScope
<1>2. \A a \in rows : Cardinality(rows \ {a}) = n - 1 /\ IsFiniteSet(rows \ {a})
  BY <1>1, FS_RemoveElement
<1>3. \A a \in rows : Cardinality(Preceding(col, rows, a)) \in 0..n - 1
  <2> TAKE a \in rows
  <2>1. Cardinality(Preceding(col, rows, a)) <= Cardinality(rows \ {a})
    BY <1>2, RankType, FS_Subset
  <2>2. QED
    BY <1>1, <1>2, <2>1, RankType
<1>4. f \in [rows -> 0..n - 1]
  BY <1>3
<1>5. \A a, b \in rows : f[a] = f[b] => a = b
  <2> SUFFICES ASSUME NEW a \in rows, NEW b \in rows, a # b PROVE f[a] # f[b]
    OBVIOUS
  <2>1. Before(col, a, b) \/ Before(col, b, a)
    BY BeforeTotal
  <2>2. f[a] \in Int /\ f[b] \in Int
    BY <1>4
  <2>3. f[a] < f[b] \/ f[b] < f[a]
    BY <2>1, RankMonotone
  <2>4. QED
    BY <2>2, <2>3
<1>6. f \in Injection(rows, 0..n - 1)
  BY <1>4, <1>5 DEF Injection, IsInjective
<1>7. IsFiniteSet(0..n - 1) /\ Cardinality(0..n - 1) = n
  BY <1>1, FS_Interval
<1>8. f \in Surjection(rows, 0..n - 1)
  BY <1>6, <1>7, FS_Injection
<1>9. PICK a \in rows : f[a] = k
  <2> HIDE DEF f
  <2>1. QED
    BY <1>8 DEF Surjection
<1>10. QED
  BY <1>9

\* A nonempty scope has a last row.
LEMMA LastExists ==
  ASSUME NEW col, NEW rows, IsScope(col, rows), rows # {}
  PROVE  /\ Last(col, rows) \in rows
         /\ \A b \in rows \ {Last(col, rows)} : Before(col, b, Last(col, rows))
<1> DEFINE n == Cardinality(rows)
<1>1. IsFiniteSet(rows) /\ n \in Nat /\ n # 0
  BY FS_CardinalityType, FS_EmptySet DEF IsScope
<1>2. n - 1 \in 0..n - 1
  BY <1>1
<1>3. PICK a \in rows : Cardinality(Preceding(col, rows, a)) = n - 1
  BY <1>2, RankOnto
<1>4. Cardinality(rows \ {a}) = n - 1 /\ IsFiniteSet(rows \ {a})
  BY <1>1, FS_RemoveElement
<1>5. Preceding(col, rows, a) = rows \ {a}
  BY <1>3, <1>4, RankType, FS_Subset
<1>6. \A b \in rows \ {a} : Before(col, b, a)
  BY <1>5 DEF Preceding
<1>7. QED
  BY <1>6 DEF Last

\* A nonempty scope has a first row.
LEMMA FirstExists ==
  ASSUME NEW col, NEW rows, IsScope(col, rows), rows # {}
  PROVE  /\ First(col, rows) \in rows
         /\ \A b \in rows \ {First(col, rows)} : Before(col, First(col, rows), b)
<1> DEFINE n == Cardinality(rows)
<1>1. IsFiniteSet(rows) /\ n \in Nat /\ n # 0
  BY FS_CardinalityType, FS_EmptySet DEF IsScope
<1>2. 0 \in 0..n - 1
  BY <1>1
<1>3. PICK a \in rows : Cardinality(Preceding(col, rows, a)) = 0
  BY <1>2, RankOnto
<1>4. Preceding(col, rows, a) = {}
  BY <1>3, RankType, FS_EmptySet
<1>5. \A b \in rows \ {a} : Before(col, a, b)
  BY <1>4, BeforeTotal DEF Preceding
<1>6. QED
  BY <1>5 DEF First

-----------------------------------------------------------------------------
(* Normalize *)

\* Spreading a scope out keeps its order and leaves at least Gap between any two
\* rows; rows outside the scope keep their positions.
LEMMA NormalizeSpreads ==
  ASSUME NEW col, NEW rows, IsScope(col, rows)
  PROVE  /\ IsScope(Normalize(col, rows), rows)
         /\ DOMAIN Normalize(col, rows) = DOMAIN col
         /\ \A t \in DOMAIN col \ rows : Normalize(col, rows)[t] = col[t]
         /\ \A a, b \in rows :
              Before(col, a, b)
                => Normalize(col, rows)[b] - Normalize(col, rows)[a] >= Gap
<1> DEFINE rank(a) == Cardinality(Preceding(col, rows, a))
           new == Normalize(col, rows)
<1>1. \A a \in rows : rank(a) \in Nat
  BY RankType
<1>2. \A a \in rows : new[a] = Gap * (rank(a) + 1)
  BY DEF Normalize, IsScope
<1>3. \A a \in rows : new[a] \in Int
  BY <1>1, <1>2, GapAssumption
<1>4. ASSUME NEW a \in rows, NEW b \in rows, Before(col, a, b)
      PROVE  new[b] - new[a] >= Gap
  <2>1. rank(a) < rank(b)
    BY <1>4, RankMonotone
  <2>2. \A i, j \in Nat : i < j => Gap * (j + 1) - Gap * (i + 1) >= Gap
    <3> SUFFICES ASSUME NEW i \in Nat, NEW j \in Nat, i < j
                 PROVE  Gap * (j + 1) - Gap * (i + 1) >= Gap
      OBVIOUS
    <3>1. PICK k \in Nat : j = i + 1 + k
      <4>1. j - i - 1 \in Nat /\ j = i + 1 + (j - i - 1)
        OBVIOUS
      <4>2. QED
        BY <4>1
    <3>2. Gap * (j + 1) - Gap * (i + 1) = Gap + Gap * k
      BY <3>1, GapAssumption
    <3>3. Gap * k \in Nat
      BY GapAssumption
    <3>4. QED
      BY <3>2, <3>3, GapAssumption
  <2> HIDE DEF rank, new
  <2>3. QED
    BY <1>1, <1>2, <2>1, <2>2
<1>5. IsScope(new, rows)
  BY <1>3 DEF IsScope, Normalize
<1>6. QED
  BY <1>4, <1>5 DEF Normalize

-----------------------------------------------------------------------------
(* Placed *)

\* A slot: a set of rows with every row before one of its rows.
IsSlot(col, rows, below) ==
  /\ below \subseteq rows
  /\ \A a \in rows, b \in below : Before(col, a, b) => a \in below

LEMMA SubScope ==
  ASSUME NEW col, NEW rows, IsScope(col, rows), NEW S \in SUBSET rows
  PROVE  IsScope(col, S)
  BY FS_Subset DEF IsScope

LEMMA HalfBetween ==
  ASSUME NEW x \in Int, x >= 2
  PROVE  x \div 2 \in Int /\ 0 < x \div 2 /\ x \div 2 < x
  OBVIOUS

\* When the slot has room, Between falls strictly between its two sides.
LEMMA BetweenFits ==
  ASSUME NEW col, NEW rows, IsScope(col, rows), NEW below, IsSlot(col, rows, below),
         HasRoom(col, below, rows \ below)
  PROVE  /\ Between(col, below, rows \ below) \in Int
         /\ \A t \in below : col[t] < Between(col, below, rows \ below)
         /\ \A t \in rows \ below : Between(col, below, rows \ below) < col[t]
<1> DEFINE above == rows \ below
           slot  == Between(col, below, above)
           lo    == col[Last(col, below)]
           hi    == col[First(col, above)]
<1>1. IsScope(col, below) /\ IsScope(col, above)
  BY SubScope DEF IsSlot
<1>2. /\ \A t \in below : col[t] \in Int
      /\ \A t \in above : col[t] \in Int
  BY <1>1 DEF IsScope
<1>3. ASSUME below # {}
      PROVE  lo \in Int /\ \A t \in below : col[t] <= lo
  <2>1. Last(col, below) \in below
    BY <1>1, <1>3, LastExists
  <2>2. \A t \in below \ {Last(col, below)} : Before(col, t, Last(col, below))
    BY <1>1, <1>3, LastExists
  <2>3. \A t \in below \ {Last(col, below)} : col[t] <= lo
    BY <1>2, <2>1, <2>2 DEF Before
  <2>4. QED
    BY <1>2, <2>1, <2>3
<1>4. ASSUME above # {}
      PROVE  hi \in Int /\ \A t \in above : hi <= col[t]
  <2>1. First(col, above) \in above
    BY <1>1, <1>4, FirstExists
  <2>2. \A t \in above \ {First(col, above)} : Before(col, First(col, above), t)
    BY <1>1, <1>4, FirstExists
  <2>3. \A t \in above \ {First(col, above)} : hi <= col[t]
    BY <1>2, <2>1, <2>2 DEF Before
  <2>4. QED
    BY <1>2, <2>1, <2>3
<1> SUFFICES /\ slot \in Int
             /\ \A t \in below : col[t] < slot
             /\ \A t \in above : slot < col[t]
  OBVIOUS
<1>5. CASE below = {} /\ above = {}
  <2>1. slot = Gap
    BY <1>5 DEF Between
  <2>2. QED
    BY <1>5, <2>1, GapAssumption
<1>6. CASE below = {} /\ above # {}
  <2>1. slot = hi - Gap
    BY <1>6 DEF Between
  <2> HIDE DEF hi, slot
  <2>2. QED
    BY <1>2, <1>4, <1>6, <2>1, GapAssumption
<1>7. CASE below # {} /\ above = {}
  <2>1. slot = lo + Gap
    BY <1>7 DEF Between
  <2> HIDE DEF lo, slot
  <2>2. QED
    BY <1>2, <1>3, <1>7, <2>1, GapAssumption
<1>8. CASE below # {} /\ above # {}
  <2>1. slot = lo + (hi - lo) \div 2
    BY <1>8 DEF Between
  <2>2. hi - lo >= 2
    BY <1>8 DEF HasRoom
  <2>3. lo \in Int /\ hi \in Int
    BY <1>3, <1>4, <1>8
  <2> HIDE DEF lo, hi, slot
  <2>4. slot \in Int /\ lo < slot /\ slot < hi
    BY <2>1, <2>2, <2>3, HalfBetween
  <2>5. QED
    BY <1>2, <1>3, <1>4, <1>8, <2>3, <2>4
<1>9. QED
  BY <1>5, <1>6, <1>7, <1>8

\* Whether or not the scope has to be spread out, placing story s in a slot keeps
\* the order of the other rows, puts s between the two sides of the slot, and
\* changes no position outside the scope.
THEOREM PlacedKeepsOrder ==
  ASSUME NEW col, NEW rows, IsScope(col, rows),
         NEW s \in Int, s \notin rows,
         NEW below, IsSlot(col, rows, below)
  PROVE  LET new == Placed(col, rows, s, below)
         IN  /\ DOMAIN new = DOMAIN col \cup {s}
             /\ IsScope(new, rows \cup {s})
             /\ \A a, b \in rows : Before(new, a, b) <=> Before(col, a, b)
             /\ \A t \in below : Before(new, t, s)
             /\ \A t \in rows \ below : Before(new, s, t)
             /\ \A t \in DOMAIN col \ (rows \cup {s}) : new[t] = col[t]
<1> DEFINE above == rows \ below
           base  == IF HasRoom(col, below, above) THEN col ELSE Normalize(col, rows)
           new   == Placed(col, rows, s, below)
           slot  == Between(base, below, above)
<1>1. /\ IsScope(base, rows)
      /\ DOMAIN base = DOMAIN col
      /\ \A t \in DOMAIN col \ rows : base[t] = col[t]
  BY NormalizeSpreads
<1>2. \A a, b \in rows : Before(base, a, b) <=> Before(col, a, b)
  <2>1. CASE HasRoom(col, below, above)
    BY <2>1
  <2>2. CASE ~HasRoom(col, below, above)
    <3>1. base = Normalize(col, rows)
      BY <2>2
    <3> HIDE DEF base
    <3>2. \A a, b \in rows : Before(col, a, b) => Before(base, a, b)
      <4>1. \A a, b \in rows : Before(col, a, b) => base[b] - base[a] >= Gap
        BY <3>1, NormalizeSpreads
      <4>2. \A a \in rows : base[a] \in Int
        BY <1>1 DEF IsScope
      <4>3. QED
        BY <4>1, <4>2, GapAssumption DEF Before
    <3>3. ASSUME NEW a \in rows, NEW b \in rows, Before(base, a, b)
          PROVE  Before(col, a, b)
      <4>1. a # b
        BY <1>1, <3>3, BeforeIrreflexive
      <4>2. ~Before(base, b, a)
        BY <1>1, <3>3, <4>1, BeforeTotal
      <4>3. QED
        BY <3>2, <4>1, <4>2, BeforeTotal
    <3>4. QED
      BY <3>2, <3>3
  <2>3. QED
    BY <2>1, <2>2
<1>3. IsSlot(base, rows, below)
  BY <1>2 DEF IsSlot
<1>4. HasRoom(base, below, above)
  <2>1. CASE HasRoom(col, below, above)
    BY <2>1
  <2>2. CASE ~HasRoom(col, below, above)
    <3>1. below # {} /\ above # {}
      BY <2>2 DEF HasRoom
    <3>2. base = Normalize(col, rows)
      BY <2>2
    <3> HIDE DEF base
    <3>3. IsScope(base, below) /\ IsScope(base, above)
      BY <1>1, SubScope DEF IsSlot
    <3>4. Last(base, below) \in below /\ First(base, above) \in above
      BY <3>1, <3>3, LastExists, FirstExists
    <3>5. PICK l \in below, f \in above : l = Last(base, below) /\ f = First(base, above)
      BY <3>4
    <3>6. l \in rows /\ f \in rows /\ f # l
      BY <3>5 DEF IsSlot
    <3>7. ~Before(col, f, l)
      BY <3>5, <3>6 DEF IsSlot
    <3>8. Before(col, l, f)
      BY <3>6, <3>7, BeforeTotal
    <3>9. base[f] - base[l] >= Gap
      BY <3>2, <3>6, <3>8, NormalizeSpreads
    <3>10. base[f] \in Int /\ base[l] \in Int
      BY <1>1, <3>6 DEF IsScope
    <3>11. base[f] - base[l] >= 2
      BY <3>9, <3>10, GapAssumption
    <3>12. QED
      BY <3>5, <3>11 DEF HasRoom
  <2>3. QED
    BY <2>1, <2>2
<1>5. /\ slot \in Int
      /\ \A t \in below : base[t] < slot
      /\ \A t \in above : slot < base[t]
  <2> HIDE DEF base
  <2>1. QED
    BY <1>1, <1>3, <1>4, BetweenFits
<1>6. new = [t \in DOMAIN col \cup {s} |-> IF t = s THEN slot ELSE base[t]]
  BY DEF Placed
<1> HIDE DEF new, slot, base
<1>7. /\ DOMAIN new = DOMAIN col \cup {s}
      /\ new[s] = slot
      /\ \A t \in DOMAIN col \ {s} : new[t] = base[t]
  BY <1>6
<1>8. \A t \in rows : t \in DOMAIN col /\ t # s /\ new[t] = base[t] /\ base[t] \in Int
  BY <1>1, <1>7 DEF IsScope
<1>9. IsScope(new, rows \cup {s})
  <2>1. IsFiniteSet(rows \cup {s})
    BY FS_AddElement DEF IsScope
  <2>2. QED
    BY <1>5, <1>7, <1>8, <2>1 DEF IsScope
<1>10. \A a, b \in rows : Before(new, a, b) <=> Before(col, a, b)
  BY <1>2, <1>8 DEF Before
<1>11. (\A t \in below : Before(new, t, s)) /\ (\A t \in above : Before(new, s, t))
  BY <1>3, <1>5, <1>7, <1>8 DEF Before, IsSlot
<1>12. \A t \in DOMAIN col \ (rows \cup {s}) : new[t] = col[t]
  BY <1>1, <1>7
<1>13. QED
  BY <1>7, <1>9, <1>10, <1>11, <1>12 DEF new

-----------------------------------------------------------------------------
(* The slot of a placement *)

\* Any part of the table is a scope.
LEMMA TableScope ==
  ASSUME TypeOK, NEW rows \in SUBSET DOMAIN story
  PROVE  IsScope(pos, rows)
<1>1. IsFiniteSet(rows) /\ rows \subseteq Int
  BY StoryAssumption, FS_Subset DEF TypeOK, IsTable
<1>2. QED
  BY <1>1 DEF IsScope, TypeOK

\* What an anchored placement asks for is a slot of the scope, in any column.
LEMMA BelowIsSlot ==
  ASSUME NEW col, NEW rows, IsScope(col, rows), NEW at, Anchored(rows, at)
  PROVE  IsSlot(col, rows, Below(col, rows, at))
<1> DEFINE below == Below(col, rows, at)
<1>1. ASSUME NEW c \in rows
      PROVE  /\ IsSlot(col, rows, Preceding(col, rows, c))
             /\ IsSlot(col, rows, Preceding(col, rows, c) \cup {c})
  <2>1. \A a, b \in rows : Before(col, a, b) /\ Before(col, b, c) => Before(col, a, c)
    BY BeforeTransitive
  <2>2. QED
    BY <2>1 DEF IsSlot, Preceding
<1>2. IsSlot(col, rows, {}) /\ IsSlot(col, rows, rows)
  BY DEF IsSlot
<1>3. CASE at.prev # None
  BY <1>1, <1>3 DEF Anchored, Below
<1>4. CASE at.prev = None /\ at.next # None
  BY <1>1, <1>4 DEF Anchored, Below
<1>5. CASE at.prev = None /\ at.next = None
  BY <1>2, <1>5 DEF Below
<1>6. QED
  BY <1>3, <1>4, <1>5

\* A dragged story is in the scope it was dragged to, together with the stories
\* that were there.
LEMMA DraggedScope ==
  ASSUME TypeOK, NEW s, NEW sec \in Sections, Movable(s, sec),
         story' = WithRow(s, Dragged(s, sec))
  PROVE  Scope(story', sec) = (Scope(story, sec) \ {s}) \cup {s}
<1>1. s \in DOMAIN story /\ story[s] \in Row /\ ~story[s].trashed
  BY DEF Movable, TypeOK, IsTable
<1>2. sec \in Panels
  BY StoryAssumption
<1>3. ~Dragged(s, sec).trashed /\ Dragged(s, sec).state \in OrderedStates(sec)
  <2>1. CASE SectionOf(story[s].state) = sec
    <3>1. story[s].state \in OrderedStates(sec)
      BY <1>1, <1>2, <2>1 DEF Movable, Row, States, SectionOf, OrderedStates, Panels
    <3>2. QED
      BY <1>1, <2>1, <3>1 DEF Dragged
  <2>2. CASE SectionOf(story[s].state) # sec
    <3>1. EntryState(sec) \in OrderedStates(sec)
      BY <1>2 DEF EntryState, OrderedStates, Panels
    <3>2. Dragged(s, sec) = [story[s] EXCEPT !.state = EntryState(sec)]
      BY <2>2 DEF Dragged
    <3>3. QED
      BY <1>1, <3>1, <3>2 DEF Row
  <2>3. QED
    BY <2>1, <2>2
<1>4. /\ DOMAIN story' = DOMAIN story
      /\ story'[s] = Dragged(s, sec)
      /\ \A t \in DOMAIN story \ {s} : story'[t] = story[t]
  BY <1>1 DEF WithRow
<1>5. QED
  BY <1>1, <1>3, <1>4 DEF Scope

-----------------------------------------------------------------------------
(* Move *)

LEMMA MoveLands ==
  ASSUME TypeOK, NEW s \in DOMAIN story, NEW sec \in Sections, NEW at \in Drops,
         Move(s, sec, at)
  PROVE  LandsAt(<<s>>, sec, at)
<1> DEFINE rows  == Scope(story, sec) \ {s}
           below == Below(pos, rows, at)
           above == IF at.prev # None
                    THEN {t \in rows : t = at.prev \/ Before(pos, t, at.prev)}
                    ELSE IF at.next # None
                    THEN {t \in rows : Before(pos, t, at.next)}
                    ELSE {}
<1>1. Movable(s, sec) /\ Place(s, sec, at) /\ story' = WithRow(s, Dragged(s, sec))
  BY DEF Move
<1>2. tx = None
  BY DEF Move
<1>3. Scope(story', sec) = rows \cup {s}
  BY <1>1, DraggedScope
<1>4. IsScope(pos, rows)
  <2>1. rows \in SUBSET DOMAIN story
    BY DEF Scope
  <2>2. QED
    BY <2>1, TableScope
<1>5. s \in Int
  BY StoryAssumption DEF TypeOK, IsTable
<1>6. Anchored(rows, at) /\ pos' = Placed(pos, rows, s, below)
  BY <1>1 DEF Place
<1>7. IsSlot(pos, rows, below)
  BY <1>4, <1>6, BelowIsSlot
<1>8. below = above
  <2>1. at.bottom = FALSE
    BY DEF Drops, Placement
  <2>2. QED
    BY <1>6, <2>1 DEF Below, Anchored, Preceding
<1>9. /\ IsScope(pos', rows \cup {s})
      /\ \A t \in below : Before(pos', t, s)
      /\ \A t \in rows \ below : Before(pos', s, t)
      /\ \A t, u \in rows : Before(pos', t, u) <=> Before(pos, t, u)
  <2> HIDE DEF rows, below
  <2>1. s \notin rows
    BY DEF rows
  <2>2. QED
    BY <1>4, <1>5, <1>6, <1>7, <2>1, PlacedKeepsOrder
<1>10. \A t \in rows : Before(pos', t, s) <=> t \in above
  <2>1. \A t \in rows \ below : ~Before(pos', t, s)
    <3> HIDE DEF rows, below
    <3>1. s \notin rows
      BY DEF rows
    <3>2. QED
      BY <1>9, <3>1, BeforeTotal
  <2>2. QED
    BY <1>8, <1>9, <2>1
<1>11. /\ DOMAIN <<s>> = {1} /\ <<s>>[1] = s
       /\ {t \in Scope(story', sec) : \A i \in DOMAIN <<s>> : <<s>>[i] # t} = rows
  BY <1>3
<1>12. CommittedPos = pos
  BY <1>2 DEF CommittedPos
<1> HIDE DEF rows
<1>13. QED
  BY <1>3, <1>9, <1>10, <1>11, <1>12 DEF LandsAt

\* A dragged story lands exactly where it was dropped, in a scope of any size, with
\* any ties between positions, whether or not the scope had to be spread out.
THEOREM MoveLandsAtCorrect == Spec => MoveLandsAt
<1>1. TypeOK /\ [Next]_vars =>
        [\A s \in DOMAIN story, sec \in Sections, at \in Drops :
           tx' = tx /\ Move(s, sec, at) => LandsAt(<<s>>, sec, at)]_vars
  BY MoveLands
<1>2. QED
  BY <1>1, TypeCorrect, PTL DEF Spec, MoveLandsAt
-----------------------------------------------------------------------------
(* Stories that stay where they are *)

Pinned == InProgress \cup {"accepted"}

\* While a MoveMany runs, work in progress and accepted stories are as they were
\* when it began, and accepted stories keep their positions.
PinnedKept ==
  tx # None =>
    /\ DOMAIN story = DOMAIN tx.story
    /\ \A s \in DOMAIN story :
         /\ tx.story[s].state \in Pinned => story[s] = tx.story[s]
         /\ tx.story[s].state = "accepted" => pos[s] = tx.pos[s]

\* A placement leaves every accepted story where it is.
LEMMA PlaceKeepsAccepted ==
  ASSUME TypeOK, NEW s \in Story, NEW sec, NEW at, Place(s, sec, at),
         NEW t \in DOMAIN story \ {s}, story[t].state = "accepted",
         sec \in Panels
  PROVE  pos'[t] = pos[t]
<1> DEFINE rows  == Scope(story, sec) \ {s}
           below == Below(pos, rows, at)
<1>1. t \notin rows
  BY DEF Scope, OrderedStates, Panels
<1>2. pos' = Placed(pos, rows, s, below)
  BY DEF Place
<1>3. t \in DOMAIN pos /\ t # s
  BY DEF TypeOK
<1> HIDE DEF rows, below
<1>4. QED
  BY <1>1, <1>2, <1>3 DEF Placed, Normalize

\* One drag, alone or in a batch, changes the state of no pinned story and the
\* position of no accepted one.
LEMMA DragKeepsPinned ==
  ASSUME TypeOK, NEW s, NEW sec \in Sections, NEW at, Movable(s, sec),
         Place(s, sec, at), story' = WithRow(s, Dragged(s, sec)),
         NEW t \in DOMAIN story, story[t].state \in Pinned
  PROVE  /\ DOMAIN story' = DOMAIN story
         /\ story'[t] = story[t]
         /\ story[t].state = "accepted" => pos'[t] = pos[t]
<1>1. s \in DOMAIN story /\ s \in Story /\ sec \in Panels
  BY StoryAssumption DEF Movable, TypeOK, IsTable
<1>2. DOMAIN story' = DOMAIN story
  BY <1>1 DEF WithRow
<1>3. CASE t = s
  <2>1. story[s].state \in InProgress /\ sec = "current"
    BY <1>3 DEF Movable, Pinned
  <2>2. Dragged(s, sec) = story[s]
    BY <2>1 DEF Dragged, SectionOf, InProgress
  <2>3. story'[t] = story[t]
    BY <1>1, <1>3, <2>2 DEF WithRow
  <2>4. QED
    BY <1>2, <1>3, <2>3 DEF Movable
<1>4. CASE t # s
  <2>1. story'[t] = story[t]
    BY <1>4 DEF WithRow
  <2>2. story[t].state = "accepted" => pos'[t] = pos[t]
    BY <1>1, <1>4, PlaceKeepsAccepted
  <2>3. QED
    BY <1>2, <2>1, <2>2
<1>5. QED
  BY <1>3, <1>4

LEMMA MoveOneKeepsPinned ==
  ASSUME TypeOK, PinnedKept, MoveOne
  PROVE  PinnedKept'
<1>1. tx # None /\ IsTransaction(tx)
  BY DEF MoveOne, TypeOK
<1>2. tx'.story = tx.story /\ tx'.pos = tx.pos
  BY <1>1 DEF MoveOne, IsTransaction
<1>3. CASE UNCHANGED <<story, pos>>
  BY <1>1, <1>2, <1>3 DEF PinnedKept
<1>4. CASE ~UNCHANGED <<story, pos>>
  <2> DEFINE s == Head(tx.todo)
  <2>1. /\ Movable(s, tx.section)
        /\ Place(s, tx.section, Slot)
        /\ story' = WithRow(s, Dragged(s, tx.section))
    BY <1>4 DEF MoveOne
  <2>2. tx.section \in Sections
    BY <1>1 DEF IsTransaction

  <2>3. DOMAIN story' = DOMAIN story
    BY <2>1 DEF WithRow, Movable
  <2>4. \A t \in DOMAIN story : story[t].state \in Pinned =>
          /\ story'[t] = story[t]
          /\ story[t].state = "accepted" => pos'[t] = pos[t]
    <3> HIDE DEF s
    <3>1. QED
      BY <2>1, <2>2, DragKeepsPinned
  <2>5. "accepted" \in Pinned
    BY DEF Pinned
  <2>6. QED
    BY <1>1, <1>2, <2>3, <2>4, <2>5 DEF PinnedKept
<1>5. QED
  BY <1>3, <1>4

\* An operation on one story runs outside MoveMany's transaction.
LEMMA OperationKeepsTx ==
  ASSUME NEW s, Operation(s)
  PROVE  tx = None /\ tx' = None
<1>1. CASE \E actor \in User, isAdmin \in ByAdmin, type \in Types,
              points \in Estimates \cup {None, Keep}, owner \in Owners \cup {Keep},
              state \in Asked \cup {story[s].state} :
             Update(s, actor, isAdmin, type, points, owner, state)
  BY <1>1 DEF Update
<1>2. CASE \E sec \in Sections, at \in Drops : Move(s, sec, at)
  BY <1>2 DEF Move
<1>3. CASE Delete(s) \/ Restore(s)
  BY <1>3 DEF Delete, Restore
<1>4. QED
  BY <1>1, <1>2, <1>3 DEF Operation

\* The invariant the two properties of steps need.
SInv == IInv /\ PinnedKept

LEMMA SInvCorrect == Spec => []SInv
<1>1. Init => PinnedKept
  BY DEF Init, PinnedKept
<1>2. SInv /\ [Next]_vars => PinnedKept'
  <2> SUFFICES ASSUME SInv, [Next]_vars PROVE PinnedKept'
    OBVIOUS
  <2>1. TypeOK /\ PinnedKept
    BY DEF SInv, IInv
  <2>2. CASE MoveOne
    BY <2>1, <2>2, MoveOneKeepsPinned
  <2>3. CASE \E ids \in Batches, sec \in Sections, at \in Drops :
               BeginMoveMany(ids, sec, at)
    BY <2>3 DEF BeginMoveMany, PinnedKept
  <2>4. CASE tx' = None
    BY <2>4 DEF PinnedKept
  <2>5. CASE UNCHANGED vars
    BY <2>1, <2>5 DEF PinnedKept, vars
  <2>6. ASSUME NEW s \in DOMAIN story, Operation(s)
        PROVE  tx' = None
    BY <2>6, OperationKeepsTx
  <2>7. QED
    BY <2>2, <2>3, <2>4, <2>5, <2>6
       DEF Next, Create, SetPointsOnAll, CommitMoveMany, RollbackMoveMany, Restart
<1>3. QED
  BY <1>1, <1>2, InitGood, NextGood, PTL DEF Spec, SInv
-----------------------------------------------------------------------------
(* Accepted stories are frozen, work in progress stays current *)

Frozen(s) ==
  /\ story'[s].type = story[s].type
  /\ pos'[s] = pos[s]
  /\ \/ story'[s].points = story[s].points
     \/ story[s].type # "feature" /\ pointsOnAll /\ ~pointsOnAll'

\* An update of story s leaves accepted stories alone, s itself if it stays
\* accepted, and takes no story out of the current panel that was in progress.
LEMMA UpdateKeeps ==
  ASSUME IInv, NEW s \in DOMAIN story, NEW actor \in User, NEW isAdmin \in ByAdmin,
         NEW type \in Types, NEW points \in Estimates \cup {None, Keep},
         NEW owner \in Owners \cup {Keep}, NEW state \in Asked \cup {story[s].state},
         Update(s, actor, isAdmin, type, points, owner, state),
         NEW t \in DOMAIN story
  PROVE  /\ story[t].state = "accepted" /\ story'[t].state = "accepted" => Frozen(t)
         /\ story[t].state \in InProgress => SectionOf(story'[t].state) = "current"
<1> DEFINE old   == story[s]
           asked == IF points = Keep THEN old.points ELSE points
<1>1. TypeOK /\ old \in Row /\ s \in Story
  BY DEF IInv, TypeOK, IsTable
<1>2. PICK newPoints, newOwner, stamp :
        /\ story' = WithRow(s, [old EXCEPT !.state = state, !.type = type,
                                           !.points = newPoints, !.owner = newOwner,
                                           !.stamped = stamp])
        /\ newPoints = IF type # "feature" /\ ~pointsOnAll THEN None ELSE asked
  BY DEF Update
<1>3. CASE t # s
  <2>1. story'[t] = story[t]
    BY <1>2, <1>3 DEF WithRow
  <2>2. ASSUME story[t].state = "accepted" PROVE pos'[t] = pos[t]
    <3>1. CASE UNCHANGED pos
      BY <3>1
    <3>2. CASE Place(s, SectionOf(state), Bottom)
      <4>1. SectionOf(state) \in Panels
        BY DEF SectionOf, Panels
      <4>2. QED
        BY <1>1, <1>3, <2>2, <3>2, <4>1, PlaceKeepsAccepted
    <3>3. QED
      BY <3>1, <3>2 DEF Update
  <2>3. story[t].state \in InProgress => SectionOf(story[t].state) = "current"
    BY DEF InProgress, SectionOf
  <2>4. QED
    BY <2>1, <2>2, <2>3 DEF Frozen
<1>4. CASE t = s
  <2>1. /\ story'[s].state = state /\ story'[s].type = type
        /\ story'[s].points = newPoints
    BY <1>1, <1>2 DEF WithRow, Row
  <2>2. ASSUME old.state = "accepted", state = "accepted"
        PROVE  Frozen(s)
    <3>1. type = old.type /\ asked = old.points
      BY <2>2 DEF Update, RewritesHistory
    <3>2. UNCHANGED pos
      BY <2>2 DEF Update
    <3>3. type # "feature" /\ ~pointsOnAll => old.points = None
      BY <3>1 DEF IInv, GoodTable, GoodRow
    <3>4. newPoints = old.points
      BY <1>2, <3>1, <3>3
    <3>5. QED
      BY <2>1, <3>1, <3>2, <3>4 DEF Frozen
  <2>3. ASSUME old.state \in InProgress
        PROVE  SectionOf(state) = "current"
    <3>1. state = old.state \/ state \in transitions[old.state]
      BY DEF Update
    <3>2. QED
      BY <2>3, <3>1 DEF InProgress, transitions, SectionOf
  <2>4. QED
    BY <1>4, <2>1, <2>2, <2>3
<1>5. QED
  BY <1>3, <1>4

LEMMA CreateKeeps ==
  ASSUME IInv, NEW id \in Story, NEW sec \in Sections, NEW type \in Types,
         NEW points \in Estimates \cup {None}, NEW owner \in Owners,
         NEW after \in Story \cup {None},
         Create(id, sec, type, points, owner, after),
         NEW t \in DOMAIN story
  PROVE  /\ story'[t] = story[t]
         /\ story[t].state = "accepted" => pos'[t] = pos[t]
<1>1. t # id /\ TypeOK /\ id \in Int /\ t \in Int
  BY StoryAssumption DEF Create, IsNextId, IInv, TypeOK, IsTable
<1>2. story'[t] = story[t]
  BY <1>1 DEF Create, WithRow
<1>3. sec \in Panels
  BY StoryAssumption
<1>4. PICK at : Place(id, sec, at)
  BY DEF Create
<1>5. QED
  BY <1>1, <1>2, <1>3, <1>4, PlaceKeepsAccepted

LEMMA RestoreKeeps ==
  ASSUME TypeOK, NEW s \in DOMAIN story, Restore(s), NEW t \in DOMAIN story
  PROVE  /\ story'[t].state = story[t].state
         /\ story[t].state = "accepted" => Frozen(t)
<1>1. story[t] \in Row /\ s \in Story
  BY DEF TypeOK, IsTable
<1>2. /\ story'[t].state = story[t].state
      /\ story'[t].type = story[t].type
      /\ story'[t].points = story[t].points
  BY <1>1 DEF Restore, Row
<1>3. ASSUME story[t].state = "accepted" PROVE pos'[t] = pos[t]
  <2>1. CASE UNCHANGED pos
    BY <2>1
  <2>2. CASE Place(s, SectionOf(story[s].state), Bottom) /\ story[s].state # "accepted"
    <3>1. SectionOf(story[s].state) \in Panels
      BY DEF SectionOf, Panels
    <3>2. QED
      BY <1>1, <1>3, <2>2, <3>1, PlaceKeepsAccepted
  <2>3. QED
    BY <2>1, <2>2 DEF Restore
<1>4. QED
  BY <1>2, <1>3 DEF Frozen

LEMMA StepKeepsAccepted ==
  ASSUME SInv, [Next]_vars, NEW t \in DOMAIN story \cap DOMAIN story',
         story[t].state = "accepted", story'[t].state = "accepted"
  PROVE  Frozen(t)
<1>1. IInv /\ TypeOK /\ PinnedKept /\ "accepted" \in Pinned
  BY DEF SInv, IInv, Pinned
<1>2. CASE \E id \in Story, sec \in Sections, type \in Types,
              points \in Estimates \cup {None}, owner \in Owners,
              after \in Story \cup {None} :
             Create(id, sec, type, points, owner, after)
  BY <1>1, <1>2, CreateKeeps DEF Frozen
<1>3. ASSUME NEW s \in DOMAIN story, Operation(s)
      PROVE  Frozen(t)
  <2>1. CASE \E actor \in User, isAdmin \in ByAdmin, type \in Types,
                points \in Estimates \cup {None, Keep}, owner \in Owners \cup {Keep},
                state \in Asked \cup {story[s].state} :
               Update(s, actor, isAdmin, type, points, owner, state)
    BY <1>1, <2>1, UpdateKeeps
  <2>2. CASE \E sec \in Sections, at \in Drops : Move(s, sec, at)
    BY <1>1, <2>2, DragKeepsPinned DEF Move, Frozen
  <2>3. CASE Delete(s)
    <3>1. story[t] \in Row
      BY <1>1 DEF TypeOK, IsTable
    <3>2. QED
      BY <2>3, <3>1 DEF Delete, Frozen, Row
  <2>4. CASE Restore(s)
    BY <1>1, <2>4, RestoreKeeps
  <2>5. QED
    BY <1>3, <2>1, <2>2, <2>3, <2>4 DEF Operation
<1>4. CASE \E on \in Options : SetPointsOnAll(on)
  <2>1. PICK on \in Options : SetPointsOnAll(on)
    BY <1>4
  <2>2. story[t] \in Row
    BY <1>1 DEF TypeOK, IsTable
  <2>3. QED
    BY <2>1, <2>2 DEF SetPointsOnAll, LosesPoints, Frozen, Row
<1>5. CASE MoveOne
  <2>1. CASE UNCHANGED <<story, pos>>
    BY <2>1 DEF Frozen
  <2>2. CASE ~UNCHANGED <<story, pos>>
    <3>1. PICK s, at : /\ Movable(s, tx.section)
                       /\ Place(s, tx.section, at)
                       /\ story' = WithRow(s, Dragged(s, tx.section))
      BY <1>5, <2>2 DEF MoveOne
    <3>2. tx.section \in Sections
      BY <1>1, <1>5 DEF MoveOne, TypeOK, IsTransaction
    <3>3. story'[t] = story[t] /\ pos'[t] = pos[t]
      BY <1>1, <3>1, <3>2, DragKeepsPinned
    <3>4. QED
      BY <3>3 DEF Frozen
  <2>3. QED
    BY <2>1, <2>2
<1>6. CASE RollbackMoveMany
  BY <1>1, <1>6 DEF RollbackMoveMany, PinnedKept, Frozen
<1>7. CASE Restart
  <2>1. PICK rows : /\ story' = Only(Committed, rows)
                    /\ pos' = Only(CommittedPos, rows)
    BY <1>7 DEF Restart, Committed, CommittedPos
  <2>2. t \in rows
    BY <2>1 DEF Only
  <2>3. story'[t] = Committed[t] /\ pos'[t] = CommittedPos[t]
    BY <2>1, <2>2 DEF Only
  <2>4. CASE tx = None
    BY <2>3, <2>4 DEF Committed, CommittedPos, Frozen
  <2>5. CASE tx # None
    BY <1>1, <2>3, <2>5 DEF Committed, CommittedPos, PinnedKept, Frozen
  <2>6. QED
    BY <2>4, <2>5
<1>8. CASE UNCHANGED <<story, pos>>
  BY <1>8 DEF Frozen
<1>9. QED
  BY <1>2, <1>3, <1>4, <1>5, <1>6, <1>7, <1>8
     DEF Next, vars, BeginMoveMany, CommitMoveMany

\* An accepted story keeps its type, its position and, while the project allows
\* points on it, its points, through every drag, batch, rollback and restart
\* around it.
THEOREM AcceptedFrozenCorrect == Spec => AcceptedFrozen
<1>1. SInv /\ [Next]_vars =>
        [\A s \in DOMAIN story \cap DOMAIN story' :
           story[s].state = "accepted" /\ story'[s].state = "accepted" =>
             /\ story'[s].type = story[s].type
             /\ pos'[s] = pos[s]
             /\ \/ story'[s].points = story[s].points
                \/ story[s].type # "feature" /\ pointsOnAll /\ ~pointsOnAll']_vars
  BY StepKeepsAccepted DEF Frozen
<1>2. QED
  BY <1>1, SInvCorrect, PTL DEF Spec, AcceptedFrozen

LEMMA StepKeepsWorkCurrent ==
  ASSUME SInv, [Next]_vars, NEW t \in DOMAIN Committed \cap DOMAIN Committed',
         Committed[t].state \in InProgress
  PROVE  SectionOf(Committed'[t].state) = "current"
<1>1. IInv /\ TypeOK /\ PinnedKept /\ InProgress \subseteq Pinned
  BY DEF SInv, IInv, Pinned
<1>2. SectionOf(Committed[t].state) = "current"
  BY DEF InProgress, SectionOf
<1>3. CASE UNCHANGED Committed
  BY <1>2, <1>3
<1>4. CASE tx = None /\ tx' = None
  <2>1. Committed = story /\ Committed' = story'
    BY <1>4 DEF Committed
  <2>2. CASE \E id \in Story, sec \in Sections, type \in Types,
                points \in Estimates \cup {None}, owner \in Owners,
                after \in Story \cup {None} :
               Create(id, sec, type, points, owner, after)
    BY <1>1, <1>2, <2>1, <2>2, CreateKeeps
  <2>3. ASSUME NEW s \in DOMAIN story, Operation(s)
        PROVE  SectionOf(story'[t].state) = "current"
    <3>1. CASE \E actor \in User, isAdmin \in ByAdmin, type \in Types,
                  points \in Estimates \cup {None, Keep}, owner \in Owners \cup {Keep},
                  state \in Asked \cup {story[s].state} :
                 Update(s, actor, isAdmin, type, points, owner, state)
      BY <1>1, <2>1, <3>1, UpdateKeeps
    <3>2. CASE \E sec \in Sections, at \in Drops : Move(s, sec, at)
      BY <1>1, <1>2, <2>1, <3>2, DragKeepsPinned DEF Move
    <3>3. CASE Delete(s)
      <4>1. story[t] \in Row
        BY <1>1, <2>1 DEF TypeOK, IsTable
      <4>2. story'[t].state = story[t].state
        BY <3>3, <4>1 DEF Delete, Row
      <4>3. QED
        BY <1>2, <2>1, <4>2
    <3>4. CASE Restore(s)
      BY <1>1, <1>2, <2>1, <3>4, RestoreKeeps
    <3>5. QED
      BY <2>3, <3>1, <3>2, <3>3, <3>4 DEF Operation
  <2>4. CASE \E on \in Options : SetPointsOnAll(on)
    <3>1. story[t] \in Row
      BY <1>1, <2>1 DEF TypeOK, IsTable
    <3>2. story'[t].state = story[t].state
      BY <2>1, <2>4, <3>1 DEF SetPointsOnAll, Row
    <3>3. QED
      BY <1>2, <2>1, <3>2
  <2>5. CASE Restart
    <3>1. PICK rows : story' = Only(story, rows)
      BY <1>4, <2>5 DEF Restart
    <3>2. story'[t] = story[t]
      BY <2>1, <3>1 DEF Only
    <3>3. QED
      BY <1>2, <2>1, <3>2
  <2>6. CASE UNCHANGED story
    BY <1>2, <2>1, <2>6
  <2>7. QED
    BY <1>4, <2>1, <2>2, <2>3, <2>4, <2>5, <2>6
       DEF Next, vars, BeginMoveMany, MoveOne, CommitMoveMany, RollbackMoveMany
<1>5. CASE CommitMoveMany
  <2>1. Committed = tx.story /\ Committed' = story /\ tx # None
    BY <1>5 DEF CommitMoveMany, Committed
  <2>2. story[t] = tx.story[t]
    BY <1>1, <2>1 DEF PinnedKept
  <2>3. QED
    BY <1>2, <2>1, <2>2
<1>6. CASE Restart /\ tx # None
  <2>1. PICK rows : story' = Only(tx.story, rows)
    BY <1>6 DEF Restart
  <2>2. Committed' = story' /\ Committed = tx.story
    BY <1>6 DEF Restart, Committed
  <2>3. story'[t] = tx.story[t]
    BY <2>1, <2>2 DEF Only
  <2>4. QED
    BY <1>2, <2>2, <2>3
<1>7. CASE MoveOne
  <2>1. tx # None /\ IsTransaction(tx)
    BY <1>1, <1>7 DEF MoveOne, TypeOK
  <2>2. Committed = tx.story /\ tx'.story = tx.story
    BY <1>7, <2>1 DEF MoveOne, IsTransaction, Committed
  <2>3. CASE tx' # None
    BY <1>2, <2>2, <2>3 DEF Committed
  <2>4. CASE tx' = None
    <3>1. Committed' = story' /\ story[t] = tx.story[t]
      BY <1>1, <2>1, <2>2, <2>4 DEF Committed, PinnedKept
    <3>2. PinnedKept' /\ DOMAIN story = DOMAIN tx.story
      BY <1>1, <1>7, <2>1, MoveOneKeepsPinned DEF PinnedKept
    <3>3. story'[t] = story[t]
      <4>1. CASE UNCHANGED story
        BY <4>1
      <4>2. CASE ~UNCHANGED story
        <5>1. PICK s, at : /\ Movable(s, tx.section)
                           /\ Place(s, tx.section, at)
                           /\ story' = WithRow(s, Dragged(s, tx.section))
          BY <1>7, <4>2 DEF MoveOne
        <5>2. tx.section \in Sections
          BY <2>1 DEF IsTransaction

        <5>3. t \in DOMAIN story /\ story[t].state \in Pinned
          BY <1>1, <2>2, <3>1, <3>2
        <5>4. QED
          BY <1>1, <5>1, <5>2, <5>3, DragKeepsPinned
      <4>3. QED
        BY <4>1, <4>2
    <3>4. QED
      BY <1>2, <2>2, <3>1, <3>3
  <2>5. QED
    BY <2>3, <2>4
<1>8. CASE \E ids \in Batches, sec \in Sections, at \in Drops :
             BeginMoveMany(ids, sec, at)
  <2>1. Committed = story /\ story' = story
    BY <1>8 DEF BeginMoveMany, Committed
  <2>2. tx' # None => tx'.story = story
    BY <1>8 DEF BeginMoveMany
  <2>3. Committed' = story
    BY <2>1, <2>2 DEF Committed
  <2>4. QED
    BY <1>2, <2>1, <2>3
<1>9. CASE UNCHANGED vars
  BY <1>3, <1>9 DEF vars, Committed
<1>10. CASE RollbackMoveMany
  <2>1. Committed = tx.story /\ Committed' = tx.story
    BY <1>10 DEF RollbackMoveMany, Committed
  <2>2. QED
    BY <1>2, <2>1
<1>11. CASE tx = None /\ tx' # None
  <2>1. \E ids \in Batches, sec \in Sections, at \in Drops : BeginMoveMany(ids, sec, at)
    <3>1. ASSUME NEW s \in DOMAIN story, Operation(s) PROVE tx' = None
      BY <3>1, OperationKeepsTx
    <3>2. QED
      BY <1>11, <3>1
         DEF Next, vars, Create, SetPointsOnAll, MoveOne, CommitMoveMany,
             RollbackMoveMany, Restart
  <2>2. QED
    BY <1>8, <2>1
<1>12. CASE tx # None
  <2>1. ASSUME NEW s \in DOMAIN story, Operation(s) PROVE FALSE
    BY <1>12, <2>1, OperationKeepsTx
  <2>2. QED
    BY <1>5, <1>6, <1>7, <1>9, <1>10, <1>12, <2>1
       DEF Next, Create, SetPointsOnAll, BeginMoveMany
<1>13. QED
  BY <1>4, <1>11, <1>12

\* Work in progress never leaves the current panel but by a state change back to
\* unstarted, whatever is dragged, alone or in a batch that commits, fails or is
\* cut off by a restart.
THEOREM WorkStaysCurrentCorrect == Spec => WorkStaysCurrent
<1>1. SInv /\ [Next]_vars =>
        [\A s \in DOMAIN Committed \cap DOMAIN Committed' :
           Committed[s].state \in InProgress =>
             SectionOf(Committed'[s].state) = "current"]_vars
  BY StepKeepsWorkCurrent
<1>2. QED
  BY <1>1, SInvCorrect, PTL DEF Spec, WorkStaysCurrent

-----------------------------------------------------------------------------
(* What a placement does to the order *)

LEMMA PlaceOrders ==
  ASSUME TypeOK, NEW s \in Story, NEW sec, NEW at, Place(s, sec, at)
  PROVE  LET rows  == Scope(story, sec) \ {s}
             below == Below(pos, rows, at)
         IN  /\ IsScope(pos, rows) /\ IsSlot(pos, rows, below)
             /\ DOMAIN pos' = DOMAIN story \cup {s}
             /\ IsScope(pos', rows \cup {s})
             /\ \A a, b \in rows : Before(pos', a, b) <=> Before(pos, a, b)
             /\ \A t \in rows : Before(pos', t, s) <=> t \in below
             /\ \A t \in rows : Before(pos', t, s) <=> ~Before(pos', s, t)
             /\ \A t \in DOMAIN story \ (rows \cup {s}) : pos'[t] = pos[t]
<1> DEFINE rows  == Scope(story, sec) \ {s}
           below == Below(pos, rows, at)
<1>1. rows \in SUBSET DOMAIN story /\ s \notin rows /\ s \in Int /\ DOMAIN pos = DOMAIN story
  BY StoryAssumption DEF Scope, TypeOK
<1>2. IsScope(pos, rows)
  BY <1>1, TableScope
<1>3. Anchored(rows, at) /\ pos' = Placed(pos, rows, s, below)
  BY DEF Place
<1>4. IsSlot(pos, rows, below)
  BY <1>2, <1>3, BelowIsSlot
<1> HIDE DEF rows, below
<1>5. /\ DOMAIN pos' = DOMAIN story \cup {s}
      /\ IsScope(pos', rows \cup {s})
      /\ \A a, b \in rows : Before(pos', a, b) <=> Before(pos, a, b)
      /\ \A t \in below : Before(pos', t, s)
      /\ \A t \in rows \ below : Before(pos', s, t)
      /\ \A t \in DOMAIN story \ (rows \cup {s}) : pos'[t] = pos[t]
  <2>1. s \in Int /\ s \notin rows
    BY <1>1
  <2>2. /\ IsScope(pos', rows \cup {s})
        /\ \A t \in below : Before(pos', t, s)
        /\ \A t \in rows \ below : Before(pos', s, t)
        /\ \A a, b \in rows : Before(pos', a, b) <=> Before(pos, a, b)
    BY <1>2, <1>3, <1>4, <2>1, PlacedKeepsOrder
  <2>3. /\ DOMAIN pos' = DOMAIN story \cup {s}
        /\ \A t \in DOMAIN story \ (rows \cup {s}) : pos'[t] = pos[t]
    BY <1>1, <1>3 DEF Placed, Normalize
  <2>4. QED
    BY <2>2, <2>3
<1>6. \A t \in rows : Before(pos', t, s) <=> ~Before(pos', s, t)
  BY <1>1, <1>5, BeforeTotal
<1>7. \A t \in rows : Before(pos', t, s) <=> t \in below
  BY <1>4, <1>5, <1>6 DEF IsSlot
<1>8. QED
  BY <1>2, <1>4, <1>5, <1>6, <1>7 DEF rows, below

\* A slot that has room costs one row.
LEMMA PlaceWithRoom ==
  ASSUME TypeOK, NEW s, NEW sec, NEW at, Place(s, sec, at),
         LET rows  == Scope(story, sec) \ {s}
             below == Below(pos, rows, at)
         IN  HasRoom(pos, below, rows \ below)
  PROVE  \A t \in DOMAIN pos \ {s} : pos'[t] = pos[t]
BY DEF Place, Placed

\* The bottom always has room.
LEMMA BottomHasRoom ==
  ASSUME NEW rows
  PROVE  Below(pos, rows, Bottom) = rows /\ HasRoom(pos, rows, rows \ rows)
BY DEF Below, Bottom, HasRoom

\* The last place of a panel is below everything that is in it.
LEMMA BottomIsLast ==
  ASSUME TypeOK, NEW s \in Story, NEW sec, Place(s, sec, Bottom)
  PROVE  /\ \A t \in Scope(story, sec) \ {s} : Before(pos', t, s)
         /\ \A t \in DOMAIN pos \ {s} : pos'[t] = pos[t]
<1> DEFINE rows == Scope(story, sec) \ {s}
<1>1. Below(pos, rows, Bottom) = rows /\ HasRoom(pos, rows, rows \ rows)
  BY BottomHasRoom
<1>2. \A t \in rows : Before(pos', t, s) <=> t \in Below(pos, rows, Bottom)
  BY PlaceOrders
<1>3. \A t \in DOMAIN pos \ {s} : pos'[t] = pos[t]
  BY <1>1, PlaceWithRoom
<1>4. QED
  BY <1>1, <1>2, <1>3

-----------------------------------------------------------------------------
(* Stories that join a panel *)

\* What Update does to the row and its place.
LEMMA UpdateJoins ==
  ASSUME TypeOK, NEW s \in DOMAIN story, NEW actor \in User, NEW isAdmin \in ByAdmin,
         NEW type \in Types, NEW points \in Estimates \cup {None, Keep},
         NEW owner \in Owners \cup {Keep}, NEW state \in Asked \cup {story[s].state},
         Update(s, actor, isAdmin, type, points, owner, state)
  PROVE  /\ s \in Story /\ DOMAIN story' = DOMAIN story
         /\ ~story[s].trashed /\ ~story'[s].trashed
         /\ story'[s].state = state /\ state \in States
         /\ \A t \in DOMAIN story \ {s} : story'[t] = story[t]
         /\ IF SectionOf(story[s].state) # SectionOf(state)
            THEN Place(s, SectionOf(state), Bottom) ELSE UNCHANGED pos
<1>1. s \in Story /\ story[s] \in Row
  BY DEF TypeOK, IsTable
<1>2. PICK row \in Row : story' = WithRow(s, row)
  BY UpdateType
<1>3. row.state = state /\ row.trashed = story[s].trashed
  <2>1. story'[s] = row
    BY <1>2 DEF WithRow
  <2>2. PICK newPoints, newOwner, stamp :
          story' = WithRow(s, [story[s] EXCEPT !.state = state, !.type = type,
                                 !.points = newPoints, !.owner = newOwner, !.stamped = stamp])
    BY DEF Update
  <2>3. QED
    BY <1>1, <2>1, <2>2 DEF WithRow, Row
<1>4. state \in States
  BY <1>1, StoryAssumption DEF Row
<1>5. QED
  BY <1>1, <1>2, <1>3, <1>4 DEF WithRow, Update

\* The states of a panel's scope are the states the board shows in it.
LEMMA ScopeStates ==
  ASSUME NEW st \in States, NEW sec \in Panels
  PROVE  st \in OrderedStates(sec) <=> st # "accepted" /\ SectionOf(st) = sec
BY DEF States, Panels, OrderedStates, SectionOf

LEMMA StepJoinsAtTheBottom ==
  ASSUME TypeOK, [Next]_vars, NEW s \in DOMAIN story, NEW sec \in Panels,
         s \in Scope(story', sec) \ Scope(story, sec),
         story[s].state # "accepted",
         tx = None,
         ~\E to \in Sections, at \in Drops : Move(s, to, at),
         NEW t \in Scope(story', sec) \ {s}
  PROVE  Before(pos', t, s)
<1>1. /\ s \in Story /\ story[s] \in Row
      /\ s \in DOMAIN story' /\ ~story'[s].trashed
      /\ story'[s].state \in OrderedStates(sec)
  BY DEF TypeOK, IsTable, Scope
<1>2. story'[s].trashed # story[s].trashed \/ story'[s].state # story[s].state
  BY <1>1 DEF Scope
<1>3. ASSUME NEW u \in DOMAIN story, Operation(u)
      PROVE  Before(pos', t, s)
  <2>1. CASE \E actor \in User, isAdmin \in ByAdmin, type \in Types,
                points \in Estimates \cup {None, Keep}, owner \in Owners \cup {Keep},
                state \in Asked \cup {story[u].state} :
               Update(u, actor, isAdmin, type, points, owner, state)
    <3>1. PICK state :
            /\ u \in Story /\ DOMAIN story' = DOMAIN story
            /\ ~story[u].trashed /\ ~story'[u].trashed
            /\ story'[u].state = state /\ state \in States
            /\ \A v \in DOMAIN story \ {u} : story'[v] = story[v]
            /\ IF SectionOf(story[u].state) # SectionOf(state)
               THEN Place(u, SectionOf(state), Bottom) ELSE UNCHANGED pos
      BY <2>1, UpdateJoins
    <3>2. u = s
      BY <1>2, <3>1
    <3>3. SectionOf(state) = sec
      BY <1>1, <3>1, <3>2, ScopeStates
    <3>4. SectionOf(story[s].state) # sec
      <4>1. story[s].state \notin OrderedStates(sec)
        BY <3>1, <3>2 DEF Scope
      <4>2. QED
        BY <1>1, <4>1, ScopeStates DEF Row
    <3>5. Place(s, sec, Bottom)
      BY <3>1, <3>2, <3>3, <3>4
    <3>6. t \in Scope(story, sec)
      BY <3>1, <3>2 DEF Scope
    <3>7. QED
      BY <1>1, <3>5, <3>6, BottomIsLast
  <2>2. CASE \E to \in Sections, at \in Drops : Move(u, to, at)
    <3>1. u = s
      BY <1>2, <2>2 DEF Move, WithRow
    <3>2. QED
      BY <2>2, <3>1
  <2>3. CASE Delete(u)
    BY <1>1, <1>2, <2>3 DEF Delete, Row
  <2>4. CASE Restore(u)
    <3>1. /\ DOMAIN story' = DOMAIN story
          /\ \A v \in DOMAIN story \ {u} : story'[v] = story[v]
      BY <2>4 DEF Restore
    <3>2. u = s
      BY <1>2, <3>1
    <3>3. Place(s, SectionOf(story[s].state), Bottom) /\ story'[s].state = story[s].state
      BY <1>1, <2>4, <3>2 DEF Restore, Row
    <3>4. SectionOf(story[s].state) = sec
      BY <1>1, <3>3, ScopeStates DEF Row
    <3>5. t \in Scope(story, sec)
      BY <3>1, <3>2 DEF Scope
    <3>6. QED
      BY <1>1, <3>3, <3>4, <3>5, BottomIsLast
  <2>5. QED
    BY <1>3, <2>1, <2>2, <2>3, <2>4 DEF Operation
<1>4. CASE \E id \in Story, type \in Types, to \in Sections,
              points \in Estimates \cup {None}, owner \in Owners,
              after \in Story \cup {None} :
             Create(id, to, type, points, owner, after)
  <2>1. PICK id \in Story : IsNextId(id) /\ \E row : story' = WithRow(id, row)
    BY <1>4 DEF Create
  <2>2. s # id
    BY <1>1, <2>1, StoryAssumption DEF IsNextId
  <2>3. QED
    BY <1>2, <2>1, <2>2 DEF WithRow
<1>5. CASE \E on \in Options : SetPointsOnAll(on)
  BY <1>1, <1>2, <1>5 DEF SetPointsOnAll, Row
<1>6. CASE Restart
  BY <1>1, <1>2, <1>6 DEF Restart, Only
<1>7. CASE UNCHANGED story
  BY <1>2, <1>7
<1>8. QED
  BY <1>3, <1>4, <1>5, <1>6, <1>7
     DEF Next, vars, BeginMoveMany, MoveOne, CommitMoveMany, RollbackMoveMany

\* A story that a change of state or the trash bin brings to a panel goes below
\* everything that is in it, whatever positions the panel has.
THEOREM JoinsAtTheBottomCorrect == Spec => JoinsAtTheBottom
<1>1. TypeOK /\ [Next]_vars =>
        [\A s \in DOMAIN story, sec \in Panels :
           /\ s \in Scope(story', sec) \ Scope(story, sec)
           /\ story[s].state # "accepted"
           /\ tx = None
           /\ ~\E to \in Sections, at \in Drops : Move(s, to, at)
           => \A t \in Scope(story', sec) \ {s} : Before(pos', t, s)]_vars
  BY StepJoinsAtTheBottom
<1>2. QED
  BY <1>1, TypeCorrect, PTL DEF Spec, JoinsAtTheBottom

-----------------------------------------------------------------------------
(* One row per move *)

\* Changing one row at most is changing one row at most.
LEMMA OneRow ==
  ASSUME DOMAIN pos' = DOMAIN pos, NEW s, \A t \in DOMAIN pos \ {s} : pos'[t] = pos[t]
  PROVE  ~(Cardinality(Repositioned) > 1)
<1>1. Repositioned \in SUBSET {s}
  BY DEF Repositioned
<1>2. IsFiniteSet({s}) /\ Cardinality({s}) = 1
  BY FS_Singleton
<1>3. Cardinality(Repositioned) <= 1 /\ IsFiniteSet(Repositioned)
  BY <1>1, <1>2, FS_Subset
<1>4. QED
  BY <1>3, FS_CardinalityType

LEMMA StepChangesOneRow ==
  ASSUME TypeOK, [Next]_vars, tx = None, tx' = None, DOMAIN pos' = DOMAIN pos,
         Cardinality(Repositioned) > 1
  PROVE  rebalances' = (rebalances + 1) % CounterMod
<1>1. \A s : ~\A t \in DOMAIN pos \ {s} : pos'[t] = pos[t]
  BY OneRow
<1>2. pos' # pos
  BY <1>1
<1>3. ASSUME NEW s \in DOMAIN story, Operation(s)
      PROVE  rebalances' = (rebalances + 1) % CounterMod
  <2>1. s \in Story
    BY DEF TypeOK, IsTable
  <2>2. CASE \E sec \in Sections, at \in Drops : Move(s, sec, at)
    <3>1. PICK sec \in Sections, at \in Drops : Move(s, sec, at)
      BY <2>2
    <3>2. Place(s, sec, at) /\ CountRebalance(s, sec, at)
      BY <3>1 DEF Move
    <3>3. ~LET rows  == Scope(story, sec) \ {s}
               below == Below(pos, rows, at)
           IN  HasRoom(pos, below, rows \ below)
      BY <1>1, <3>2, PlaceWithRoom
    <3>4. QED
      BY <3>2, <3>3 DEF CountRebalance
  <2>3. ASSUME NEW sec, Place(s, sec, Bottom) PROVE FALSE
    BY <1>1, <2>1, <2>3, BottomIsLast
  <2>4. ASSUME NEW actor, NEW isAdmin, NEW type, NEW points, NEW owner, NEW state,
               Update(s, actor, isAdmin, type, points, owner, state)
        PROVE  FALSE
    <3>1. UNCHANGED pos \/ Place(s, SectionOf(state), Bottom)
      BY <2>4 DEF Update
    <3>2. QED
      BY <1>2, <2>3, <3>1
  <2>5. ~Delete(s)
    BY <1>2 DEF Delete
  <2>6. ~Restore(s)
    <3>1. Restore(s) => UNCHANGED pos \/ Place(s, SectionOf(story[s].state), Bottom)
      BY DEF Restore
    <3>2. QED
      BY <1>2, <2>3, <3>1
  <2>7. QED
    BY <1>3, <2>2, <2>4, <2>5, <2>6 DEF Operation
<1>4. CASE \E id \in Story, sec \in Sections, type \in Types,
              points \in Estimates \cup {None}, owner \in Owners,
              after \in Story \cup {None} :
             Create(id, sec, type, points, owner, after)
  <2>1. PICK id \in Story : IsNextId(id) /\ \E sec, at : Place(id, sec, at)
    BY <1>4 DEF Create
  <2>2. id \in DOMAIN pos' /\ id \notin DOMAIN story
    BY <2>1, StoryAssumption DEF Place, Placed, IsNextId, TypeOK, IsTable
  <2>3. QED
    BY <2>2 DEF TypeOK
<1>5. CASE Restart
  <2>1. PICK rows : pos' = Only(pos, rows)
    BY <1>5 DEF Restart
  <2>2. \A t \in DOMAIN pos' : pos'[t] = pos[t]
    BY <2>1 DEF Only
  <2>3. QED
    BY <1>1, <2>2
<1>6. QED
  BY <1>2, <1>3, <1>4, <1>5
     DEF Next, vars, SetPointsOnAll, BeginMoveMany, MoveOne, CommitMoveMany,
         RollbackMoveMany

\* A request other than MoveMany writes the position of one story; when it writes
\* more, it was a drag into a slot with no room, and the counter says so.
THEOREM OneRowPerMoveCorrect == Spec => OneRowPerMove
<1>1. TypeOK /\ [Next]_vars =>
        [/\ tx = None /\ tx' = None
         /\ DOMAIN pos' = DOMAIN pos
         /\ Cardinality(Repositioned) > 1
         => rebalances' = (rebalances + 1) % CounterMod]_vars
  BY StepChangesOneRow
<1>2. QED
  BY <1>1, TypeCorrect, PTL DEF Spec, OneRowPerMove

-----------------------------------------------------------------------------
(* MoveMany: what its transaction has done so far *)

Done == {tx.done[i] : i \in DOMAIN tx.done}

\* The stories of the panel that were there, and those of them that were above the
\* drop point when the request came in.
Others == Scope(story, tx.section) \ Done

AboveDrop ==
  IF tx.at.prev # None
  THEN {t \in Others : t = tx.at.prev \/ Before(tx.pos, t, tx.at.prev)}
  ELSE IF tx.at.next # None THEN {t \in Others : Before(tx.pos, t, tx.at.next)}
  ELSE {}

\* The stories moved so far stand at the drop point as one block in the order given;
\* everything else is as it was but for the numbers of the panel.
BatchInHand ==
  tx # None =>
    /\ tx.at \in Drops
    /\ Len(tx.done) + Len(tx.todo) <= LongestBatch
    /\ DOMAIN story = DOMAIN tx.story
    /\ Done \subseteq Scope(story, tx.section)
    /\ \A t \in DOMAIN story \ Done : story[t] = tx.story[t]
    /\ \A t \in DOMAIN story \ Scope(story, tx.section) : pos[t] = tx.pos[t]
    /\ \A t, u \in Others : Before(pos, t, u) <=> Before(tx.pos, t, u)
    /\ \A i, j \in DOMAIN tx.done : i < j => Before(pos, tx.done[i], tx.done[j])
    /\ \A t \in Others, i \in DOMAIN tx.done :
         Before(pos, t, tx.done[i]) <=> t \in AboveDrop

\* The longest batch is as long as any batch the service takes, and at least one
\* story long.
LEMMA LongestBatchBounds ==
  /\ LongestBatch \in Nat /\ LongestBatch >= 1
  /\ \A ids \in Batches : Len(ids) \in 1..MaxIds => Len(ids) <= LongestBatch
<1> DEFINE lengths == {1} \cup ({Len(ids) : ids \in Batches} \cap 1..MaxIds)
           col     == [n \in lengths |-> 0]
<1>1. lengths \subseteq 1..MaxIds /\ lengths # {} /\ 1 \in lengths
  BY DEF MaxIds
<1>2. IsFiniteSet(1..MaxIds)
  <2>1. MaxIds \in Int
    BY DEF MaxIds
  <2>2. QED
    BY <2>1, FS_Interval
<1>3. IsFiniteSet(lengths)
  BY <1>1, <1>2, FS_Subset
<1>4. lengths \subseteq Int /\ DOMAIN col = lengths /\ \A n \in lengths : col[n] = 0
  BY <1>1
<1>5. \A ids \in Batches : Len(ids) \in 1..MaxIds => Len(ids) \in lengths
  OBVIOUS
<1>6. LongestBatch = CHOOSE n \in lengths : \A m \in lengths : m <= n
  BY DEF LongestBatch
<1> HIDE DEF lengths, col
<1>7. IsScope(col, lengths)
  BY <1>3, <1>4 DEF IsScope
<1>8. PICK n \in lengths : \A b \in lengths \ {n} : Before(col, b, n)
  BY <1>1, <1>7, LastExists
<1>9. \A m \in lengths : m <= n
  BY <1>4, <1>8 DEF Before
<1>10. LongestBatch \in lengths /\ \A m \in lengths : m <= LongestBatch
  BY <1>6, <1>9
<1>11. QED
  BY <1>1, <1>5, <1>10

LEMMA BatchBegins ==
  ASSUME TypeOK, NEW ids \in Batches, NEW sec \in Sections, NEW at \in Drops,
         BeginMoveMany(ids, sec, at)
  PROVE  BatchInHand'
<1>1. /\ tx' = [todo |-> ids, done |-> <<>>, section |-> sec, at |-> at,
                story |-> story, pos |-> pos]
      /\ story' = story /\ pos' = pos /\ Len(ids) \in 1..MaxIds
  BY DEF BeginMoveMany
<1>2. /\ tx'.done = <<>> /\ tx'.todo = ids /\ tx'.at = at /\ tx'.section = sec
      /\ tx'.story = story' /\ tx'.pos = pos'
  BY <1>1
<1>3. Done' = {} /\ DOMAIN tx'.done = {} /\ Len(tx'.done) = 0
  BY <1>2 DEF Done
<1>4. Len(tx'.done) + Len(tx'.todo) <= LongestBatch
  BY <1>1, <1>2, <1>3, LongestBatchBounds
<1>5. tx'.at \in Drops
  BY <1>2
<1>6. /\ \A t, u \in Others' : Before(pos', t, u) <=> Before(tx'.pos, t, u)
      /\ \A t \in DOMAIN story' \ Scope(story', tx'.section) : pos'[t] = tx'.pos[t]
  BY <1>2
<1>7. QED
  BY <1>2, <1>3, <1>4, <1>5, <1>6 DEF BatchInHand

\* A story that comes up again is only struck from the list.
LEMMA BatchSkips ==
  ASSUME TypeOK, BatchInHand, tx # None, tx.todo # <<>>,
         tx' = [tx EXCEPT !.todo = Tail(tx.todo)], UNCHANGED <<story, pos>>
  PROVE  BatchInHand'
<1>1. IsTransaction(tx)
  BY DEF TypeOK
<1>2. /\ tx'.done = tx.done /\ tx'.at = tx.at /\ tx'.section = tx.section
      /\ tx'.story = tx.story /\ tx'.pos = tx.pos /\ tx'.todo = Tail(tx.todo)
  BY <1>1 DEF IsTransaction
<1>3. tx.todo \in Seq(Story) /\ tx.done \in Seq(Story)
  BY <1>1 DEF IsTransaction
<1>4. Len(Tail(tx.todo)) = Len(tx.todo) - 1 /\ Len(tx.todo) \in Nat /\ Len(tx.done) \in Nat
  BY <1>3
<1>5. LongestBatch \in Nat
  BY LongestBatchBounds
<1>6. Len(tx'.done) + Len(tx'.todo) <= LongestBatch
  <2> DEFINE d == Len(tx.done)
             m == Len(tx.todo)
  <2>1. d + m <= LongestBatch
    BY DEF BatchInHand
  <2>2. d \in Nat /\ m \in Nat /\ Len(tx'.done) = d /\ Len(tx'.todo) = m - 1
    BY <1>2, <1>4
  <2> HIDE DEF d, m
  <2>3. d + (m - 1) <= LongestBatch
    BY <1>5, <2>1, <2>2
  <2>4. QED
    BY <2>2, <2>3
<1>7. Done' = Done /\ Others' = Others /\ AboveDrop' = AboveDrop
  BY <1>2 DEF Done, Others, AboveDrop
<1>8. QED
  BY <1>2, <1>6, <1>7 DEF BatchInHand

\* The next story goes below the ones that were moved before it and above what was
\* below the drop point.
LEMMA BatchSlot ==
  ASSUME TypeOK, BatchInHand, tx # None, NEW s \in Story \ Done,
         Anchored(Scope(story, tx.section) \ {s}, Slot)
  PROVE  Below(pos, Scope(story, tx.section) \ {s}, Slot) = (AboveDrop \ {s}) \cup Done
<1> DEFINE rows == Scope(story, tx.section) \ {s}
<1>1. IsTransaction(tx)
  BY DEF TypeOK
<1>2. rows = (Others \ {s}) \cup Done /\ Done \cap Others = {}
  BY DEF BatchInHand, Others
<1>3. AboveDrop \subseteq Others
  BY DEF AboveDrop
<1>4. CASE tx.done = <<>>
  <2>1. Done = {} /\ Slot = tx.at
    BY <1>4 DEF Done, Slot
  <2>2. tx.at.bottom = FALSE
    BY DEF BatchInHand, Drops, Placement
  <2>3. \A t, u \in rows : Before(pos, t, u) <=> Before(tx.pos, t, u)
    BY <1>2, <2>1 DEF BatchInHand
  <2>4. Anchored(rows, tx.at)
    BY <2>1
  <2>5. rows = Others \ {s}
    BY <1>2, <2>1
  <2> HIDE DEF rows
  <2>6. CASE tx.at.prev # None
    BY <2>1, <2>3, <2>4, <2>5, <2>6 DEF Below, Preceding, AboveDrop, Anchored, rows
  <2>7. CASE tx.at.prev = None /\ tx.at.next # None
    BY <2>1, <2>3, <2>4, <2>5, <2>7 DEF Below, Preceding, AboveDrop, Anchored, rows
  <2>8. CASE tx.at.prev = None /\ tx.at.next = None
    BY <2>1, <2>2, <2>8 DEF Below, AboveDrop
  <2>9. QED
    BY <2>6, <2>7, <2>8
<1>5. CASE tx.done # <<>>
  <2> DEFINE n    == Len(tx.done)
             last == tx.done[n]
  <2>1. n \in DOMAIN tx.done /\ DOMAIN tx.done = 1..n /\ n \in Nat /\ tx.done \in Seq(Story)
    BY <1>1, <1>5 DEF IsTransaction
  <2>2. last \in Done /\ last \in Story /\ last # None
    BY <2>1, StoryAssumption DEF Done
  <2>3. Slot = After(last)
    BY <1>5 DEF Slot
  <2>4. Below(pos, rows, Slot) = Preceding(pos, rows, last) \cup {last}
    BY <2>2, <2>3 DEF Below, After
  <2>5. \A t \in Done : t = last \/ Before(pos, t, last)
    <3>1. ASSUME NEW i \in DOMAIN tx.done PROVE tx.done[i] = last \/ Before(pos, tx.done[i], last)
      <4>1. i = n \/ i < n
        BY <2>1
      <4>2. QED
        BY <2>1, <4>1 DEF BatchInHand
    <3>2. QED
      BY <3>1 DEF Done
  <2>6. \A t \in Others : Before(pos, t, last) <=> t \in AboveDrop
    BY <2>1 DEF BatchInHand
  <2>7. last \notin Others
    BY <1>2, <2>2
  <2> HIDE DEF rows, last
  <2>8. QED
    BY <1>2, <1>3, <2>2, <2>4, <2>5, <2>6, <2>7 DEF Preceding, rows
<1>6. QED
  BY <1>4, <1>5

\* One more story is moved.
LEMMA BatchMoves ==
  ASSUME TypeOK, BatchInHand, tx # None, tx.todo # <<>>, NEW s, s = Head(tx.todo),
         s \notin Done, Movable(s, tx.section), Place(s, tx.section, Slot),
         story' = WithRow(s, Dragged(s, tx.section)),
         tx' = [tx EXCEPT !.todo = Tail(tx.todo), !.done = Append(tx.done, s)]
  PROVE  BatchInHand'
<1> DEFINE sec   == tx.section
           rows  == Scope(story, sec) \ {s}
           below == Below(pos, rows, Slot)
           n     == Len(tx.done)
<1>1. IsTransaction(tx)
  BY DEF TypeOK
<1>2. /\ tx'.done = Append(tx.done, s) /\ tx'.at = tx.at /\ tx'.section = sec
      /\ tx'.story = tx.story /\ tx'.pos = tx.pos /\ tx'.todo = Tail(tx.todo)
  BY <1>1 DEF IsTransaction
<1>3. tx.todo \in Seq(Story) /\ tx.done \in Seq(Story) /\ sec \in Sections
  BY <1>1 DEF IsTransaction
<1>4. /\ Len(tx'.todo) = Len(tx.todo) - 1 /\ Len(tx.todo) \in Nat /\ n \in Nat
      /\ s \in Story /\ DOMAIN tx.done = 1..n
      /\ Len(tx'.done) = n + 1 /\ DOMAIN tx'.done = 1..n + 1
      /\ tx'.done[n + 1] = s
      /\ \A i \in 1..n : tx'.done[i] = tx.done[i]
  BY <1>2, <1>3
<1>5. Done' = Done \cup {s}
  <2>1. 1..n + 1 = (1..n) \cup {n + 1}
    BY <1>4
  <2>2. \A i \in 1..n : i # n + 1
    BY <1>4
  <2>3. QED
    BY <1>4, <2>1, <2>2 DEF Done
<1>6. Scope(story', sec) = rows \cup {s}
  BY <1>3, DraggedScope
<1>7. Scope(story', tx'.section) = rows \cup {s}
  BY <1>2, <1>6
<1>8. /\ rows = (Others \ {s}) \cup Done /\ Done \cap Others = {}
  BY DEF BatchInHand, Others
<1>9. Others' = Others \ {s}
  BY <1>5, <1>7, <1>8 DEF Others
<1>10. AboveDrop' = AboveDrop \ {s} /\ AboveDrop \subseteq Others
  BY <1>2, <1>9 DEF AboveDrop
<1>11. Anchored(rows, Slot)
  BY DEF Place
<1>12. below = AboveDrop' \cup Done
  BY <1>4, <1>10, <1>11, BatchSlot
<1>13. /\ DOMAIN pos' = DOMAIN story \cup {s}
       /\ \A a, b \in rows : Before(pos', a, b) <=> Before(pos, a, b)
       /\ \A t \in rows : Before(pos', t, s) <=> t \in below
       /\ \A t \in DOMAIN story \ (rows \cup {s}) : pos'[t] = pos[t]
  BY <1>4, PlaceOrders
<1> HIDE DEF rows, below
<1>14. /\ DOMAIN story' = DOMAIN story /\ s \in DOMAIN story
       /\ \A t \in DOMAIN story \ {s} : story'[t] = story[t]
  BY DEF Movable, WithRow
<1>15. tx'.at \in Drops
  BY <1>2 DEF BatchInHand
<1>16. Len(tx'.done) + Len(tx'.todo) <= LongestBatch
  <2> DEFINE m == Len(tx.todo)
  <2>1. n + m <= LongestBatch
    BY DEF BatchInHand
  <2>2. LongestBatch \in Nat
    BY LongestBatchBounds
  <2>3. m \in Nat /\ n \in Nat /\ Len(tx'.done) = n + 1 /\ Len(tx'.todo) = m - 1
    BY <1>4
  <2> HIDE DEF m, n
  <2>4. (n + 1) + (m - 1) <= LongestBatch
    BY <2>1, <2>2, <2>3
  <2>5. QED
    BY <2>3, <2>4
<1>17. DOMAIN story' = DOMAIN tx'.story
  BY <1>2, <1>14 DEF BatchInHand
<1>18. Done' \subseteq Scope(story', tx'.section)
  BY <1>5, <1>7, <1>8
<1>19. \A t \in DOMAIN story' \ Done' : story'[t] = tx'.story[t]
  BY <1>2, <1>5, <1>14 DEF BatchInHand
<1>20. \A t \in DOMAIN story' \ Scope(story', tx'.section) : pos'[t] = tx'.pos[t]
  <2>1. \A t \in DOMAIN story \ Scope(story, sec) : pos[t] = tx.pos[t]
    BY DEF BatchInHand
  <2>2. QED
    BY <1>2, <1>7, <1>13, <1>14, <2>1 DEF rows
<1>21. \A t, u \in Others' : Before(pos', t, u) <=> Before(tx'.pos, t, u)
  <2>1. \A t, u \in Others : Before(pos, t, u) <=> Before(tx.pos, t, u)
    BY DEF BatchInHand
  <2>2. \A t, u \in Others' : Before(pos', t, u) <=> Before(pos, t, u)
    BY <1>8, <1>9, <1>13
  <2>3. QED
    BY <1>2, <1>9, <2>1, <2>2
<1>22. \A i \in 1..n : tx'.done[i] \in Done /\ tx'.done[i] = tx.done[i]
  BY <1>4 DEF Done
<1>23. \A i, j \in DOMAIN tx'.done : i < j => Before(pos', tx'.done[i], tx'.done[j])
  <2> SUFFICES ASSUME NEW i \in DOMAIN tx'.done, NEW j \in DOMAIN tx'.done, i < j
               PROVE  Before(pos', tx'.done[i], tx'.done[j])
    OBVIOUS
  <2>1. i \in 1..n
    BY <1>4
  <2>2. CASE j \in 1..n
    <3>1. Before(pos, tx.done[i], tx.done[j])
      BY <1>4, <2>1, <2>2 DEF BatchInHand
    <3>2. QED
      BY <1>8, <1>13, <1>22, <2>1, <2>2, <3>1
  <2>3. CASE j = n + 1
    BY <1>4, <1>8, <1>12, <1>13, <1>22, <2>1, <2>3
  <2>4. QED
    BY <1>4, <2>2, <2>3
<1>24. \A t \in Others', i \in DOMAIN tx'.done :
         Before(pos', t, tx'.done[i]) <=> t \in AboveDrop'
  <2> SUFFICES ASSUME NEW t \in Others', NEW i \in DOMAIN tx'.done
               PROVE  Before(pos', t, tx'.done[i]) <=> t \in AboveDrop'
    OBVIOUS
  <2>1. t \in rows /\ t \in Others /\ t \notin Done /\ t # s
    BY <1>8, <1>9
  <2>2. CASE i \in 1..n
    <3>1. Before(pos, t, tx.done[i]) <=> t \in AboveDrop
      BY <1>4, <2>1, <2>2 DEF BatchInHand
    <3>2. QED
      BY <1>8, <1>10, <1>13, <1>22, <2>1, <2>2, <3>1
  <2>3. CASE i = n + 1
    BY <1>4, <1>12, <1>13, <2>1, <2>3
  <2>4. QED
    BY <1>4, <2>2, <2>3
<1>25. QED
  BY <1>15, <1>16, <1>17, <1>18, <1>19, <1>20, <1>21, <1>23, <1>24 DEF BatchInHand

LEMMA MoveOneKeepsBatch ==
  ASSUME TypeOK, BatchInHand, MoveOne
  PROVE  BatchInHand'
<1>1. tx # None /\ tx.todo # <<>>
  BY DEF MoveOne
<1>2. Seen(Head(tx.todo)) <=> Head(tx.todo) \in Done
  BY DEF Seen, Done
<1>3. CASE Seen(Head(tx.todo))
  <2>1. tx' = [tx EXCEPT !.todo = Tail(tx.todo)] /\ UNCHANGED <<story, pos>>
    BY <1>3 DEF MoveOne
  <2>2. QED
    BY <1>1, <2>1, BatchSkips
<1>4. CASE ~Seen(Head(tx.todo))
  <2> DEFINE s == Head(tx.todo)
  <2>1. /\ Movable(s, tx.section) /\ Place(s, tx.section, Slot)
        /\ story' = WithRow(s, Dragged(s, tx.section))
        /\ tx' = [tx EXCEPT !.todo = Tail(tx.todo), !.done = Append(tx.done, s)]
    BY <1>4 DEF MoveOne
  <2>2. s \notin Done
    BY <1>2, <1>4
  <2>3. s = Head(tx.todo)
    OBVIOUS
  <2> HIDE DEF s
  <2>4. QED
    BY <1>1, <2>1, <2>2, <2>3, BatchMoves
<1>5. QED
  BY <1>3, <1>4

\* MoveOne does not end the transaction.
LEMMA MoveOneStays ==
  ASSUME TypeOK, MoveOne
  PROVE  tx' # None
<1>1. tx # None /\ tx.todo # <<>> /\ IsTransaction(tx)
  BY DEF MoveOne, TypeOK
<1>2. tx.todo \in Seq(Story) /\ tx.done \in Seq(Story)
  BY <1>1 DEF IsTransaction
<1>3. Head(tx.todo) \in Story /\ Tail(tx.todo) \in Seq(Story)
  BY <1>1, <1>2
<1>4. Append(tx.done, Head(tx.todo)) \in Seq(Story)
  BY <1>2, <1>3
<1>5. \/ tx' = [tx EXCEPT !.todo = Tail(tx.todo)]
      \/ tx' = [tx EXCEPT !.todo = Tail(tx.todo), !.done = Append(tx.done, Head(tx.todo))]
  BY DEF MoveOne
<1>6. IsTransaction(tx')
  BY <1>1, <1>3, <1>4, <1>5 DEF IsTransaction
<1>7. QED
  BY <1>6, TransactionIsSome

\* Everything a MoveMany has done when it ends.
LEMMA BatchLands ==
  ASSUME BatchInHand, tx # None, UNCHANGED <<story, pos>>
  PROVE  LandsAt(tx.done, tx.section, tx.at)
<1> DEFINE others == {t \in Scope(story', tx.section) : \A i \in DOMAIN tx.done : tx.done[i] # t}
<1>1. others = Others
  BY DEF Others, Done
<1>2. CommittedPos = tx.pos
  BY DEF CommittedPos
<1>3. \A i \in DOMAIN tx.done : tx.done[i] \in Scope(story', tx.section)
  BY DEF BatchInHand, Done
<1>4. \A i, j \in DOMAIN tx.done : i < j => Before(pos', tx.done[i], tx.done[j])
  BY DEF BatchInHand
<1>5. \A t, u \in others : Before(pos', t, u) <=> Before(CommittedPos, t, u)
  BY <1>1, <1>2 DEF BatchInHand
<1>6. \A t \in others, i \in DOMAIN tx.done :
        Before(pos', t, tx.done[i]) <=> t \in AboveDrop
  BY <1>1 DEF BatchInHand
<1> HIDE DEF others
<1>7. AboveDrop = IF tx.at.prev # None
                  THEN {t \in others : t = tx.at.prev \/ Before(CommittedPos, t, tx.at.prev)}
                  ELSE IF tx.at.next # None
                  THEN {t \in others : Before(CommittedPos, t, tx.at.next)}
                  ELSE {}
  BY <1>1, <1>2 DEF AboveDrop
<1>8. QED
  BY <1>3, <1>4, <1>5, <1>6, <1>7 DEF LandsAt, others

\* The invariant of the whole service: the rows, what MoveMany left alone, and how
\* far it has come.
BInv == SInv /\ BatchInHand

LEMMA BInvCorrect == Spec => []BInv
<1>1. Init => BatchInHand
  BY DEF Init, BatchInHand
<1>2. TypeOK /\ BatchInHand /\ [Next]_vars => BatchInHand'
  <2> SUFFICES ASSUME TypeOK, BatchInHand, [Next]_vars PROVE BatchInHand'
    OBVIOUS
  <2>1. CASE MoveOne
    BY <2>1, MoveOneKeepsBatch
  <2>2. CASE \E ids \in Batches, sec \in Sections, at \in Drops :
               BeginMoveMany(ids, sec, at)
    BY <2>2, BatchBegins
  <2>3. CASE tx' = None
    BY <2>3 DEF BatchInHand
  <2>4. CASE UNCHANGED vars
    <3>1. UNCHANGED <<story, pos, tx>>
      BY <2>4 DEF vars
    <3>2. Done' = Done /\ Others' = Others /\ AboveDrop' = AboveDrop
      BY <3>1 DEF Done, Others, AboveDrop
    <3>3. QED
      BY <3>1, <3>2 DEF BatchInHand
  <2>5. ASSUME NEW s \in DOMAIN story, Operation(s)
        PROVE  tx' = None
    BY <2>5, OperationKeepsTx
  <2>6. QED
    BY <2>1, <2>2, <2>3, <2>4, <2>5
       DEF Next, Create, SetPointsOnAll, CommitMoveMany, RollbackMoveMany, Restart
<1>3. SInv => TypeOK
  BY DEF SInv, IInv
<1>4. QED
  BY <1>1, <1>2, <1>3, SInvCorrect, PTL DEF Spec, BInv

LEMMA StepEndsMoveMany ==
  ASSUME TypeOK, TypeOK', BatchInHand, [Next]_vars, tx # None, tx' = None
  PROVE  \/ tx.todo = <<>> /\ LandsAt(tx.done, tx.section, tx.at)
         \/ /\ story' = Only(tx.story, DOMAIN story')
            /\ pos' = Only(tx.pos, DOMAIN story')
<1>1. IsTransaction(tx)
  BY DEF TypeOK
<1>2. IsTable(tx.story) /\ tx.pos \in [DOMAIN tx.story -> Int]
  BY <1>1 DEF IsTransaction
<1>3. CASE CommitMoveMany
  <2>1. tx.todo = <<>> /\ UNCHANGED <<story, pos>>
    BY <1>3 DEF CommitMoveMany
  <2>2. QED
    BY <2>1, BatchLands
<1>4. CASE RollbackMoveMany
  <2>1. story' = tx.story /\ pos' = tx.pos
    BY <1>4 DEF RollbackMoveMany
  <2>2. QED
    BY <1>2, <2>1 DEF Only, IsTable
<1>5. CASE Restart
  <2>1. PICK purged \in SUBSET {t \in DOMAIN tx.story : tx.story[t].trashed} :
          /\ story' = Only(tx.story, DOMAIN tx.story \ purged)
          /\ pos' = Only(tx.pos, DOMAIN tx.story \ purged)
    BY <1>5 DEF Restart
  <2>2. DOMAIN story' = DOMAIN tx.story \ purged
    BY <2>1 DEF Only
  <2>3. QED
    BY <2>1, <2>2
<1>6. CASE MoveOne
  BY <1>6, MoveOneStays
<1>7. CASE UNCHANGED vars
  BY <1>7 DEF vars
<1>8. ASSUME NEW s \in DOMAIN story, Operation(s)
      PROVE  FALSE
  BY <1>8, OperationKeepsTx
<1>9. QED
  BY <1>3, <1>4, <1>5, <1>6, <1>7, <1>8
     DEF Next, Create, SetPointsOnAll, BeginMoveMany

\* MoveMany is all or nothing, for a batch of any length into a panel of any size:
\* a commit leaves the whole batch at the drop point, an error or a restart leaves
\* nothing of it.
THEOREM MoveManyAllOrNothingCorrect == Spec => MoveManyAllOrNothing
<1>1. TypeOK /\ TypeOK' /\ BatchInHand /\ [Next]_vars =>
        [tx # None /\ tx' = None =>
           \/ tx.todo = <<>> /\ LandsAt(tx.done, tx.section, tx.at)
           \/ /\ story' = Only(tx.story, DOMAIN story')
              /\ pos' = Only(tx.pos, DOMAIN story')]_vars
  BY StepEndsMoveMany
<1>2. QED
  BY <1>1, TypeCorrect, BInvCorrect, PTL DEF Spec, BInv, MoveManyAllOrNothing

-----------------------------------------------------------------------------
(* The board that a table shows *)

PanelOf(tbl) ==
  [s \in Story |->
     IF s \in DOMAIN tbl /\ ~tbl[s].trashed /\ tbl[s].state # "accepted"
     THEN SectionOf(tbl[s].state) ELSE None]

OrderOf(tbl, col) ==
  {e \in Story \X Story :
     /\ PanelOf(tbl)[e[1]] = PanelOf(tbl)[e[2]]
     /\ PanelOf(tbl)[e[1]] # None
     /\ Before(col, e[1], e[2])}

\* A table with its positions.
IsStored(tbl, col) == IsTable(tbl) /\ col \in [DOMAIN tbl -> Int]

\* The panel of a story is the scope it is ordered in.
LEMMA PanelIsScope ==
  ASSUME NEW tbl, IsTable(tbl), NEW t \in Story
  PROVE  /\ PanelOf(tbl)[t] \in Panels \cup {None}
         /\ \A p \in Panels : PanelOf(tbl)[t] = p <=> t \in Scope(tbl, p)
         /\ PanelOf(tbl)[t] = None <=> \A p \in Panels : t \notin Scope(tbl, p)
<1>1. CASE t \in DOMAIN tbl
  <2>1. tbl[t].state \in States /\ tbl[t].trashed \in BOOLEAN
    BY <1>1 DEF IsTable, Row
  <2>2. SectionOf(tbl[t].state) \in Panels
    BY <2>1 DEF SectionOf, States, Panels
  <2>3. \A p \in Panels : tbl[t].state \in OrderedStates(p) <=>
          tbl[t].state # "accepted" /\ SectionOf(tbl[t].state) = p
    BY <2>1 DEF SectionOf, OrderedStates, States, Panels
  <2>4. QED
    BY <1>1, <2>2, <2>3, StoryAssumption DEF PanelOf, Scope
<1>2. CASE t \notin DOMAIN tbl
  BY <1>2, StoryAssumption DEF PanelOf, Scope
<1>3. QED
  BY <1>1, <1>2

\* A story is in one scope at most.
LEMMA OneScope ==
  ASSUME NEW tbl, IsTable(tbl), NEW p \in Panels, NEW q \in Panels,
         NEW t \in Scope(tbl, p), t \in Scope(tbl, q)
  PROVE  p = q
<1>1. t \in Story
  BY DEF Scope, IsTable
<1>2. QED
  BY <1>1, PanelIsScope

LEMMA OrderPairs ==
  ASSUME NEW tbl, IsTable(tbl), NEW col, NEW a \in Story, NEW b \in Story
  PROVE  <<a, b>> \in OrderOf(tbl, col) <=>
           \E p \in Panels : a \in Scope(tbl, p) /\ b \in Scope(tbl, p) /\ Before(col, a, b)
<1>1. /\ PanelOf(tbl)[a] \in Panels \cup {None}
      /\ \A p \in Panels : PanelOf(tbl)[a] = p <=> a \in Scope(tbl, p)
      /\ \A p \in Panels : PanelOf(tbl)[b] = p <=> b \in Scope(tbl, p)
  BY PanelIsScope
<1>2. <<a, b>> \in OrderOf(tbl, col) <=>
        /\ PanelOf(tbl)[a] = PanelOf(tbl)[b] /\ PanelOf(tbl)[a] # None
        /\ Before(col, a, b)
  BY DEF OrderOf
<1>3. None \notin Panels
  BY StoryAssumption
<1>4. QED
  BY <1>1, <1>2, <1>3

LEMMA StoredScope ==
  ASSUME NEW tbl, NEW col, IsStored(tbl, col)
  PROVE  IsScope(col, DOMAIN tbl)
<1>1. IsFiniteSet(DOMAIN tbl) /\ DOMAIN tbl \subseteq Int
  BY StoryAssumption, FS_Subset DEF IsStored, IsTable
<1>2. QED
  BY <1>1 DEF IsScope, IsStored

\* Every table shows a board: the stories of each panel are in a strict total order.
LEMMA BoardOrdered ==
  ASSUME NEW tbl, NEW col, IsStored(tbl, col)
  PROVE  /\ PanelOf(tbl) \in [Story -> Panels \cup {None}]
         /\ OrderOf(tbl, col) \in SUBSET (Story \X Story)
         /\ Board!Ordered(PanelOf(tbl), OrderOf(tbl, col))
<1> DEFINE pl == PanelOf(tbl)
           bf == OrderOf(tbl, col)
<1>1. IsTable(tbl) /\ IsScope(col, DOMAIN tbl)
  BY StoredScope DEF IsStored
<1>2. pl \in [Story -> Panels \cup {None}]
  <2>1. \A t \in Story : pl[t] \in Panels \cup {None}
    BY <1>1, PanelIsScope
  <2>2. QED
    BY <2>1 DEF PanelOf
<1>3. bf \in SUBSET (Story \X Story)
  BY DEF OrderOf
<1>4. \A a, b \in Story : <<a, b>> \in bf <=>
        \E p \in Panels : a \in Scope(tbl, p) /\ b \in Scope(tbl, p) /\ Before(col, a, b)
  BY <1>1, OrderPairs
<1>5. \A t \in Story : \A p \in Panels : pl[t] = p <=> t \in Scope(tbl, p)
  BY <1>1, PanelIsScope
<1>6. \A p : Scope(tbl, p) \subseteq DOMAIN tbl
  BY DEF Scope
<1>7. None \notin Panels
  BY StoryAssumption
<1> HIDE DEF pl, bf
<1>8. ASSUME NEW a \in Story, NEW b \in Story, <<a, b>> \in bf
      PROVE  pl[a] = pl[b] /\ pl[a] # None /\ <<b, a>> \notin bf
  <2>1. PICK p \in Panels : a \in Scope(tbl, p) /\ b \in Scope(tbl, p) /\ Before(col, a, b)
    BY <1>4, <1>8
  <2>2. a \in DOMAIN tbl /\ b \in DOMAIN tbl
    BY <1>6, <2>1
  <2>3. a # b
    BY <1>1, <2>1, <2>2, BeforeIrreflexive
  <2>4. ~Before(col, b, a)
    BY <1>1, <2>1, <2>2, <2>3, BeforeTotal
  <2>5. QED
    BY <1>4, <1>5, <1>7, <2>1, <2>4
<1>9. ASSUME NEW a \in Story, NEW b \in Story, a # b, pl[a] = pl[b], pl[a] # None
      PROVE  <<a, b>> \in bf \/ <<b, a>> \in bf
  <2>1. pl[a] \in Panels /\ a \in Scope(tbl, pl[a]) /\ b \in Scope(tbl, pl[a])
    BY <1>2, <1>5, <1>9
  <2>2. Before(col, a, b) \/ Before(col, b, a)
    BY <1>1, <1>6, <1>9, <2>1, BeforeTotal
  <2>3. QED
    BY <1>4, <2>1, <2>2
<1>10. ASSUME NEW a \in Story, NEW b \in Story, NEW c \in Story,
              <<a, b>> \in bf, <<b, c>> \in bf
       PROVE  <<a, c>> \in bf
  <2>1. PICK p \in Panels : a \in Scope(tbl, p) /\ b \in Scope(tbl, p) /\ Before(col, a, b)
    BY <1>4, <1>10
  <2>2. PICK q \in Panels : b \in Scope(tbl, q) /\ c \in Scope(tbl, q) /\ Before(col, b, c)
    BY <1>4, <1>10
  <2>3. p = q
    BY <1>1, <2>1, <2>2, OneScope
  <2>4. Before(col, a, c)
    BY <1>1, <1>6, <2>1, <2>2, BeforeTransitive
  <2>5. QED
    BY <1>4, <2>1, <2>2, <2>3, <2>4
<1>11. Board!Ordered(pl, bf)
  BY <1>8, <1>9, <1>10 DEF Board!Ordered
<1>12. QED
  BY <1>2, <1>3, <1>11 DEF pl, bf

\* Two tables with the same scopes in the same orders show the same board.
LEMMA SameBoard ==
  ASSUME NEW tbl, NEW col, IsStored(tbl, col), NEW new, NEW colNew, IsStored(new, colNew),
         \A p \in Panels : Scope(new, p) = Scope(tbl, p),
         \A p \in Panels : \A a, b \in Scope(tbl, p) :
           Before(colNew, a, b) <=> Before(col, a, b)
  PROVE  PanelOf(new) = PanelOf(tbl) /\ OrderOf(new, colNew) = OrderOf(tbl, col)
<1>1. IsTable(tbl) /\ IsTable(new)
  BY DEF IsStored
<1>2. ASSUME NEW t \in Story PROVE PanelOf(new)[t] = PanelOf(tbl)[t]
  BY <1>1, PanelIsScope
<1>3. PanelOf(new) = PanelOf(tbl)
  BY <1>2 DEF PanelOf
<1>4. ASSUME NEW a \in Story, NEW b \in Story
      PROVE  <<a, b>> \in OrderOf(new, colNew) <=> <<a, b>> \in OrderOf(tbl, col)
  BY <1>1, OrderPairs
<1>5. OrderOf(new, colNew) = OrderOf(tbl, col)
  <2>1. OrderOf(new, colNew) \in SUBSET (Story \X Story)
    BY DEF OrderOf
  <2>2. OrderOf(tbl, col) \in SUBSET (Story \X Story)
    BY DEF OrderOf
  <2>3. ASSUME NEW e \in Story \X Story
        PROVE  e \in OrderOf(new, colNew) <=> e \in OrderOf(tbl, col)
    <3>1. PICK a \in Story, b \in Story : e = <<a, b>>
      OBVIOUS
    <3>2. QED
      BY <1>4, <3>1
  <2>4. QED
    BY <2>1, <2>2, <2>3
<1>6. QED
  BY <1>3, <1>5

-----------------------------------------------------------------------------
(* One block of stories goes somewhere: a step of the board *)

\* Board counts as this module does.
LEMMA BoardCounts == \A S : Board!Cardinality(S) = Cardinality(S)
<1>1. QED
  BY DEF Cardinality, Board!Cardinality

LEMMA BlockStep ==
  ASSUME NEW tbl, NEW col, IsStored(tbl, col), NEW new, NEW colNew, IsStored(new, colNew),
         NEW G \in SUBSET Story, G # {},
         \A p \in Panels : Scope(new, p) \ G = Scope(tbl, p) \ G,
         \A p \in Panels : \A a, b \in Scope(tbl, p) \ G :
           Before(colNew, a, b) <=> Before(col, a, b),
         \/ /\ Cardinality(G) <= LongestBatch
            /\ \E p \in Panels :
                 /\ G \subseteq Scope(new, p)
                 /\ \A t \in Scope(new, p) \ G :
                      \/ \A s \in G : Before(colNew, t, s)
                      \/ \A s \in G : Before(colNew, s, t)
         \/ \A p \in Panels : Scope(new, p) \cap G = {}
  PROVE  Board!Step(PanelOf(tbl), OrderOf(tbl, col), PanelOf(new), OrderOf(new, colNew))
<1> DEFINE pl    == PanelOf(tbl)
           bf    == OrderOf(tbl, col)
           plNew == PanelOf(new)
           bfNew == OrderOf(new, colNew)
<1>1. IsTable(tbl) /\ IsTable(new)
  BY DEF IsStored
<1>2. /\ plNew \in [Story -> Panels \cup {None}]
      /\ bfNew \in SUBSET (Story \X Story)
      /\ Board!Ordered(plNew, bfNew)
  BY BoardOrdered
<1>3. \A t \in Story : /\ \A p \in Panels : pl[t] = p <=> t \in Scope(tbl, p)
                       /\ pl[t] = None <=> \A p \in Panels : t \notin Scope(tbl, p)
  BY <1>1, PanelIsScope
<1>4. \A t \in Story : /\ \A p \in Panels : plNew[t] = p <=> t \in Scope(new, p)
                       /\ plNew[t] = None <=> \A p \in Panels : t \notin Scope(new, p)
                       /\ plNew[t] \in Panels \cup {None}
  BY <1>1, PanelIsScope
<1>5. \A a, b \in Story : <<a, b>> \in bf <=>
        \E p \in Panels : a \in Scope(tbl, p) /\ b \in Scope(tbl, p) /\ Before(col, a, b)
  BY <1>1, OrderPairs
<1>6. \A a, b \in Story : <<a, b>> \in bfNew <=>
        \E p \in Panels : a \in Scope(new, p) /\ b \in Scope(new, p) /\ Before(colNew, a, b)
  BY <1>1, OrderPairs
<1> HIDE DEF pl, bf, plNew, bfNew
<1>7. Board!SameOutside(G, pl, bf, plNew, bfNew)
  <2> SUFFICES ASSUME NEW a \in Story \ G
               PROVE  /\ plNew[a] = pl[a]
                      /\ \A b \in Story \ G : <<a, b>> \in bfNew <=> <<a, b>> \in bf
    BY DEF Board!SameOutside
  <2>1. \A p \in Panels : a \in Scope(new, p) <=> a \in Scope(tbl, p)
    OBVIOUS
  <2>2. plNew[a] = pl[a]
    BY <1>3, <1>4, <2>1
  <2>3. ASSUME NEW b \in Story \ G
        PROVE  <<a, b>> \in bfNew <=> <<a, b>> \in bf
    <3>1. \A p \in Panels : b \in Scope(new, p) <=> b \in Scope(tbl, p)
      OBVIOUS
    <3>2. \A p \in Panels : a \in Scope(tbl, p) /\ b \in Scope(tbl, p) =>
            (Before(colNew, a, b) <=> Before(col, a, b))
      OBVIOUS
    <3>3. QED
      BY <1>5, <1>6, <2>1, <3>1, <3>2
  <2>4. QED
    BY <2>2, <2>3
<1>8. ASSUME NEW p \in Panels, G \subseteq Scope(new, p),
             \A t \in Scope(new, p) \ G :
               \/ \A s \in G : Before(colNew, t, s)
               \/ \A s \in G : Before(colNew, s, t)
      PROVE  Board!Block(G, p, plNew, bfNew)
  <2>1. \A s \in G : plNew[s] = p
    BY <1>4, <1>8
  <2>2. ASSUME NEW t \in Story \ G, plNew[t] = p
        PROVE  \/ \A s \in G : <<t, s>> \in bfNew
               \/ \A s \in G : <<s, t>> \in bfNew
    <3>1. t \in Scope(new, p) \ G
      BY <1>4, <2>2
    <3>2. CASE \A s \in G : Before(colNew, t, s)
      BY <1>6, <1>8, <3>1, <3>2
    <3>3. CASE \A s \in G : Before(colNew, s, t)
      BY <1>6, <1>8, <3>1, <3>3
    <3>4. QED
      BY <1>8, <3>1, <3>2, <3>3
  <2>3. QED
    BY <2>1, <2>2 DEF Board!Block
<1>9. \/ Cardinality(G) <= LongestBatch /\ \E p \in Panels : Board!Block(G, p, plNew, bfNew)
      \/ \A s \in G : plNew[s] = None
  <2>1. CASE \A p \in Panels : Scope(new, p) \cap G = {}
    BY <1>4, <2>1
  <2>2. QED
    BY <1>8, <2>1
<1>10. G \in (SUBSET Story) \ {{}}
  OBVIOUS
<1>11. \E H \in (SUBSET Story) \ {{}} :
         /\ Board!SameOutside(H, pl, bf, plNew, bfNew)
         /\ \/ /\ Cardinality(H) <= LongestBatch
               /\ \E p \in Panels : Board!Block(H, p, plNew, bfNew)
            \/ \A s \in H : plNew[s] = None
  BY <1>7, <1>9, <1>10
<1>12. Board!Step(pl, bf, plNew, bfNew)
  BY <1>2, <1>11, BoardCounts DEF Board!Step
<1>13. QED
  BY <1>12 DEF pl, bf, plNew, bfNew

\* What readers see is a board.
LEMMA BoardShown ==
  ASSUME TypeOK
  PROVE  /\ IsStored(Committed, CommittedPos)
         /\ BoardPanel = PanelOf(Committed)
         /\ BoardBefore = OrderOf(Committed, CommittedPos)
<1>1. IsStored(Committed, CommittedPos)
  BY DEF IsStored, TypeOK, IsTransaction, Committed, CommittedPos
<1>2. OnBoard \subseteq Story
  BY <1>1 DEF OnBoard, IsStored, IsTable
<1>3. BoardPanel = PanelOf(Committed)
  BY DEF BoardPanel, PanelOf, OnBoard
<1>4. \A t \in Story : t \in OnBoard <=> PanelOf(Committed)[t] # None
  <2>1. ASSUME NEW t \in OnBoard PROVE PanelOf(Committed)[t] # None
    <3>1. Committed[t].state \in States
      BY <1>1 DEF OnBoard, IsStored, IsTable, Row
    <3>2. SectionOf(Committed[t].state) \in Panels
      BY <3>1 DEF SectionOf, Panels
    <3>3. QED
      BY <1>2, <3>2, StoryAssumption DEF PanelOf, OnBoard
  <2>2. ASSUME NEW t \in Story \ OnBoard PROVE PanelOf(Committed)[t] = None
    BY DEF PanelOf, OnBoard
  <2>3. QED
    BY <2>1, <2>2
<1>5. \A t \in OnBoard : PanelOf(Committed)[t] = SectionOf(Committed[t].state)
  BY <1>2 DEF PanelOf, OnBoard
<1>6. BoardBefore = OrderOf(Committed, CommittedPos)
  <2>1. ASSUME NEW e \in Story \X Story
        PROVE  e \in BoardBefore <=> e \in OrderOf(Committed, CommittedPos)
    <3>1. e[1] \in Story /\ e[2] \in Story
      OBVIOUS
    <3>2. e \in OnBoard \X OnBoard <=> e[1] \in OnBoard /\ e[2] \in OnBoard
      <4>1. PICK a \in Story, b \in Story : e = <<a, b>>
        OBVIOUS
      <4>2. QED
        BY <4>1
    <3>3. QED
      BY <1>4, <1>5, <3>1, <3>2 DEF BoardBefore, OrderOf
  <2>2. BoardBefore \subseteq Story \X Story /\ OrderOf(Committed, CommittedPos) \subseteq Story \X Story
    BY <1>2 DEF BoardBefore, OrderOf
  <2>3. QED
    BY <2>1, <2>2
<1>7. QED
  BY <1>1, <1>3, <1>6

LEMMA BoardShownNext ==
  TypeOK' => /\ IsStored(Committed, CommittedPos)'
             /\ (BoardPanel = PanelOf(Committed))'
             /\ (BoardBefore = OrderOf(Committed, CommittedPos))'
<1>1. TypeOK => /\ IsStored(Committed, CommittedPos)
                /\ BoardPanel = PanelOf(Committed)
                /\ BoardBefore = OrderOf(Committed, CommittedPos)
  BY BoardShown
<1>2. QED
  BY <1>1, PTL

\* A step of the implementation is one of the board when it takes one block of
\* stories somewhere.
LEMMA ShowsStep ==
  ASSUME TypeOK, TypeOK',
         Board!Step(PanelOf(Committed), OrderOf(Committed, CommittedPos),
                    PanelOf(Committed'), OrderOf(Committed', CommittedPos'))
  PROVE  Board!Next
<1>1. BoardPanel = PanelOf(Committed) /\ BoardBefore = OrderOf(Committed, CommittedPos)
  BY BoardShown
<1>2. BoardPanel' = PanelOf(Committed') /\ BoardBefore' = OrderOf(Committed', CommittedPos')
  BY BoardShownNext
<1>3. Board!Step(BoardPanel, BoardBefore, BoardPanel', BoardBefore')
  BY <1>1, <1>2
<1>4. QED
  BY <1>3 DEF Board!Next

\* A placement changes no order of other stories, in its panel or another.
LEMMA PlaceKeepsOrders ==
  ASSUME TypeOK, NEW s \in Story, NEW sec \in Panels, NEW at, Place(s, sec, at),
         NEW p \in Panels, NEW a \in Scope(story, p) \ {s}, NEW b \in Scope(story, p) \ {s}
  PROVE  Before(pos', a, b) <=> Before(pos, a, b)
<1> DEFINE rows == Scope(story, sec) \ {s}
<1>1. /\ \A t, u \in rows : Before(pos', t, u) <=> Before(pos, t, u)
      /\ \A t \in DOMAIN story \ (rows \cup {s}) : pos'[t] = pos[t]
  BY PlaceOrders
<1>2. CASE p = sec
  BY <1>1, <1>2
<1>3. CASE p # sec
  <2>1. IsTable(story)
    BY DEF TypeOK
  <2>2. a \notin rows /\ b \notin rows
    BY <1>3, <2>1, OneScope
  <2>3. a \in DOMAIN story /\ b \in DOMAIN story
    BY DEF Scope
  <2> HIDE DEF rows
  <2>4. pos'[a] = pos[a] /\ pos'[b] = pos[b]
    BY <1>1, <2>2, <2>3
  <2>5. QED
    BY <2>4 DEF Before
<1>4. QED
  BY <1>2, <1>3

\* Writing one row, with a placement or without, is a step of the board: its story
\* goes somewhere on the board or leaves it.
LEMMA OneStoryStep ==
  ASSUME TypeOK, TypeOK', tx = None, tx' = None, NEW s \in Story,
         DOMAIN story' = DOMAIN story \cup {s},
         \A t \in DOMAIN story \ {s} : story'[t] = story[t],
         UNCHANGED pos \/ \E sec \in Panels : \E at : Place(s, sec, at)
  PROVE  Board!Next
<1>1. /\ Committed = story /\ CommittedPos = pos
      /\ Committed' = story' /\ CommittedPos' = pos'
  BY DEF Committed, CommittedPos
<1>2. IsStored(story, pos) /\ IsTable(story)
  BY DEF TypeOK, IsStored
<1>3. IsStored(story', pos') /\ IsTable(story')
  BY DEF TypeOK, IsStored
<1>4. \A p \in Panels : Scope(story', p) \ {s} = Scope(story, p) \ {s}
  BY DEF Scope
<1>5. \A p \in Panels : \A a, b \in Scope(story, p) \ {s} :
        Before(pos', a, b) <=> Before(pos, a, b)
  <2>1. CASE UNCHANGED pos
    BY <2>1
  <2>2. CASE \E sec \in Panels : \E at : Place(s, sec, at)
    BY <2>2, PlaceKeepsOrders
  <2>3. QED
    BY <2>1, <2>2
<1>6. Cardinality({s}) <= LongestBatch
  <2>1. Cardinality({s}) = 1
    BY FS_Singleton
  <2>2. QED
    BY <2>1, LongestBatchBounds
<1>7. ASSUME NEW p \in Panels, s \in Scope(story', p)
      PROVE  /\ {s} \subseteq Scope(story', p)
             /\ \A t \in Scope(story', p) \ {s} :
                  \/ \A r \in {s} : Before(pos', t, r)
                  \/ \A r \in {s} : Before(pos', r, t)
  <2>1. IsScope(pos', DOMAIN story')
    BY <1>3, StoredScope
  <2>2. \A t \in Scope(story', p) \ {s} : t \in DOMAIN story' /\ t # s /\ s \in DOMAIN story'
    BY DEF Scope
  <2>3. \A t \in Scope(story', p) \ {s} : Before(pos', t, s) <=> ~Before(pos', s, t)
    BY <2>1, <2>2, BeforeTotal
  <2>4. QED
    BY <1>7, <2>3
<1>8. \/ /\ Cardinality({s}) <= LongestBatch
         /\ \E p \in Panels :
              /\ {s} \subseteq Scope(story', p)
              /\ \A t \in Scope(story', p) \ {s} :
                   \/ \A r \in {s} : Before(pos', t, r)
                   \/ \A r \in {s} : Before(pos', r, t)
      \/ \A p \in Panels : Scope(story', p) \cap {s} = {}
  BY <1>6, <1>7
<1>9. {s} \in SUBSET Story /\ {s} # {}
  OBVIOUS
<1>10. Board!Step(PanelOf(story), OrderOf(story, pos), PanelOf(story'), OrderOf(story', pos'))
  BY <1>2, <1>3, <1>4, <1>5, <1>8, <1>9, BlockStep
<1>11. QED
  BY <1>1, <1>10, ShowsStep

\* The board does not change when its scopes and their orders do not.
LEMMA NoStep ==
  ASSUME TypeOK, TypeOK',
         \A p \in Panels : Scope(Committed', p) = Scope(Committed, p),
         \A p \in Panels : \A a, b \in Scope(Committed, p) :
           Before(CommittedPos', a, b) <=> Before(CommittedPos, a, b)
  PROVE  UNCHANGED Board!vars
<1>1. /\ IsStored(Committed, CommittedPos)
      /\ BoardPanel = PanelOf(Committed) /\ BoardBefore = OrderOf(Committed, CommittedPos)
  BY BoardShown
<1>2. /\ IsStored(Committed', CommittedPos')
      /\ BoardPanel' = PanelOf(Committed') /\ BoardBefore' = OrderOf(Committed', CommittedPos')
  BY BoardShownNext
<1>3. /\ PanelOf(Committed') = PanelOf(Committed)
      /\ OrderOf(Committed', CommittedPos') = OrderOf(Committed, CommittedPos)
  BY <1>1, <1>2, SameBoard
<1>4. QED
  BY <1>1, <1>2, <1>3 DEF Board!vars

LEMMA OperationSteps ==
  ASSUME TypeOK, TypeOK', NEW s \in DOMAIN story, Operation(s)
  PROVE  Board!Next
<1>1. tx = None /\ tx' = None
  BY OperationKeepsTx
<1>2. s \in Story
  BY DEF TypeOK, IsTable
<1>3. \A row : /\ DOMAIN WithRow(s, row) = DOMAIN story \cup {s}
               /\ \A t \in DOMAIN story \ {s} : WithRow(s, row)[t] = story[t]
  BY DEF WithRow
<1>4. ASSUME NEW st \in States PROVE SectionOf(st) \in Panels
  BY DEF SectionOf, Panels
<1>5. story[s].state \in States
  BY DEF TypeOK, IsTable, Row
<1>6. CASE \E actor \in User, isAdmin \in ByAdmin, type \in Types,
              points \in Estimates \cup {None, Keep}, owner \in Owners \cup {Keep},
              state \in Asked \cup {story[s].state} :
             Update(s, actor, isAdmin, type, points, owner, state)
  <2>1. PICK actor \in User, isAdmin \in ByAdmin, type \in Types,
             points \in Estimates \cup {None, Keep}, owner \in Owners \cup {Keep},
             state \in Asked \cup {story[s].state} :
               Update(s, actor, isAdmin, type, points, owner, state)
    BY <1>6
  <2>2. state \in States
    BY <1>5, StoryAssumption
  <2>3. UNCHANGED pos \/ Place(s, SectionOf(state), Bottom)
    BY <2>1 DEF Update
  <2>4. UNCHANGED pos \/ \E sec \in Panels : \E at : Place(s, sec, at)
    BY <1>4, <2>2, <2>3
  <2>5. PICK row : story' = WithRow(s, row)
    BY <2>1 DEF Update
  <2>6. QED
    BY <1>1, <1>2, <1>3, <2>4, <2>5, OneStoryStep
<1>7. CASE \E sec \in Sections, at \in Drops : Move(s, sec, at)
  <2>1. PICK sec \in Sections, at \in Drops : Move(s, sec, at)
    BY <1>7
  <2>2. sec \in Panels /\ Place(s, sec, at) /\ story' = WithRow(s, Dragged(s, sec))
    BY <2>1, StoryAssumption DEF Move
  <2>3. QED
    BY <1>1, <1>2, <1>3, <2>2, OneStoryStep
<1>8. CASE Delete(s)
  <2>1. UNCHANGED pos /\ story' = [story EXCEPT ![s].trashed = TRUE]
    BY <1>8 DEF Delete
  <2>2. /\ DOMAIN story' = DOMAIN story \cup {s}
        /\ \A t \in DOMAIN story \ {s} : story'[t] = story[t]
    BY <2>1 DEF TypeOK, IsTable
  <2>3. QED
    BY <1>1, <1>2, <2>1, <2>2, OneStoryStep
<1>9. CASE Restore(s)
  <2>1. /\ UNCHANGED pos \/ Place(s, SectionOf(story[s].state), Bottom)
        /\ story' = [story EXCEPT ![s].trashed = FALSE]
    BY <1>9 DEF Restore
  <2>2. /\ DOMAIN story' = DOMAIN story \cup {s}
        /\ \A t \in DOMAIN story \ {s} : story'[t] = story[t]
    BY <2>1 DEF TypeOK, IsTable
  <2>3. UNCHANGED pos \/ \E sec \in Panels : \E at : Place(s, sec, at)
    BY <1>4, <1>5, <2>1
  <2>4. QED
    BY <1>1, <1>2, <2>2, <2>3, OneStoryStep
<1>10. QED
  BY <1>6, <1>7, <1>8, <1>9 DEF Operation

\* A batch has no more stories than the list it came in.
LEMMA DoneBounds ==
  ASSUME TypeOK, BatchInHand, tx # None
  PROVE  Done \in SUBSET Story /\ Cardinality(Done) <= LongestBatch
<1> DEFINE n == Len(tx.done)
           m == Len(tx.todo)
           f == [i \in 1..n |-> tx.done[i]]
<1>1. tx.todo \in Seq(Story) /\ tx.done \in Seq(Story)
  BY DEF TypeOK, IsTransaction
<1>2. n \in Nat /\ m \in Nat /\ DOMAIN tx.done = 1..n /\ \A i \in 1..n : tx.done[i] \in Story
  BY <1>1
<1>3. Done \in SUBSET Story
  BY <1>2 DEF Done
<1>4. f \in Surjection(1..n, Done)
  <2>1. \A t \in Done : \E i \in 1..n : f[i] = t
    BY <1>2 DEF Done
  <2>2. \A i \in 1..n : f[i] \in Done
    BY <1>2 DEF Done
  <2>3. f \in [1..n -> Done]
    BY <2>2
  <2> HIDE DEF f
  <2>4. QED
    BY <2>1, <2>3 DEF Surjection
<1>5. Cardinality(Done) <= n /\ IsFiniteSet(Done)
  BY <1>2, <1>4, FS_SurjCardinalityBound, FS_FiniteSubsetsOfFinite,
     StoryAssumption, <1>3, FS_Subset DEF ExistsSurjection
<1>6. n + m <= LongestBatch
  BY DEF BatchInHand
<1>7. LongestBatch \in Nat /\ Cardinality(Done) \in Nat
  BY <1>5, LongestBatchBounds, FS_CardinalityType
<1> HIDE DEF n, m
<1>8. QED
  BY <1>2, <1>3, <1>5, <1>6, <1>7

\* A MoveMany commits its stories as one block, or nothing when it had none.
LEMMA CommitSteps ==
  ASSUME TypeOK, TypeOK', BatchInHand, CommitMoveMany
  PROVE  Board!Next \/ UNCHANGED Board!vars
<1> DEFINE sec == tx.section
<1>1. tx # None /\ tx' = None /\ story' = story /\ pos' = pos
  BY DEF CommitMoveMany
<1>2. /\ Committed = tx.story /\ CommittedPos = tx.pos
      /\ Committed' = story /\ CommittedPos' = pos
  BY <1>1 DEF Committed, CommittedPos
<1>3. IsStored(story, pos) /\ IsStored(tx.story, tx.pos) /\ sec \in Panels
  BY <1>1, StoryAssumption DEF TypeOK, IsTransaction, IsStored
<1>4. IsTable(story) /\ DOMAIN story = DOMAIN tx.story /\ Done \subseteq Scope(story, sec)
  BY <1>1, <1>3 DEF IsStored, BatchInHand
<1>5. \A t \in DOMAIN story \ Done : story[t] = tx.story[t]
  BY <1>1 DEF BatchInHand
<1>6. \A p \in Panels : Scope(story, p) \ Done = Scope(tx.story, p) \ Done
  BY <1>4, <1>5 DEF Scope
<1>7. ASSUME NEW p \in Panels, NEW a \in Scope(story, p) \ Done, NEW b \in Scope(story, p) \ Done
      PROVE  Before(pos, a, b) <=> Before(tx.pos, a, b)
  <2>1. CASE p = sec
    BY <1>1, <2>1 DEF BatchInHand, Others
  <2>2. CASE p # sec
    <3>1. a \notin Scope(story, sec) /\ b \notin Scope(story, sec)
      BY <1>3, <1>4, <2>2, OneScope
    <3>2. a \in DOMAIN story /\ b \in DOMAIN story
      BY DEF Scope
    <3>3. pos[a] = tx.pos[a] /\ pos[b] = tx.pos[b]
      BY <1>1, <3>1, <3>2 DEF BatchInHand
    <3>4. QED
      BY <3>3 DEF Before
  <2>3. QED
    BY <2>1, <2>2
<1>8. \A p \in Panels : \A a, b \in Scope(tx.story, p) \ Done :
        Before(pos, a, b) <=> Before(tx.pos, a, b)
  BY <1>6, <1>7
<1>9. CASE Done = {}
  <2>1. \A p \in Panels : Scope(story, p) = Scope(tx.story, p)
    BY <1>6, <1>9
  <2>2. \A p \in Panels : \A a, b \in Scope(tx.story, p) :
          Before(pos, a, b) <=> Before(tx.pos, a, b)
    BY <1>8, <1>9
  <2>3. QED
    BY <1>2, <2>1, <2>2, NoStep
<1>10. CASE Done # {}
  <2>1. Done \in SUBSET Story /\ Cardinality(Done) <= LongestBatch
    BY <1>1, DoneBounds
  <2>2. ASSUME NEW t \in Scope(story, sec) \ Done
        PROVE  (\A s \in Done : Before(pos, t, s)) \/ (\A s \in Done : Before(pos, s, t))
    <3>1. t \in Others
      BY DEF Others
    <3>2. \A s \in Done : Before(pos, t, s) <=> t \in AboveDrop
      BY <1>1, <3>1 DEF BatchInHand, Done
    <3>3. IsScope(pos, DOMAIN story)
      BY <1>3, StoredScope
    <3>4. \A s \in Done : s \in DOMAIN story /\ s # t
      BY <1>4 DEF Scope
    <3>5. t \in DOMAIN story
      BY DEF Scope
    <3>6. \A s \in Done : Before(pos, t, s) <=> ~Before(pos, s, t)
      BY <3>3, <3>4, <3>5, BeforeTotal
    <3>7. QED
      BY <3>2, <3>6
  <2>3. \/ /\ Cardinality(Done) <= LongestBatch
           /\ \E p \in Panels :
                /\ Done \subseteq Scope(story, p)
                /\ \A t \in Scope(story, p) \ Done :
                     \/ \A s \in Done : Before(pos, t, s)
                     \/ \A s \in Done : Before(pos, s, t)
        \/ \A p \in Panels : Scope(story, p) \cap Done = {}
    BY <1>3, <1>4, <2>1, <2>2
  <2>4. Board!Step(PanelOf(tx.story), OrderOf(tx.story, tx.pos),
                   PanelOf(story), OrderOf(story, pos))
    BY <1>3, <1>6, <1>8, <1>10, <2>1, <2>3, BlockStep
  <2>5. QED
    BY <1>2, <2>4, ShowsStep
<1>11. QED
  BY <1>9, <1>10

LEMMA CreateSteps ==
  ASSUME TypeOK, TypeOK',
         \E id \in Story, sec \in Sections, type \in Types,
            points \in Estimates \cup {None}, owner \in Owners,
            after \in Story \cup {None} :
           Create(id, sec, type, points, owner, after)
  PROVE  Board!Next
<1>1. PICK id \in Story, sec \in Sections : 
        /\ tx = None /\ tx' = None
        /\ \E at : Place(id, sec, at)
        /\ \E row : story' = WithRow(id, row)
  BY DEF Create
<1>2. sec \in Panels
  BY StoryAssumption
<1>3. \E p \in Panels : \E at : Place(id, p, at)
  BY <1>1, <1>2
<1>4. /\ DOMAIN story' = DOMAIN story \cup {id}
      /\ \A t \in DOMAIN story \ {id} : story'[t] = story[t]
  BY <1>1 DEF WithRow
<1>5. QED
  BY <1>1, <1>3, <1>4, OneStoryStep

\* Points are not on the board.
LEMMA SetPointsStays ==
  ASSUME TypeOK, TypeOK', NEW on, SetPointsOnAll(on)
  PROVE  UNCHANGED Board!vars
<1>1. tx = None /\ tx' = None /\ pos' = pos
  BY DEF SetPointsOnAll
<1>2. /\ Committed = story /\ CommittedPos = pos
      /\ Committed' = story' /\ CommittedPos' = pos
  BY <1>1 DEF Committed, CommittedPos
<1>3. DOMAIN story' = DOMAIN story
  BY DEF SetPointsOnAll
<1>4. ASSUME NEW t \in DOMAIN story
      PROVE  story'[t].trashed = story[t].trashed /\ story'[t].state = story[t].state
  <2>1. story[t] \in Row
    BY DEF TypeOK, IsTable
  <2>2. story'[t] = story[t] \/ story'[t] = [story[t] EXCEPT !.points = None]
    BY DEF SetPointsOnAll
  <2>3. QED
    BY <2>1, <2>2 DEF Row
<1>5. \A p \in Panels : Scope(story', p) = Scope(story, p)
  BY <1>3, <1>4 DEF Scope
<1>6. QED
  BY <1>2, <1>5, NoStep

\* What is in the trash can go: it is not on the board.
LEMMA RestartStays ==
  ASSUME TypeOK, TypeOK', Restart
  PROVE  UNCHANGED Board!vars
<1>1. PICK purged \in SUBSET {t \in DOMAIN Committed : Committed[t].trashed} :
        /\ story' = Only(Committed, DOMAIN Committed \ purged)
        /\ pos' = Only(CommittedPos, DOMAIN Committed \ purged)
        /\ tx' = None
  BY DEF Restart, Committed, CommittedPos
<1>2. Committed' = story' /\ CommittedPos' = pos'
  BY <1>1 DEF Committed, CommittedPos
<1>3. /\ DOMAIN story' = DOMAIN Committed \ purged
      /\ \A t \in DOMAIN story' : story'[t] = Committed[t] /\ pos'[t] = CommittedPos[t]
  BY <1>1 DEF Only
<1>4. \A p \in Panels : Scope(story', p) = Scope(Committed, p)
  BY <1>3 DEF Scope
<1>5. \A p \in Panels : Scope(story', p) \subseteq DOMAIN story'
  BY DEF Scope
<1>6. \A p \in Panels : \A a, b \in Scope(Committed, p) :
        Before(pos', a, b) <=> Before(CommittedPos, a, b)
  BY <1>3, <1>4, <1>5 DEF Before
<1>7. QED
  BY <1>2, <1>4, <1>6, NoStep

LEMMA StepImplementsBoard ==
  ASSUME TypeOK, TypeOK', BatchInHand, [Next]_vars
  PROVE  Board!Next \/ UNCHANGED Board!vars
<1>1. ASSUME Committed' = Committed, CommittedPos' = CommittedPos
      PROVE  UNCHANGED Board!vars
  BY <1>1, NoStep
<1>2. CASE \E ids \in Batches, sec \in Sections, at \in Drops :
             BeginMoveMany(ids, sec, at)
  <2>1. PICK ids \in Batches, sec \in Sections, at \in Drops : BeginMoveMany(ids, sec, at)
    BY <1>2
  <2>2. /\ tx = None
        /\ tx' = [todo |-> ids, done |-> <<>>, section |-> sec, at |-> at,
                  story |-> story, pos |-> pos]
    BY <2>1 DEF BeginMoveMany
  <2>3. IsTransaction(tx')
    <3>1. ids \in Seq(Story) /\ sec \in Sections /\ at \in Placement(Story)
      BY StoryAssumption DEF Drops
    <3>2. IsTable(story) /\ pos \in [DOMAIN story -> Int]
      BY DEF TypeOK
    <3>3. QED
      BY <2>2, <3>1, <3>2 DEF IsTransaction
  <2>4. tx' # None
    BY <2>3, TransactionIsSome
  <2>5. Committed' = Committed /\ CommittedPos' = CommittedPos
    BY <2>2, <2>4 DEF Committed, CommittedPos
  <2>6. QED
    BY <1>1, <2>5
<1>3. CASE MoveOne
  <2>1. tx' # None /\ tx # None
    BY <1>3, MoveOneStays DEF MoveOne
  <2>2. tx'.story = tx.story /\ tx'.pos = tx.pos
    BY <1>3, <2>1 DEF MoveOne, TypeOK, IsTransaction
  <2>3. QED
    BY <1>1, <2>1, <2>2 DEF Committed, CommittedPos
<1>4. CASE CommitMoveMany
  BY <1>4, CommitSteps
<1>5. CASE RollbackMoveMany
  <2>1. Committed' = Committed /\ CommittedPos' = CommittedPos
    BY <1>5 DEF RollbackMoveMany, Committed, CommittedPos
  <2>2. QED
    BY <1>1, <2>1
<1>6. CASE Restart
  BY <1>6, RestartStays
<1>7. CASE UNCHANGED vars
  <2>1. Committed' = Committed /\ CommittedPos' = CommittedPos
    BY <1>7 DEF vars, Committed, CommittedPos
  <2>2. QED
    BY <1>1, <2>1
<1>8. CASE \E s \in DOMAIN story : Operation(s)
  BY <1>8, OperationSteps
<1>9. CASE \E on \in Options : SetPointsOnAll(on)
  BY <1>9, SetPointsStays
<1>10. CASE \E id \in Story, sec \in Sections, type \in Types,
               points \in Estimates \cup {None}, owner \in Owners,
               after \in Story \cup {None} :
              Create(id, sec, type, points, owner, after)
  BY <1>10, CreateSteps
<1>11. QED
  BY <1>2, <1>3, <1>4, <1>5, <1>6, <1>7, <1>8, <1>9, <1>10 DEF Next

\* Sparse positions implement the order of the board: in panels of any size, with
\* batches of any length, whatever is refused, rolled back, cut off by a restart or
\* spread out again on the way.
THEOREM ImplementsBoardOrderCorrect == Spec => ImplementsBoardOrder
<1>1. TypeOK => Board!Init
  BY BoardShown, BoardOrdered DEF Board!Init
<1>2. TypeOK /\ TypeOK' /\ BatchInHand /\ [Next]_vars => [Board!Next]_Board!vars
  BY StepImplementsBoard
<1>3. QED
  BY <1>1, <1>2, TypeCorrect, BInvCorrect, PTL
     DEF Spec, BInv, ImplementsBoardOrder, Board!Spec

-----------------------------------------------------------------------------
(* What the browser shows *)

\* The rows of a panel the browser lets the user drag.
Draggable(tbl, sec) ==
  {t \in DOMAIN tbl : /\ ~tbl[t].trashed
                      /\ SectionOf(tbl[t].state) = sec
                      /\ tbl[t].state # "accepted"}

\* They are the server's scope of the panel.
LEMMA DraggableIsScope ==
  ASSUME NEW tbl, \A t \in DOMAIN tbl : tbl[t].state \in States, NEW sec \in Panels
  PROVE  Draggable(tbl, sec) = Scope(tbl, sec)
BY ScopeStates DEF Draggable, Scope

\* Positions in the same order are shown alike.
LEMMA ShownAlike ==
  ASSUME NEW tbl, NEW sec, NEW p, NEW q,
         \A a, b \in Draggable(tbl, sec) : Before(p, a, b) <=> Before(q, a, b)
  PROVE  sectionStories(tbl, p, sec) = sectionStories(tbl, q, sec)
<1> DEFINE rows == Draggable(tbl, sec)
           Row1(i) == CHOOSE t \in rows : Cardinality(Preceding(p, rows, t)) = i - 1
           Row2(i) == CHOOSE t \in rows : Cardinality(Preceding(q, rows, t)) = i - 1
<1>1. sectionStories(tbl, p, sec) = [i \in 1..Cardinality(rows) |-> Row1(i)]
      /\ sectionStories(tbl, q, sec) = [i \in 1..Cardinality(rows) |-> Row2(i)]
  BY DEF sectionStories, Draggable
<1>2. \A a, b \in rows : Before(p, a, b) <=> Before(q, a, b)
  OBVIOUS
<1> HIDE DEF rows
<1>3. ASSUME NEW t \in rows
      PROVE  Preceding(p, rows, t) = Preceding(q, rows, t)
  BY <1>2 DEF Preceding
<1>4. ASSUME NEW i
      PROVE  Row1(i) = Row2(i)
  <2>1. \A t : (t \in rows /\ Cardinality(Preceding(p, rows, t)) = i - 1)
                 <=> (t \in rows /\ Cardinality(Preceding(q, rows, t)) = i - 1)
    BY <1>3
  <2> QED BY <2>1, Zenon
<1> HIDE DEF Row1, Row2
<1> QED BY <1>1, <1>4

\* Every row of a scope is shown.
LEMMA AllShown ==
  ASSUME NEW tbl, NEW sec, NEW p, IsScope(p, Draggable(tbl, sec))
  PROVE  LET rows == Draggable(tbl, sec)
             seen == sectionStories(tbl, p, sec)
         IN  /\ \A i \in DOMAIN seen : seen[i] \in rows
             /\ \A t \in rows : \E i \in DOMAIN seen : seen[i] = t
<1> DEFINE rows   == Draggable(tbl, sec)
           Nth(i) == CHOOSE t \in rows : Cardinality(Preceding(p, rows, t)) = i - 1
<1>1. sectionStories(tbl, p, sec) = [i \in 1..Cardinality(rows) |-> Nth(i)]
  BY DEF sectionStories, Draggable
<1>0. Cardinality(rows) \in Nat
  BY FS_CardinalityType DEF IsScope
<1>2. ASSUME NEW i \in 1..Cardinality(rows)
      PROVE  Nth(i) \in rows /\ Cardinality(Preceding(p, rows, Nth(i))) = i - 1
  <2>1. i - 1 \in 0..Cardinality(rows) - 1
    BY <1>0
  <2>2. \E t \in rows : Cardinality(Preceding(p, rows, t)) = i - 1
    BY <2>1, RankOnto
  <2> QED BY <2>2
<1>3. ASSUME NEW t \in rows
      PROVE  \E i \in 1..Cardinality(rows) : Nth(i) = t
  <2> DEFINE n == Cardinality(Preceding(p, rows, t))
  <2>1. n \in Nat /\ n < Cardinality(rows)
    <3>1. /\ Preceding(p, rows, t) \subseteq rows \ {t} /\ n \in Nat
          /\ IsFiniteSet(Preceding(p, rows, t))
      BY RankType
    <3>2. IsFiniteSet(rows)
      BY DEF IsScope
    <3>3. IsFiniteSet(rows \ {t}) /\ Cardinality(rows \ {t}) = Cardinality(rows) - 1
      BY <3>2, FS_RemoveElement
    <3>4. n <= Cardinality(rows \ {t})
      BY <3>1, <3>3, FS_Subset
    <3> QED BY <1>0, <3>1, <3>3, <3>4
  <2> HIDE DEF n
  <2>2. n + 1 \in 1..Cardinality(rows) /\ (n + 1) - 1 = n
    BY <1>0, <2>1
  <2>3. Nth(n + 1) \in rows /\ Cardinality(Preceding(p, rows, Nth(n + 1))) = n
    BY <1>2, <2>2
  <2> HIDE DEF Nth
  <2>4. Nth(n + 1) = t
    <3> SUFFICES ASSUME Nth(n + 1) # t PROVE FALSE
      OBVIOUS
    <3>1. Before(p, Nth(n + 1), t) \/ Before(p, t, Nth(n + 1))
      BY <2>3, BeforeTotal
    <3>2. n = Cardinality(Preceding(p, rows, t))
      BY DEF n
    <3>3. n < n
      BY <2>3, <3>1, <3>2, RankMonotone
    <3> QED BY <2>1, <3>3
  <2> QED BY <2>2, <2>4
<1> HIDE DEF Nth
<1> QED BY <1>1, <1>2, <1>3

\* Twice the positions are the same order.
LEMMA DoubledOrder ==
  ASSUME NEW rows, IsScope(pos, rows)
  PROVE  /\ IsScope(Doubled(pos), rows)
         /\ \A t \in rows : Doubled(pos)[t] = 2 * pos[t]
         /\ \A a, b \in rows : Before(Doubled(pos), a, b) <=> Before(pos, a, b)
<1>1. \A t \in rows : t \in DOMAIN pos /\ pos[t] \in Int
  BY DEF IsScope
<1>2. DOMAIN Doubled(pos) = DOMAIN pos /\ \A t \in rows : Doubled(pos)[t] = 2 * pos[t]
  BY <1>1 DEF Doubled
<1>3. IsScope(Doubled(pos), rows)
  BY <1>1, <1>2 DEF IsScope
<1>4. \A a, b \in rows : Before(Doubled(pos), a, b) <=> Before(pos, a, b)
  BY <1>1, <1>2 DEF Before
<1>5. QED
  BY <1>2, <1>3, <1>4

\* The position applyState starts from: no row of the panel is above it.
LEMMA HighestExists ==
  ASSUME NEW rows, IsScope(pos, rows),
         NEW seen, \A i \in DOMAIN seen : seen[i] \in rows,
         \A t \in rows : \E i \in DOMAIN seen : seen[i] = t
  PROVE  \E n \in {0} \cup {Doubled(pos)[seen[i]] : i \in DOMAIN seen} :
           n >= 0 /\ \A i \in DOMAIN seen : n >= Doubled(pos)[seen[i]]
<1>1. \A t \in rows : pos[t] \in Int /\ t \in Int /\ Doubled(pos)[t] = 2 * pos[t]
  BY DoubledOrder DEF IsScope
<1>2. CASE rows = {}
  BY <1>2
<1>3. CASE rows # {}
  <2>1. PICK j \in DOMAIN seen : seen[j] = Last(pos, rows)
    BY <1>3, LastExists
  <2>2. \A t \in rows : pos[t] <= pos[seen[j]]
    BY <1>1, <1>3, <2>1, LastExists DEF Before
  <2>3. \A i \in DOMAIN seen : Doubled(pos)[seen[i]] <= Doubled(pos)[seen[j]]
    BY <1>1, <2>2
  <2>4. Doubled(pos)[seen[j]] \in Int /\ \A i \in DOMAIN seen : Doubled(pos)[seen[i]] \in Int
    BY <1>1
  <2>5. CASE Doubled(pos)[seen[j]] >= 0
    BY <2>3, <2>4, <2>5
  <2>6. CASE Doubled(pos)[seen[j]] < 0
    <3>1. \A i \in DOMAIN seen : 0 >= Doubled(pos)[seen[i]]
      BY <2>3, <2>4, <2>6
    <3>2. QED
      BY <3>1
  <2>7. QED
    BY <2>4, <2>5, <2>6
<1>4. QED
  BY <1>2, <1>3

\* What applyState makes of the positions: twice the ones the server has, and a
\* row that joins the panel above none of it.
LEMMA GuessedPlace ==
  ASSUME TypeOK, NEW s \in DOMAIN story, NEW state \in InProgress \cup {"accepted"}
  PROVE  LET rows  == Scope(story, "current")
             guess == applyState(s, state)
         IN  IF SectionOf(story[s].state) = "current"
             THEN guess.pos = Doubled(pos)
             ELSE /\ DOMAIN guess.pos = DOMAIN pos
                  /\ \A t \in DOMAIN pos \ {s} : guess.pos[t] = Doubled(pos)[t]
                  /\ guess.pos[s] \in Int
                  /\ \A t \in rows : Doubled(pos)[t] < guess.pos[s]
<1> DEFINE rows     == Scope(story, "current")
           seen     == sectionStories(story, Doubled(pos), "current")
           Good(n)  == n >= 0 /\ \A i \in DOMAIN seen : n >= Doubled(pos)[seen[i]]
           Heights  == {0} \cup {Doubled(pos)[seen[i]] : i \in DOMAIN seen}
           position == CHOOSE n \in Heights : Good(n)
<1>1. IsScope(pos, rows) /\ s \in DOMAIN pos
  BY TableScope DEF Scope, TypeOK
<1>2. IsScope(Doubled(pos), rows) /\ \A t \in rows : Doubled(pos)[t] \in Int
  BY <1>1, DoubledOrder DEF IsScope
<1>3. Draggable(story, "current") = rows
  <2>1. \A t \in DOMAIN story : story[t].state \in States
    BY DEF TypeOK, IsTable, Row
  <2>2. "current" \in Panels
    BY DEF Panels
  <2>3. QED
    BY <2>1, <2>2, DraggableIsScope
<1>4. /\ \A i \in DOMAIN seen : seen[i] \in rows
      /\ \A t \in rows : \E i \in DOMAIN seen : seen[i] = t
  <2> HIDE DEF rows
  <2>1. IsScope(Doubled(pos), Draggable(story, "current"))
    BY <1>2, <1>3
  <2>2. QED
    BY <1>3, <2>1, AllShown
<1>5. applyState(s, state).pos
        = IF SectionOf(story[s].state) # "current"
          THEN [Doubled(pos) EXCEPT ![s] = position + 2] ELSE Doubled(pos)
  BY DEF applyState
<1> HIDE DEF rows, seen
<1>6. \E n \in Heights : Good(n)
  BY <1>1, <1>4, HighestExists
<1>7. position \in Heights /\ Good(position)
  BY <1>6
<1>8. Heights \subseteq Int
  BY <1>2, <1>4
<1> HIDE DEF position, Heights
<1>9. position \in Int /\ \A t \in rows : Doubled(pos)[t] < position + 2
  BY <1>2, <1>4, <1>7, <1>8
<1>10. DOMAIN Doubled(pos) = DOMAIN pos
  BY DEF Doubled
<1>11. CASE SectionOf(story[s].state) = "current"
  BY <1>5, <1>11
<1>12. CASE SectionOf(story[s].state) # "current"
  <2>1. applyState(s, state).pos = [Doubled(pos) EXCEPT ![s] = position + 2]
    BY <1>5, <1>12
  <2>2. QED
    BY <1>1, <1>9, <1>10, <1>12, <2>1 DEF rows
<1>13. QED
  BY <1>11, <1>12

\* The row a button makes: in its new state, and still in the table.
LEMMA GuessedRow ==
  ASSUME TypeOK, NEW s \in DOMAIN story, NEW state \in States
  PROVE  LET tbl == applyState(s, state).story
         IN  /\ DOMAIN tbl = DOMAIN story
             /\ \A t \in DOMAIN story \ {s} : tbl[t] = story[t]
             /\ tbl[s].state = state
             /\ tbl[s].stamped = (state = "accepted")
             /\ tbl[s].trashed = story[s].trashed
             /\ \A t \in DOMAIN tbl : tbl[t].state \in States
<1> DEFINE tbl == applyState(s, state).story
<1>1. tbl = [story EXCEPT ![s].state = state, ![s].stamped = state = "accepted"]
  BY DEF applyState
<1>2. \A t \in DOMAIN story : story[t] \in Row
  BY DEF TypeOK, IsTable
<1> HIDE DEF tbl
<1>3. /\ DOMAIN tbl = DOMAIN story
      /\ \A t \in DOMAIN story \ {s} : tbl[t] = story[t]
      /\ tbl[s].state = state
      /\ tbl[s].stamped = (state = "accepted")
      /\ tbl[s].trashed = story[s].trashed
  BY <1>1, <1>2 DEF Row
<1>4. \A t \in DOMAIN tbl : tbl[t].state \in States
  BY <1>2, <1>3 DEF Row
<1>5. QED
  BY <1>3, <1>4 DEF tbl

\* A button asks for a step of the workflow the story's row is ready for.
LEMMA ButtonAllowed ==
  ASSUME TypeOK, GoodTable(story, pointsOnAll),
         NEW s \in DOMAIN story, NEW state \in Buttons(story[s])
  PROVE  /\ state \in InProgress \cup {"accepted"}
         /\ state \in States
         /\ state \in transitions[story[s].state]
         /\ ~LacksEstimate(story[s].type, story[s].points, state)
         /\ Stamp(story[s], state) = (state = "accepted")
         /\ SectionOf(story[s].state) # "current" => state = "started"
<1>1. story[s] \in Row /\ GoodRow(story[s], pointsOnAll)
  BY DEF TypeOK, IsTable, GoodTable
<1>2. ~needsEstimate(story[s]) /\ state \in nextActions(story[s])
  BY DEF Buttons
<1>3. /\ story[s].state \in States /\ story[s].state # "accepted"
      /\ state # story[s].state
      /\ state \in InProgress \cup {"accepted"} /\ state \in States
      /\ state \in transitions[story[s].state]
      /\ SectionOf(story[s].state) # "current" => state = "started"
  <2>1. story[s].state \in States
    BY <1>1 DEF Row
  <2>2. QED
    BY <1>2, <2>1 DEF nextActions, States, InProgress, transitions, SectionOf
<1>4. ~LacksEstimate(story[s].type, story[s].points, state)
  BY <1>2 DEF needsEstimate, LacksEstimate
<1>5. Stamp(story[s], state) = (state = "accepted")
  <2>1. story[s].stamped = FALSE
    BY <1>1, <1>3 DEF GoodRow, Row
  <2>2. QED
    BY <1>3, <2>1 DEF Stamp
<1>6. QED
  BY <1>3, <1>4, <1>5

\* The panel in the order of the guess is the panel in the order of the answer.
LEMMA ButtonShown ==
  ASSUME TypeOK, NEW s \in DOMAIN story, ~story[s].trashed,
         NEW state \in (InProgress \cup {"accepted"}) \cap States,
         SectionOf(story[s].state) # "current" => state = "started"
  PROVE  LET guess  == applyState(s, state)
             rows   == Scope(story, "current") \ {s}
             placed == Placed(pos, rows, s, Below(pos, rows, Bottom))
         IN  Shown(guess, "current") =
               sectionStories(guess.story,
                              IF SectionOf(story[s].state) = "current" THEN pos
                                                                       ELSE placed,
                              "current")
<1> DEFINE guess  == applyState(s, state)
           rows   == Scope(story, "current") \ {s}
           below  == Below(pos, rows, Bottom)
           placed == Placed(pos, rows, s, below)
           shown  == Draggable(guess.story, "current")
<1>1. /\ DOMAIN guess.story = DOMAIN story
      /\ \A t \in DOMAIN story \ {s} : guess.story[t] = story[t]
      /\ guess.story[s].state = state /\ ~guess.story[s].trashed
      /\ \A t \in DOMAIN guess.story : guess.story[t].state \in States
  BY GuessedRow
<1>2. shown = Scope(guess.story, "current")
  BY <1>1, DraggableIsScope DEF Panels
<1>3. shown \subseteq rows \cup {s} /\ shown \subseteq DOMAIN story
  BY <1>1, <1>2 DEF Scope
<1>4. IsScope(pos, rows) /\ IsScope(pos, Scope(story, "current")) /\ IsScope(pos, shown)
  BY <1>3, TableScope DEF Scope
<1>5. s \in Int /\ s \in DOMAIN pos /\ s \notin rows
  BY StoryAssumption DEF TypeOK, IsTable
<1>6. CASE SectionOf(story[s].state) = "current"
  <2>1. guess.pos = Doubled(pos)
    BY <1>6, GuessedPlace
  <2>2. \A a, b \in shown : Before(guess.pos, a, b) <=> Before(pos, a, b)
    BY <1>4, <2>1, DoubledOrder
  <2> HIDE DEF guess
  <2>3. sectionStories(guess.story, guess.pos, "current")
          = sectionStories(guess.story, pos, "current")
    BY <2>2, ShownAlike
  <2>4. QED
    BY <1>6, <2>3 DEF Shown, guess
<1>7. CASE SectionOf(story[s].state) # "current"
  <2>1. story[s].state \notin OrderedStates("current")
    BY <1>7 DEF SectionOf, OrderedStates
  <2>2. rows = Scope(story, "current")
    BY <2>1 DEF Scope
  <2>3. /\ \A t \in DOMAIN pos \ {s} : guess.pos[t] = Doubled(pos)[t]
        /\ guess.pos[s] \in Int
        /\ \A t \in rows : Doubled(pos)[t] < guess.pos[s]
    BY <1>7, <2>2, GuessedPlace
  <2>4. below = rows /\ IsSlot(pos, rows, below)
    BY BottomHasRoom DEF IsSlot
  <2>5. /\ IsScope(placed, rows \cup {s})
        /\ \A a, b \in rows : Before(placed, a, b) <=> Before(pos, a, b)
        /\ \A t \in rows : Before(placed, t, s)
    <3> HIDE DEF rows, below
    <3>1. QED
      BY <1>4, <1>5, <2>4, PlacedKeepsOrder
  <2>6. \A t \in rows : Doubled(pos)[t] \in Int /\ t \in DOMAIN pos /\ t # s
    BY <1>4, <1>5, DoubledOrder DEF IsScope
  <2> HIDE DEF guess, rows, below, placed, shown
  <2>7. \A a, b \in rows : Before(guess.pos, a, b) <=> Before(placed, a, b)
    <3>1. \A a, b \in rows : Before(guess.pos, a, b) <=> Before(Doubled(pos), a, b)
      BY <2>3, <2>6 DEF Before
    <3>2. QED
      BY <1>4, <2>5, <3>1, DoubledOrder
  <2>8. \A t \in rows : /\ Before(guess.pos, t, s) /\ ~Before(guess.pos, s, t)
                        /\ Before(placed, t, s) /\ ~Before(placed, s, t)
    <3>1. \A t \in rows : Before(guess.pos, t, s) /\ ~Before(guess.pos, s, t)
      BY <2>3, <2>6 DEF Before
    <3>2. \A t \in rows : ~Before(placed, s, t)
      BY <2>5, <2>6, BeforeTotal
    <3>3. QED
      BY <2>5, <3>1, <3>2
  <2>9. ~Before(guess.pos, s, s) /\ ~Before(placed, s, s)
    <3>1. ~Before(guess.pos, s, s)
      BY <1>5, <2>3 DEF Before
    <3>2. ~Before(placed, s, s)
      BY <2>5, BeforeIrreflexive
    <3>3. QED
      BY <3>1, <3>2
  <2>10. \A a, b \in shown : Before(guess.pos, a, b) <=> Before(placed, a, b)
    BY <1>3, <2>7, <2>8, <2>9
  <2>11. sectionStories(guess.story, guess.pos, "current")
           = sectionStories(guess.story, placed, "current")
    BY <2>10, ShownAlike DEF shown
  <2>12. QED
    BY <1>7, <2>11 DEF Shown, guess, placed, below, rows
<1>8. QED
  BY <1>6, <1>7

\* A button the browser shows is a step the server takes, and what the browser
\* shows at once is what the answer will say: the state, the stamp and the whole
\* panel in order, whatever positions it has.
THEOREM ButtonsShowWhatComesCorrect == Spec => []ButtonsShowWhatComes
<1>1. IInv => ButtonsShowWhatComes
  <2> SUFFICES ASSUME IInv, NEW s \in DOMAIN story, ~story[s].trashed,
                      NEW state \in Buttons(story[s])
               PROVE  LET guess  == applyState(s, state)
                          rows   == Scope(story, "current") \ {s}
                          placed == Placed(pos, rows, s, Below(pos, rows, Bottom))
                      IN  /\ state \in transitions[story[s].state]
                          /\ ~LacksEstimate(story[s].type, story[s].points, state)
                          /\ guess.story[s].stamped = Stamp(story[s], state)
                          /\ Shown(guess, "current") =
                               sectionStories(guess.story,
                                 IF SectionOf(story[s].state) = "current" THEN pos
                                                                          ELSE placed,
                                 "current")
    BY DEF ButtonsShowWhatComes
  <2>1. TypeOK /\ GoodTable(story, pointsOnAll)
    BY DEF IInv
  <2>2. /\ state \in (InProgress \cup {"accepted"}) \cap States
        /\ state \in transitions[story[s].state]
        /\ ~LacksEstimate(story[s].type, story[s].points, state)
        /\ Stamp(story[s], state) = (state = "accepted")
        /\ SectionOf(story[s].state) # "current" => state = "started"
    BY <2>1, ButtonAllowed
  <2>3. applyState(s, state).story[s].stamped = (state = "accepted")
    BY <2>1, <2>2, GuessedRow
  <2>4. QED
    BY <2>1, <2>2, <2>3, ButtonShown
<1>2. QED
  BY <1>1, IInvCorrect, PTL

-----------------------------------------------------------------------------
(* Lists of rows *)

\* The list q has these rows, each of them once, in the order of p.
Lists(p, q, rows) ==
  /\ q \in Seq(rows)
  /\ \A t \in rows : \E i \in 1..Len(q) : q[i] = t
  /\ \A i, j \in 1..Len(q) : i < j => Before(p, q[i], q[j])

\* The first m elements of a list.
Front(q, m) == {q[i] : i \in 1..m}

\* Every element of a list of rows is one of them.
LEMMA ListsEach ==
  ASSUME NEW p, NEW q, NEW rows, Lists(p, q, rows)
  PROVE  /\ Len(q) \in Nat /\ DOMAIN q = 1..Len(q)
         /\ \A i \in 1..Len(q) : q[i] \in rows
BY LenProperties, ElementOfSeq DEF Lists

\* The first m elements of a list are m rows.
LEMMA FrontCounts ==
  ASSUME NEW p, NEW q, NEW rows, IsScope(p, rows), Lists(p, q, rows),
         NEW m \in Nat, m <= Len(q)
  PROVE  Cardinality(Front(q, m)) = m
<1> DEFINE f == [i \in 1..m |-> q[i]]
<1>1. Len(q) \in Nat /\ \A i \in 1..Len(q) : q[i] \in rows
  BY ListsEach
<1>2. \A i \in 1..m : i \in 1..Len(q)
  BY <1>1
<1>3. ASSUME NEW i \in 1..m, NEW j \in 1..m, i < j
      PROVE  q[i] # q[j]
  <2>1. q[i] \in rows /\ q[j] \in rows /\ Before(p, q[i], q[j])
    BY <1>1, <1>2, <1>3 DEF Lists
  <2>2. QED
    BY <2>1, BeforeIrreflexive
<1>4. \A i, j \in 1..m : f[i] = f[j] => i = j
  <2>1. \A i, j \in 1..m : i < j \/ j < i \/ i = j
    OBVIOUS
  <2>2. QED
    BY <1>3, <2>1
<1>5. f \in Bijection(1..m, Front(q, m))
  BY <1>4 DEF Bijection, Injection, Surjection, IsInjective, Front
<1>6. IsFiniteSet(1..m) /\ Cardinality(1..m) = m
  <2>1. IsFiniteSet(1..m) /\ Cardinality(1..m) = IF 1 > m THEN 0 ELSE m - 1 + 1
    BY FS_Interval
  <2>2. QED
    BY <2>1
<1>7. ExistsBijection(1..m, Front(q, m))
  BY <1>5, Zenon DEF ExistsBijection
<1>8. QED
  BY <1>6, <1>7, FS_Bijection

\* A row is where its rank says.
LEMMA ListsRank ==
  ASSUME NEW p, NEW q, NEW rows, IsScope(p, rows), Lists(p, q, rows)
  PROVE  /\ Len(q) = Cardinality(rows)
         /\ \A i \in 1..Len(q) : Cardinality(Preceding(p, rows, q[i])) = i - 1
<1>1. Len(q) \in Nat /\ \A i \in 1..Len(q) : q[i] \in rows
  BY ListsEach
<1>2. Front(q, Len(q)) = rows
  BY <1>1 DEF Lists, Front
<1>3. Len(q) = Cardinality(rows)
  BY <1>1, <1>2, FrontCounts
<1>4. ASSUME NEW i \in 1..Len(q)
      PROVE  Cardinality(Preceding(p, rows, q[i])) = i - 1
  <2>1. i - 1 \in Nat /\ i - 1 <= Len(q)
    BY <1>1
  <2>2. ASSUME NEW t \in Preceding(p, rows, q[i])
        PROVE  t \in Front(q, i - 1)
    <3>1. t \in rows /\ Before(p, t, q[i])
      BY DEF Preceding
    <3>2. PICK j \in 1..Len(q) : q[j] = t
      BY <3>1 DEF Lists
    <3>3. j # i
      BY <1>1, <3>1, <3>2, BeforeIrreflexive
    <3>4. ~(i < j)
      <4> SUFFICES ASSUME i < j PROVE FALSE
        OBVIOUS
      <4>1. Before(p, q[i], t)
        BY <3>2 DEF Lists
      <4>2. q[i] \in rows /\ q[i] # t
        BY <1>1, <3>1, <3>2, <4>1, BeforeIrreflexive
      <4>3. QED
        BY <3>1, <4>1, <4>2, BeforeTotal
    <3>5. j \in 1..(i - 1)
      BY <3>3, <3>4
    <3>6. QED
      BY <3>2, <3>5 DEF Front
  <2>3. ASSUME NEW t \in Front(q, i - 1)
        PROVE  t \in Preceding(p, rows, q[i])
    <3>1. PICK j \in 1..(i - 1) : q[j] = t
      BY DEF Front
    <3>2. j \in 1..Len(q) /\ j < i
      BY <2>1
    <3>3. QED
      BY <1>1, <3>1, <3>2 DEF Lists, Preceding
  <2>4. Preceding(p, rows, q[i]) = Front(q, i - 1)
    BY <2>2, <2>3
  <2>5. QED
    BY <2>1, <2>4, FrontCounts
<1>5. QED
  BY <1>3, <1>4

\* There is one such list.
LEMMA ListsSame ==
  ASSUME NEW p, NEW q, NEW r, NEW rows, IsScope(p, rows),
         Lists(p, q, rows), Lists(p, r, rows)
  PROVE  q = r
<1>1. Len(q) = Len(r) /\ Len(q) \in Nat
  BY ListsRank, ListsEach
<1>2. ASSUME NEW i \in 1..Len(q)
      PROVE  q[i] = r[i]
  <2> SUFFICES ASSUME q[i] # r[i] PROVE FALSE
    OBVIOUS
  <2>1. i \in 1..Len(r)
    BY <1>1
  <2>2. /\ q[i] \in rows /\ Cardinality(Preceding(p, rows, q[i])) = i - 1
        /\ r[i] \in rows /\ Cardinality(Preceding(p, rows, r[i])) = i - 1
    BY <2>1, ListsRank, ListsEach
  <2>3. Before(p, q[i], r[i]) \/ Before(p, r[i], q[i])
    BY <2>2, BeforeTotal
  <2>4. i - 1 < i - 1
    BY <2>2, <2>3, RankMonotone
  <2>5. QED
    BY <2>4
<1>3. q \in Seq(rows) /\ r \in Seq(rows)
  BY DEF Lists
<1>4. QED
  BY <1>1, <1>2, <1>3, SeqEqual

\* Another column that orders the rows alike.
LEMMA ListsAlike ==
  ASSUME NEW p, NEW q, NEW rows, Lists(p, q, rows), NEW col,
         \A a, b \in rows : Before(p, a, b) => Before(col, a, b)
  PROVE  Lists(col, q, rows)
<1>1. \A i \in 1..Len(q) : q[i] \in rows
  BY ListsEach
<1>2. QED
  BY <1>1 DEF Lists

\* Two lists, all of one above all of the other.
LEMMA ListsJoin ==
  ASSUME NEW p, NEW a, NEW A, Lists(p, a, A), NEW b, NEW B, Lists(p, b, B),
         \A x \in A, y \in B : Before(p, x, y)
  PROVE  Lists(p, a \o b, A \cup B)
<1> DEFINE m == Len(a)
           n == Len(b)
           c == a \o b
<1>1. /\ m \in Nat /\ \A i \in 1..m : a[i] \in A
      /\ n \in Nat /\ \A i \in 1..n : b[i] \in B
  BY ListsEach
<1>2. a \in Seq(A \cup B) /\ b \in Seq(A \cup B)
  <2>1. a \in Seq(A) /\ b \in Seq(B)
    BY DEF Lists
  <2>2. QED
    BY <2>1
<1>3. /\ c \in Seq(A \cup B) /\ Len(c) = m + n
      /\ \A i \in 1..(m + n) : c[i] = IF i <= m THEN a[i] ELSE b[i - m]
  BY <1>2, ConcatProperties
<1> HIDE DEF c
<1>4. ASSUME NEW t \in A \cup B
      PROVE  \E i \in 1..Len(c) : c[i] = t
  <2>1. CASE t \in A
    <3>1. PICK i \in 1..m : a[i] = t
      BY <2>1 DEF Lists
    <3>2. i \in 1..(m + n) /\ i <= m
      BY <1>1
    <3>3. QED
      BY <1>3, <3>1, <3>2
  <2>2. CASE t \in B
    <3>1. PICK i \in 1..n : b[i] = t
      BY <2>2 DEF Lists
    <3>2. i + m \in 1..(m + n) /\ ~(i + m <= m) /\ (i + m) - m = i
      BY <1>1
    <3>3. QED
      BY <1>3, <3>1, <3>2
  <2>3. QED
    BY <2>1, <2>2
<1>5. ASSUME NEW i \in 1..Len(c), NEW j \in 1..Len(c), i < j
      PROVE  Before(p, c[i], c[j])
  <2>1. i \in 1..(m + n) /\ j \in 1..(m + n)
    BY <1>3
  <2>2. CASE j <= m
    <3>1. i \in 1..m /\ j \in 1..m /\ c[i] = a[i] /\ c[j] = a[j]
      BY <1>1, <1>3, <1>5, <2>1, <2>2
    <3>2. QED
      BY <1>5, <3>1 DEF Lists
  <2>3. CASE ~(i <= m)
    <3>1. i - m \in 1..n /\ j - m \in 1..n /\ i - m < j - m /\ ~(j <= m)
      BY <1>1, <1>5, <2>1, <2>3
    <3>2. c[i] = b[i - m] /\ c[j] = b[j - m]
      BY <1>3, <2>1, <2>3, <3>1
    <3>3. QED
      BY <3>1, <3>2 DEF Lists
  <2>4. CASE i <= m /\ ~(j <= m)
    <3>1. i \in 1..m /\ j - m \in 1..n
      BY <1>1, <2>1, <2>4
    <3>2. c[i] = a[i] /\ c[j] = b[j - m]
      BY <1>3, <2>1, <2>4
    <3>3. QED
      BY <1>1, <3>1, <3>2
  <2>5. QED
    BY <1>1, <1>5, <2>1, <2>2, <2>3, <2>4
<1>6. QED
  BY <1>3, <1>4, <1>5 DEF Lists, c

\* The part of a list from i to j.
Part(q, i, j) == {q[k] : k \in i..j}

\* A list cut in two.
LEMMA ListsCut ==
  ASSUME NEW p, NEW q, NEW rows, Lists(p, q, rows), NEW k \in Nat, k <= Len(q)
  PROVE  /\ Lists(p, SubSeq(q, 1, k), Part(q, 1, k))
         /\ Lists(p, SubSeq(q, k + 1, Len(q)), Part(q, k + 1, Len(q)))
         /\ Len(SubSeq(q, 1, k)) = k
         /\ rows = Part(q, 1, k) \cup Part(q, k + 1, Len(q))
         /\ \A x \in Part(q, 1, k), y \in Part(q, k + 1, Len(q)) : Before(p, x, y)
<1>1. /\ Len(q) \in Nat /\ DOMAIN q = 1..Len(q)
      /\ \A i \in 1..Len(q) : q[i] \in rows
  BY ListsEach
<1>2. ASSUME NEW i \in Nat \ {0}, NEW j \in Nat, j <= Len(q), i <= j + 1
      PROVE  Lists(p, SubSeq(q, i, j), Part(q, i, j)) /\ Len(SubSeq(q, i, j)) = j - i + 1
  <2> DEFINE c == SubSeq(q, i, j)
             n == j - i + 1
  <2>1. n \in Nat /\ c = [l \in 1..n |-> q[i + l - 1]]
    BY <1>2
  <2>2. /\ \A l \in 1..n : c[l] = q[i + l - 1] /\ i + l - 1 \in i..j
    BY <2>1
  <2>3. c \in Seq(Part(q, i, j)) /\ Len(c) = n
    BY <2>1, <2>2 DEF Part
  <2> HIDE DEF c
  <2>4. ASSUME NEW t \in Part(q, i, j)
        PROVE  \E l \in 1..n : c[l] = t
    <3>1. PICK l \in i..j : q[l] = t
      BY DEF Part
    <3>2. l - i + 1 \in 1..n /\ i + (l - i + 1) - 1 = l
      BY <2>1
    <3>3. QED
      BY <2>2, <3>1, <3>2
  <2>5. ASSUME NEW l \in 1..n, NEW m \in 1..n, l < m
        PROVE  Before(p, c[l], c[m])
    <3>1. i + l - 1 \in 1..Len(q) /\ i + m - 1 \in 1..Len(q) /\ i + l - 1 < i + m - 1
      BY <1>1, <1>2, <2>5
    <3>2. QED
      BY <2>2, <3>1 DEF Lists
  <2>6. QED
    BY <2>3, <2>4, <2>5 DEF Lists, c
<1>3. /\ Lists(p, SubSeq(q, 1, k), Part(q, 1, k)) /\ Len(SubSeq(q, 1, k)) = k - 1 + 1
  BY <1>2
<1>4. Lists(p, SubSeq(q, k + 1, Len(q)), Part(q, k + 1, Len(q)))
  BY <1>1, <1>2
<1>5. ASSUME NEW t
      PROVE  t \in rows <=> t \in Part(q, 1, k) \cup Part(q, k + 1, Len(q))
  <2>1. t \in rows <=> \E i \in 1..Len(q) : q[i] = t
    BY <1>1 DEF Lists
  <2>2. \A i : i \in 1..Len(q) <=> i \in 1..k \/ i \in (k + 1)..Len(q)
    BY <1>1
  <2>3. QED
    BY <2>1, <2>2 DEF Part
<1>6. ASSUME NEW x \in Part(q, 1, k), NEW y \in Part(q, k + 1, Len(q))
      PROVE  Before(p, x, y)
  <2>1. PICK i \in 1..k : q[i] = x
    BY DEF Part
  <2>2. PICK j \in (k + 1)..Len(q) : q[j] = y
    BY DEF Part
  <2>3. i \in 1..Len(q) /\ j \in 1..Len(q) /\ i < j
    BY <1>1
  <2>4. QED
    BY <2>1, <2>2, <2>3 DEF Lists
<1>7. QED
  BY <1>3, <1>4, <1>5, <1>6

-----------------------------------------------------------------------------
(* Loops *)

\* A set that goes on from each number to the next has them all.
LEMMA CountsUp ==
  ASSUME NEW N \in Nat, NEW P, 0 \in P, \A n \in 1..N : n - 1 \in P => n \in P
  PROVE  \A n \in 0..N : n \in P
<1> DEFINE Bad == (0..N) \ P
           col == [n \in Bad |-> 0]
<1> SUFFICES ASSUME Bad # {} PROVE FALSE
  OBVIOUS
<1>1. IsScope(col, Bad)
  <2>1. IsFiniteSet(0..N)
    BY FS_Interval
  <2>2. IsFiniteSet(Bad)
    BY <2>1, FS_Subset
  <2>3. QED
    BY <2>2 DEF IsScope
<1>2. PICK n \in Bad : \A m \in Bad \ {n} : Before(col, n, m)
  <2> HIDE DEF Bad, col
  <2>1. QED
    BY <1>1, FirstExists
<1>3. n \in 1..N /\ n \notin P
  OBVIOUS
<1>4. n - 1 \in Bad /\ n - 1 # n
  BY <1>3
<1>5. Before(col, n, n - 1) /\ col[n] = 0 /\ col[n - 1] = 0
  BY <1>2, <1>4
<1>6. QED
  BY <1>3, <1>5 DEF Before

\* From a value of V, the step to number n leads to another.
StaysIn(step, V, N) == \A x \in V, n \in 1..N : step[<<x, n>>] \in V

\* f is what the steps lead to from v on.
Recurs(f, v, step, V, N) ==
  f \in [0..N -> V] /\ f[0] = v /\ \A n \in 1..N : f[n] = step[<<f[n - 1], n>>]

\* A recursion that stays within a set has a function of that set.
LEMMA RecursionHas ==
  ASSUME NEW N \in Nat, NEW V, NEW v \in V, NEW step, StaysIn(step, V, N)
  PROVE  \E f : Recurs(f, v, step, V, N)
<1> DEFINE Upto(m) == \E f \in [0..m -> V] :
                        f[0] = v /\ \A n \in 1..m : f[n] = step[<<f[n - 1], n>>]
           P == {m \in 0..N : Upto(m)}
<1>1. Upto(0)
  <2> DEFINE f == [n \in 0..0 |-> v]
  <2>1. f \in [0..0 -> V] /\ f[0] = v /\ 1..0 = {}
    OBVIOUS
  <2>2. QED
    BY <2>1
<1>2. ASSUME NEW m \in 1..N, Upto(m - 1)
      PROVE  Upto(m)
  <2>1. PICK f \in [0..(m - 1) -> V] :
               f[0] = v /\ \A n \in 1..(m - 1) : f[n] = step[<<f[n - 1], n>>]
    BY <1>2
  <2> DEFINE new == step[<<f[m - 1], m>>]
             g   == [n \in 0..m |-> IF n = m THEN new ELSE f[n]]
  <2>2. new \in V
    BY <1>2, <2>1 DEF StaysIn
  <2> HIDE DEF new
  <2>3. g \in [0..m -> V]
    BY <2>1, <2>2
  <2>4. g[m] = new /\ \A n \in 0..(m - 1) : g[n] = f[n]
    OBVIOUS
  <2> HIDE DEF g
  <2>5. ASSUME NEW n \in 1..m
        PROVE  g[n] = step[<<g[n - 1], n>>]
    <3>1. CASE n = m
      <4>1. n - 1 \in 0..(m - 1)
        BY <3>1
      <4>2. QED
        BY <2>4, <3>1, <4>1 DEF new
    <3>2. CASE n # m
      <4>1. n \in 1..(m - 1) /\ n \in 0..(m - 1) /\ n - 1 \in 0..(m - 1)
        BY <3>2
      <4>2. QED
        BY <2>1, <2>4, <4>1
    <3>3. QED
      BY <3>1, <3>2
  <2>6. g[0] = v
    BY <2>1, <2>4
  <2>7. QED
    BY <2>3, <2>5, <2>6
<1> HIDE DEF Upto
<1>3. \A n \in 0..N : n \in P
  <2>1. 0 \in P
    BY <1>1
  <2>2. \A n \in 1..N : n - 1 \in P => n \in P
    BY <1>2
  <2> HIDE DEF P
  <2>3. QED
    BY <2>1, <2>2, CountsUp
<1>4. Upto(N)
  BY <1>3
<1>5. QED
  BY <1>4, Zenon DEF Upto, Recurs

-----------------------------------------------------------------------------
(* Filtering a list *)

\* The filter lists the rows that are wanted, in the same order.
LEMMA ThoseLists ==
  ASSUME NEW p, NEW q, NEW rows, IsScope(p, rows), Lists(p, q, rows), NEW G
  PROVE  Lists(p, Those(q, G), rows \cap G)
<1> DEFINE N == Len(q)
           body(f) == [n \in 0..N |-> IF n = 0 THEN <<>>
                                      ELSE IF q[n] \in G THEN Append(f[n - 1], q[n])
                                                         ELSE f[n - 1]]
           kept == CHOOSE f : f = body(f)
           V    == Seq(rows)
           step == [x \in V \X (1..N) |-> IF q[x[2]] \in G THEN Append(x[1], q[x[2]]) ELSE x[1]]
<1>1. Those(q, G) = kept[N]
  BY DEF Those
<1>2. N \in Nat /\ \A n \in 1..N : q[n] \in rows
  BY ListsEach
<1>0. rows = Front(q, N)
  BY <1>2 DEF Lists, Front
<1> HIDE DEF N
<1>3. \A x \in V, n \in 1..N :
        /\ step[<<x, n>>] = IF q[n] \in G THEN Append(x, q[n]) ELSE x
        /\ step[<<x, n>>] \in V
  BY <1>2
<1>4. <<>> \in V
  OBVIOUS
<1> HIDE DEF step
<1>5. \E f : f = body(f)
  <2>1. PICK g \in [0..N -> V] : g[0] = <<>> /\ \A n \in 1..N : g[n] = step[<<g[n - 1], n>>]
    <3> HIDE DEF V
    <3>1. StaysIn(step, V, N)
      BY <1>3 DEF StaysIn
    <3>2. \E g : Recurs(g, <<>>, step, V, N)
      BY <1>2, <1>4, <3>1, RecursionHas
    <3>3. QED
      BY <3>2 DEF Recurs
  <2>2. ASSUME NEW n \in 0..N
        PROVE  g[n] = IF n = 0 THEN <<>>
                      ELSE IF q[n] \in G THEN Append(g[n - 1], q[n]) ELSE g[n - 1]
    <3>1. CASE n = 0
      BY <2>1, <3>1
    <3>2. CASE n # 0
      <4>1. n \in 1..N /\ n - 1 \in 0..N
        BY <1>2, <3>2
      <4>2. g[n - 1] \in V /\ g[n] = step[<<g[n - 1], n>>]
        BY <2>1, <4>1
      <4> HIDE DEF V
      <4>3. QED
        BY <1>3, <3>2, <4>1, <4>2
    <3>3. QED
      BY <3>1, <3>2
  <2>3. g = body(g)
    BY <2>1, <2>2
  <2>4. QED
    BY <2>3
<1>6. kept = body(kept)
  <2> HIDE DEF body
  <2>1. QED
    BY <1>5
<1> HIDE DEF kept
<1>7. \A n \in 0..N : kept[n] = IF n = 0 THEN <<>>
                                ELSE IF q[n] \in G THEN Append(kept[n - 1], q[n])
                                                   ELSE kept[n - 1]
  BY <1>6
<1> DEFINE P == {n \in 0..N : Lists(p, kept[n], Front(q, n) \cap G)}
<1>8. 0 \in P
  <2>0. 0 \in 0..N /\ 1..0 = {}
    BY <1>2
  <2>1. kept[0] = <<>> /\ Front(q, 0) = {}
    BY <1>7, <2>0 DEF Front
  <2>2. <<>> \in Seq({}) /\ Len(<<>>) = 0
    BY EmptySeq
  <2>3. QED
    BY <2>0, <2>1, <2>2 DEF Lists
<1>9. ASSUME NEW n \in 1..N, n - 1 \in P
      PROVE  n \in P
  <2> DEFINE old  == kept[n - 1]
             rest == Front(q, n - 1) \cap G
  <2>1. n \in 0..N /\ n - 1 \in 0..N /\ n # 0 /\ q[n] \in rows
    BY <1>2
  <2>2. Lists(p, old, rest)
    BY <1>9
  <2>3. Front(q, n) = Front(q, n - 1) \cup {q[n]}
    <3>1. \A i : i \in 1..n <=> i \in 1..(n - 1) \/ i = n
      BY <1>2
    <3>2. QED
      BY <3>1 DEF Front
  <2>4. kept[n] = IF q[n] \in G THEN Append(old, q[n]) ELSE old
    BY <1>7, <2>1
  <2>5. CASE q[n] \notin G
    <3>1. kept[n] = old /\ Front(q, n) \cap G = rest
      BY <2>3, <2>4, <2>5
    <3>2. QED
      BY <2>1, <2>2, <3>1
  <2>6. CASE q[n] \in G
    <3> DEFINE x == q[n]
    <3>1. Lists(p, <<x>>, {x})
      <4>1. <<x>> \in Seq({x}) /\ Len(<<x>>) = 1 /\ <<x>>[1] = x
        OBVIOUS
      <4>2. QED
        BY <4>1 DEF Lists
    <3>2. \A y \in rest : Before(p, y, x)
      <4> SUFFICES ASSUME NEW y \in rest PROVE Before(p, y, x)
        OBVIOUS
      <4>1. PICK i \in 1..(n - 1) : q[i] = y
        BY DEF Front
      <4>2. i \in 1..N /\ i < n
        BY <1>2
      <4>3. QED
        BY <4>1, <4>2 DEF Lists, N
    <3>3. old \in Seq(rest)
      BY <2>2 DEF Lists
    <3>4. Append(old, x) = old \o <<x>>
      BY <3>3, AppendIsConcat
    <3>5. Front(q, n) \cap G = rest \cup {x} /\ kept[n] = Append(old, x)
      BY <2>3, <2>4, <2>6
    <3> HIDE DEF x, old, rest
    <3>6. Lists(p, old \o <<x>>, rest \cup {x})
      BY <2>2, <3>1, <3>2, ListsJoin
    <3>7. QED
      BY <2>1, <3>4, <3>5, <3>6
  <2>7. QED
    BY <2>5, <2>6
<1>10. N \in P
  <2> HIDE DEF P
  <2>1. \A n \in 0..N : n \in P
    BY <1>2, <1>8, <1>9, CountsUp
  <2>2. QED
    BY <1>2, <2>1
<1>11. QED
  BY <1>0, <1>1, <1>10

\* Without lists the rows that remain, in the same order.
LEMMA WithoutLists ==
  ASSUME NEW p, NEW q, NEW rows, IsScope(p, rows), Lists(p, q, rows), NEW G
  PROVE  Lists(p, Without(q, G), rows \ G)
<1> DEFINE W == {q[i] : i \in DOMAIN q} \ G
<1>1. rows = {q[i] : i \in DOMAIN q}
  BY ListsEach DEF Lists
<1>2. rows \cap W = rows \ G
  BY <1>1
<1>3. Without(q, G) = Those(q, W)
  BY DEF Without
<1> HIDE DEF W
<1>4. Lists(p, Those(q, W), rows \cap W)
  BY ThoseLists
<1>5. QED
  BY <1>2, <1>3, <1>4

-----------------------------------------------------------------------------
(* Where a drop is *)

\* The row t is above the slot.
IsAbove(p, at, t) ==
  IF at.prev # None THEN t = at.prev \/ Before(p, t, at.prev)
                    ELSE at.next # None /\ Before(p, t, at.next)

\* The rows that keep ranks below that of the placed one are those above the slot.
LEMMA BelowIsAbove ==
  ASSUME NEW p, NEW rows, NEW at, Anchored(rows, at), at.bottom = FALSE
  PROVE  \A t : t \in Below(p, rows, at) <=> t \in rows /\ IsAbove(p, at, t)
BY DEF Below, Anchored, Preceding, IsAbove

\* The slot a request names by two neighbours in a list.
SlotAt(m, k) == [prev |-> Neighbour(m, k), next |-> Neighbour(m, k + 1), bottom |-> FALSE]

\* Two neighbours in a list are a slot, and above it is what the list has before it.
LEMMA SlotOfList ==
  ASSUME NEW p, NEW m, NEW rows, IsScope(p, rows), Lists(p, m, rows), None \notin rows,
         NEW k \in Nat, k <= Len(m)
  PROVE  /\ Anchored(rows, SlotAt(m, k))
         /\ SlotAt(m, k).bottom = FALSE
         /\ \A t \in rows : IsAbove(p, SlotAt(m, k), t) <=> t \in Part(m, 1, k)
<1> DEFINE at == SlotAt(m, k)
<1>1. /\ Len(m) \in Nat /\ DOMAIN m = 1..Len(m)
      /\ \A i \in 1..Len(m) : m[i] \in rows /\ m[i] # None
  BY ListsEach
<1>2. /\ at.prev = Neighbour(m, k) /\ at.next = Neighbour(m, k + 1) /\ at.bottom = FALSE
  BY DEF SlotAt
<1>3. at.prev = IF k = 0 THEN None ELSE m[k]
  BY <1>1, <1>2 DEF Neighbour
<1>4. /\ k = Len(m) => k + 1 \notin 1..Len(m)
      /\ k # Len(m) => k + 1 \in 1..Len(m)
  <2> DEFINE n == Len(m)
  <2>1. n \in Nat /\ k <= n
    BY <1>1
  <2> HIDE DEF n
  <2>2. (k = n => k + 1 \notin 1..n) /\ (k # n => k + 1 \in 1..n)
    BY <2>1
  <2>3. QED
    BY <2>2 DEF n
<1>5. at.next = IF k = Len(m) THEN None ELSE m[k + 1]
  BY <1>1, <1>2, <1>4 DEF Neighbour
<1>6. Anchored(rows, at)
  <2>1. k # 0 => k \in 1..Len(m)
    OBVIOUS
  <2>2. k # Len(m) => k + 1 \in 1..Len(m)
    BY <1>4
  <2>3. QED
    BY <1>1, <1>3, <1>5, <2>1, <2>2 DEF Anchored
<1>7. ASSUME NEW j \in 1..Len(m), NEW l \in 1..Len(m)
      PROVE  Before(p, m[j], m[l]) <=> j < l
  <2>1. j < l => Before(p, m[j], m[l])
    BY DEF Lists
  <2>2. j = l => ~Before(p, m[j], m[l])
    BY <1>1, BeforeIrreflexive
  <2>3. l < j => Before(p, m[l], m[j])
    BY DEF Lists
  <2>4. l < j => ~Before(p, m[j], m[l])
    <3>1. m[j] \in rows /\ m[l] \in rows
      BY <1>1
    <3>2. l < j => m[j] # m[l]
      BY <2>3, <3>1, BeforeIrreflexive
    <3>3. QED
      BY <2>3, <3>1, <3>2, BeforeTotal
  <2>5. QED
    BY <2>1, <2>2, <2>4
<1>8. ASSUME NEW j \in 1..Len(m), NEW l \in 1..Len(m), m[j] = m[l]
      PROVE  j = l
  BY <1>7, <1>8
<1>9. ASSUME NEW t \in rows
      PROVE  IsAbove(p, at, t) <=> t \in Part(m, 1, k)
  <2>1. PICK j \in 1..Len(m) : m[j] = t
    BY DEF Lists
  <2>2. t \in Part(m, 1, k) <=> j <= k
    <3>1. j <= k => j \in 1..k
      OBVIOUS
    <3>2. ASSUME NEW i \in 1..k, m[i] = t PROVE j <= k
      BY <1>8, <2>1, <3>2
    <3>3. QED
      BY <2>1, <3>1, <3>2 DEF Part
  <2>3. CASE k # 0
    <3>1. k \in 1..Len(m) /\ at.prev = m[k] /\ at.prev # None
      BY <1>1, <1>3, <2>3
    <3>2. IsAbove(p, at, t) <=> m[j] = m[k] \/ Before(p, m[j], m[k])
      BY <2>1, <3>1 DEF IsAbove
    <3>3. IsAbove(p, at, t) <=> j = k \/ j < k
      BY <1>7, <1>8, <3>1, <3>2
    <3>4. QED
      BY <2>2, <3>3
  <2>4. CASE k = 0 /\ Len(m) # 0
    <3>1. 1 \in 1..Len(m) /\ at.next = m[1] /\ at.next # None /\ at.prev = None
      BY <1>1, <1>3, <1>5, <2>4
    <3>2. IsAbove(p, at, t) <=> Before(p, m[j], m[1])
      BY <2>1, <3>1 DEF IsAbove
    <3>3. IsAbove(p, at, t) <=> j < 1
      BY <1>7, <3>1, <3>2
    <3>4. QED
      BY <2>2, <2>4, <3>3
  <2>5. CASE k = 0 /\ Len(m) = 0
    BY <2>5
  <2>6. QED
    BY <2>3, <2>4, <2>5
<1>10. QED
  BY <1>2, <1>6, <1>9

\* The rows `left' are listed above and below the slot.
Cuts(p, left, above, below, at) ==
  \E A, B :
    /\ left = A \cup B
    /\ Lists(p, above, A) /\ Lists(p, below, B)
    /\ \A x \in A, y \in B : Before(p, x, y)
    /\ Anchored(left, at) /\ at.bottom = FALSE
    /\ \A t \in left : IsAbove(p, at, t) <=> t \in A

\* None of the group is among the first k.
NoneAbove(q, k, G) == \A i \in DOMAIN SubSeq(q, 1, k) : SubSeq(q, 1, k)[i] \notin G

\* A list without a group, cut where one of the group was dropped: what is above the
\* drop, and what is below it without the rest of the group.
LEMMA DropCut ==
  ASSUME NEW p, NEW shown, NEW rows, IsScope(p, rows), Lists(p, shown, rows),
         None \notin rows, NEW G, NEW s \in G,
         NEW index \in 0..Len(Without(shown, {s})),
         NoneAbove(Without(shown, {s}), index, G)
  PROVE  LET others == Without(shown, {s})
             above  == SubSeq(others, 1, index)
             below  == Without(SubSeq(others, index + 1, Len(others)), G)
             at     == bulkMoveRequest(shown, G, index)
         IN  Cuts(p, rows \ G, above, below, at)
<1> DEFINE others == Without(shown, {s})
           n      == Len(others)
           above  == SubSeq(others, 1, index)
           under  == SubSeq(others, index + 1, n)
           below  == Without(under, G)
           left   == Without(shown, G)
           A      == Part(others, 1, index)
           U      == Part(others, index + 1, n)
           B      == U \ G
<1>1. Lists(p, others, rows \ {s})
  BY WithoutLists
<1>2. Lists(p, left, rows \ G)
  BY WithoutLists
<1>3. n \in Nat /\ \A i \in 1..n : others[i] \in rows \ {s}
  <2> HIDE DEF others
  <2>1. QED
    BY <1>1, ListsEach
<1>4. index \in Nat /\ index <= n
  BY <1>3
<1>5. /\ Lists(p, above, A) /\ Lists(p, under, U) /\ Len(above) = index
      /\ rows \ {s} = A \cup U
      /\ \A x \in A, y \in U : Before(p, x, y)
  <2> HIDE DEF others
  <2>1. QED
    BY <1>1, <1>4, ListsCut
<1>6. /\ DOMAIN above = 1..index /\ \A i \in 1..index : above[i] = others[i]
  <2> HIDE DEF others
  <2>1. DOMAIN above = 1..index
    BY <1>5, ListsEach
  <2>2. others \in Seq(rows \ {s})
    BY <1>1 DEF Lists
  <2>3. QED
    BY <1>3, <1>4, <2>1, <2>2
<1>7. A \cap G = {}
  <2>1. \A i \in 1..index : above[i] \notin G
    BY <1>6 DEF NoneAbove
  <2> HIDE DEF others, above
  <2>2. QED
    BY <1>6, <2>1 DEF Part
<1> HIDE DEF others, above, under, A, U, left
<1>8. IsScope(p, U) /\ IsScope(p, rows \ G)
  BY <1>5, SubScope
<1>9. Lists(p, below, B)
  BY <1>5, <1>8, WithoutLists
<1>10. rows \ G = A \cup B /\ \A x \in A, y \in B : Before(p, x, y)
  BY <1>5, <1>7
<1> HIDE DEF below, B
<1>11. left = above \o below
  <2>1. Lists(p, above \o below, A \cup B)
    BY <1>5, <1>9, <1>10, ListsJoin
  <2>2. QED
    BY <1>2, <1>8, <1>10, <2>1, ListsSame
<1>12. /\ Len(left) = index + Len(below) /\ Len(below) \in Nat
       /\ \A i \in 1..index : left[i] = others[i]
  <2>1. above \in Seq(rows) /\ below \in Seq(rows)
    <3>1. above \in Seq(A) /\ below \in Seq(B)
      BY <1>5, <1>9 DEF Lists
    <3>2. A \subseteq rows /\ B \subseteq rows
      BY <1>10
    <3>3. QED
      BY <3>1, <3>2
  <2>2. /\ Len(above \o below) = Len(above) + Len(below)
        /\ \A i \in 1..(Len(above) + Len(below)) :
             (above \o below)[i] = IF i <= Len(above) THEN above[i]
                                                      ELSE below[i - Len(above)]
    BY <2>1, ConcatProperties
  <2>3. Len(below) \in Nat
    BY <2>1
  <2>4. ASSUME NEW i \in 1..index PROVE left[i] = others[i]
    <3>1. i \in 1..(Len(above) + Len(below)) /\ i <= Len(above)
      BY <1>4, <1>5, <2>3
    <3>2. QED
      BY <1>6, <1>11, <2>2, <3>1
  <2>5. QED
    BY <1>5, <1>11, <2>2, <2>3, <2>4
<1>13. index <= Len(left) /\ Part(left, 1, index) = A
  <2>1. Part(left, 1, index) = Part(others, 1, index)
    BY <1>12 DEF Part
  <2>2. QED
    BY <1>4, <1>12, <2>1 DEF A
<1>14. bulkMoveRequest(shown, G, index) = SlotAt(left, index)
  <2>1. bulkMoveRequest(shown, G, index)
          = SlotAt(left, IF index < Len(left) THEN index ELSE Len(left))
    BY DEF bulkMoveRequest, SlotAt, left
  <2>2. (IF index < Len(left) THEN index ELSE Len(left)) = index
    BY <1>4, <1>12
  <2>3. QED
    BY <2>1, <2>2
<1> DEFINE at == SlotAt(left, index)
<1>15. /\ Anchored(rows \ G, at) /\ at.bottom = FALSE
       /\ \A t \in rows \ G : IsAbove(p, at, t) <=> t \in A
  BY <1>2, <1>4, <1>8, <1>13, SlotOfList
<1> HIDE DEF at
<1>16. Cuts(p, rows \ G, above, below, at)
  BY <1>5, <1>9, <1>10, <1>15 DEF Cuts
<1>17. QED
  BY <1>14, <1>16 DEF at, others, above, under, below

-----------------------------------------------------------------------------
(* A batch, as the answer has it *)

\* The table after these stories were dragged into a panel.
DraggedAll(M, sec) ==
  [t \in DOMAIN story |-> IF t \in M THEN Dragged(t, sec) ELSE story[t]]

\* A batch the service takes: each story once, each may go there, and the slot is
\* next to one that stays.
Takes(ids, sec, at) ==
  /\ Len(ids) \in Nat
  /\ \A i \in 1..Len(ids) : Movable(ids[i], sec)
  /\ \A i, j \in 1..Len(ids) : i < j => ids[i] # ids[j]
  /\ Anchored(Scope(story, sec) \ Front(ids, Len(ids)), at)
  /\ at.bottom = FALSE

\* The first n stories of the batch stand at the slot as one block, in the order
\* given; everything else is as it was but for the numbers of the panel.
Landed(b, ids, n, sec, at) ==
  /\ b.story = DraggedAll(Front(ids, n), sec)
  /\ b.pos \in [DOMAIN story -> Int]
  /\ \A t, u \in Scope(story, sec) \ Front(ids, n) : Before(b.pos, t, u) <=> Before(pos, t, u)
  /\ \A i, j \in 1..n : i < j => Before(b.pos, ids[i], ids[j])
  /\ \A t \in Scope(story, sec) \ Front(ids, n), i \in 1..n :
       Before(b.pos, t, ids[i]) <=> IsAbove(pos, at, t)

\* From one column to the next a row took the slot above `below', and the others kept
\* their order.
TakesSlot(col, new, rows, s, below) ==
  /\ DOMAIN new = DOMAIN col \cup {s}
  /\ IsScope(new, rows \cup {s})
  /\ \A t, u \in rows : Before(new, t, u) <=> Before(col, t, u)
  /\ \A t \in below : Before(new, t, s)
  /\ \A t \in rows \ below : Before(new, s, t)
  /\ \A t \in DOMAIN col \ (rows \cup {s}) : new[t] = col[t]

\* The placement algorithm takes a slot.
LEMMA PlacedTakesSlot ==
  ASSUME NEW col, NEW rows, IsScope(col, rows), NEW s \in Int, s \notin rows,
         NEW below, IsSlot(col, rows, below)
  PROVE  TakesSlot(col, Placed(col, rows, s, below), rows, s, below)
<1> DEFINE new == Placed(col, rows, s, below)
<1>1. /\ DOMAIN new = DOMAIN col \cup {s}
      /\ IsScope(new, rows \cup {s})
      /\ \A a, b \in rows : Before(new, a, b) <=> Before(col, a, b)
      /\ \A t \in below : Before(new, t, s)
      /\ \A t \in rows \ below : Before(new, s, t)
      /\ \A t \in DOMAIN col \ (rows \cup {s}) : new[t] = col[t]
  BY PlacedKeepsOrder
<1> HIDE DEF new
<1>2. TakesSlot(col, new, rows, s, below)
  BY <1>1 DEF TakesSlot
<1>3. QED
  BY <1>2 DEF new

\* The next story of the batch.
Carries(b, ids, n, sec, at) ==
  LET s    == ids[n]
      rows == Scope(b.story, sec) \ {s}
      slot == IF n = 1 THEN at ELSE After(ids[n - 1])
  IN  [story |-> [b.story EXCEPT ![s] = Dragged(s, sec)],
       pos   |-> Placed(b.pos, rows, s, Below(b.pos, rows, slot))]

\* A drag only changes the state, and it may be into any panel.
LEMMA DraggedRow ==
  ASSUME TypeOK, NEW sec \in Panels, NEW s, Movable(s, sec)
  PROVE  /\ s \in DOMAIN story /\ s \in Int /\ Dragged(s, sec) \in Row
         /\ ~Dragged(s, sec).trashed /\ Dragged(s, sec).state \in OrderedStates(sec)
         /\ Dragged(s, sec).state # "accepted"
<1>1. s \in DOMAIN story /\ story[s] \in Row /\ ~story[s].trashed /\ s \in Int
  BY StoryAssumption DEF Movable, TypeOK, IsTable
<1>2. CASE SectionOf(story[s].state) = sec
  <2>1. story[s].state \in OrderedStates(sec) /\ story[s].state # "accepted"
    BY <1>1, <1>2 DEF Movable, Row, States, SectionOf, OrderedStates, Panels
  <2>2. QED
    BY <1>1, <1>2, <2>1 DEF Dragged
<1>3. CASE SectionOf(story[s].state) # sec
  <2>1. EntryState(sec) \in OrderedStates(sec) /\ EntryState(sec) \in States
        /\ EntryState(sec) # "accepted"
    BY DEF EntryState, OrderedStates, Panels, States
  <2>2. Dragged(s, sec) = [story[s] EXCEPT !.state = EntryState(sec)]
    BY <1>3 DEF Dragged
  <2>3. QED
    BY <1>1, <2>1, <2>2 DEF Row
<1>4. QED
  BY <1>1, <1>2, <1>3

\* The dragged stories join the rows of the panel.
LEMMA DraggedAllScope ==
  ASSUME TypeOK, NEW sec \in Panels, NEW M, \A s \in M : Movable(s, sec)
  PROVE  /\ DraggedAll(M, sec) \in [DOMAIN story -> Row]
         /\ M \subseteq DOMAIN story
         /\ Scope(DraggedAll(M, sec), sec) = (Scope(story, sec) \ M) \cup M
<1>1. \A s \in M : /\ s \in DOMAIN story /\ Dragged(s, sec) \in Row
                   /\ ~Dragged(s, sec).trashed /\ Dragged(s, sec).state \in OrderedStates(sec)
  BY DraggedRow
<1>2. \A t \in DOMAIN story : story[t] \in Row
  BY DEF TypeOK, IsTable
<1>3. /\ DOMAIN DraggedAll(M, sec) = DOMAIN story
      /\ \A t \in DOMAIN story :
           DraggedAll(M, sec)[t] = IF t \in M THEN Dragged(t, sec) ELSE story[t]
  BY DEF DraggedAll
<1>4. DraggedAll(M, sec) \in [DOMAIN story -> Row]
  BY <1>1, <1>2 DEF DraggedAll
<1>5. QED
  BY <1>1, <1>3, <1>4 DEF Scope

\* One round of the batch keeps what the rounds before it reached.
LEMMA CarriesLands ==
  ASSUME TypeOK, NEW sec \in Panels, NEW ids, NEW at, Takes(ids, sec, at),
         NEW n \in 1..Len(ids), NEW b, Landed(b, ids, n - 1, sec, at)
  PROVE  /\ Landed(Carries(b, ids, n, sec, at), ids, n, sec, at)
         /\ Carries(b, ids, n, sec, at) \in
              [story : [DOMAIN story -> Row], pos : [DOMAIN story -> Int]]
<1> DEFINE s     == ids[n]
           moved == Front(ids, n - 1)
           rest  == (Scope(story, sec) \ moved) \ {s}
           rows  == Scope(b.story, sec) \ {s}
           slot  == IF n = 1 THEN at ELSE After(ids[n - 1])
           below == Below(b.pos, rows, slot)
           new   == Placed(b.pos, rows, s, below)
           tbl   == [b.story EXCEPT ![s] = Dragged(s, sec)]
<1>1. /\ Len(ids) \in Nat /\ n \in Nat
      /\ \A i \in 1..n : i \in 1..Len(ids)
  BY DEF Takes
<1>2. /\ \A i \in 1..n : Movable(ids[i], sec) /\ ids[i] \in DOMAIN story /\ ids[i] \in Int
      /\ \A i, j \in 1..n : i < j => ids[i] # ids[j]
  BY <1>1, DraggedRow DEF Takes
<1>3. Front(ids, n) = moved \cup {s} /\ s \notin moved
  <2>1. \A i : i \in 1..n <=> i \in 1..(n - 1) \/ i = n
    BY <1>1
  <2>2. \A i \in 1..(n - 1) : ids[i] # s
    BY <1>1, <1>2, <2>1
  <2>3. QED
    BY <2>1, <2>2 DEF Front
<1>4. \A t \in Front(ids, n) : Movable(t, sec)
  BY <1>2 DEF Front
<1>5. /\ b.story = DraggedAll(moved, sec)
      /\ b.pos \in [DOMAIN story -> Int]
      /\ \A t, u \in Scope(story, sec) \ moved : Before(b.pos, t, u) <=> Before(pos, t, u)
      /\ \A i, j \in 1..(n - 1) : i < j => Before(b.pos, ids[i], ids[j])
      /\ \A t \in Scope(story, sec) \ moved, i \in 1..(n - 1) :
           Before(b.pos, t, ids[i]) <=> IsAbove(pos, at, t)
  BY DEF Landed
<1>6. Scope(story, sec) \subseteq DOMAIN story
  BY DEF Scope
<1>7. rows = rest \cup moved /\ s \notin rows /\ rows \subseteq DOMAIN story
  <2>1. \A t \in moved : Movable(t, sec)
    BY <1>3, <1>4
  <2> HIDE DEF moved
  <2>2. Scope(b.story, sec) = (Scope(story, sec) \ moved) \cup moved /\ moved \subseteq DOMAIN story
    BY <1>5, <2>1, DraggedAllScope
  <2>3. QED
    BY <1>3, <1>6, <2>2
<1>8. IsScope(b.pos, rows) /\ IsScope(pos, rest)
  <2>1. rest \subseteq DOMAIN story
    BY <1>6
  <2>2. IsFiniteSet(rows) /\ rows \subseteq Int
    BY <1>7, StoryAssumption, FS_Subset DEF TypeOK, IsTable
  <2>3. IsScope(pos, rest)
    BY <2>1, TableScope
  <2>4. QED
    BY <1>5, <1>7, <2>2, <2>3 DEF IsScope
<1>9. s \in DOMAIN story /\ s \in Int /\ Dragged(s, sec) \in Row
  BY <1>1, <1>4, <1>3, DraggedRow
<1>10. /\ Anchored(Scope(story, sec) \ Front(ids, Len(ids)), at) /\ at.bottom = FALSE
       /\ Anchored(rest, at)
  <2>1. Front(ids, n) \subseteq Front(ids, Len(ids))
    BY <1>1 DEF Front
  <2>2. Scope(story, sec) \ Front(ids, Len(ids)) \subseteq rest
    BY <1>3, <2>1
  <2>3. Anchored(Scope(story, sec) \ Front(ids, Len(ids)), at) /\ at.bottom = FALSE
    BY DEF Takes
  <2>4. QED
    BY <2>2, <2>3 DEF Anchored
<1> HIDE DEF s, moved, rest
<1>11. /\ Anchored(rows, slot)
       /\ moved \subseteq below
       /\ \A t \in rest : t \in below <=> IsAbove(pos, at, t)
  <2> HIDE DEF rows
  <2>1. CASE n = 1
    <3>1. slot = at /\ moved = {} /\ rows = rest
      <4>1. 1..(n - 1) = {}
        BY <2>1
      <4>2. moved = {}
        BY <4>1 DEF moved, Front
      <4>3. QED
        BY <1>7, <2>1, <4>2
    <3>2. \A t \in rest : t \in below <=> IsAbove(b.pos, at, t)
      <4>1. \A t : t \in Below(b.pos, rest, at) <=> t \in rest /\ IsAbove(b.pos, at, t)
        BY <1>10, BelowIsAbove
      <4>2. below = Below(b.pos, rest, at)
        <5> HIDE DEF slot
        <5>1. QED
          BY <3>1
      <4>3. QED
        BY <4>1, <4>2
    <3>3. \A t \in rest : IsAbove(b.pos, at, t) <=> IsAbove(pos, at, t)
      <4>1. \A t, u \in rest : Before(b.pos, t, u) <=> Before(pos, t, u)
        BY <1>5 DEF rest
      <4>2. QED
        BY <1>10, <4>1 DEF IsAbove, Anchored
    <3>4. QED
      BY <1>10, <3>1, <3>2, <3>3
  <2>2. CASE n # 1
    <3> DEFINE prev == ids[n - 1]
    <3>1. n - 1 \in 1..(n - 1) /\ n - 1 \in 1..n
      BY <1>1, <2>2
    <3>2. prev \in moved /\ prev \in rows /\ prev # None
      <4>1. prev \in moved
        BY <3>1 DEF moved, Front
      <4>2. prev \in Story
        BY <1>2, <3>1 DEF TypeOK, IsTable
      <4>3. QED
        BY <1>7, <4>1, <4>2, StoryAssumption
    <3>3. slot = After(prev)
      BY <2>2
    <3> HIDE DEF prev
    <3>4. slot.prev = prev /\ slot.next = None /\ slot.bottom = FALSE
      BY <3>3 DEF After
    <3>5. Anchored(rows, slot)
      BY <3>2, <3>4 DEF Anchored
    <3> HIDE DEF slot
    <3>6. \A t \in rows : t \in below <=> t = prev \/ Before(b.pos, t, prev)
      <4>1. \A t : t \in below <=> t \in rows /\ IsAbove(b.pos, slot, t)
        BY <3>4, <3>5, BelowIsAbove
      <4>2. \A t : IsAbove(b.pos, slot, t) <=> t = prev \/ Before(b.pos, t, prev)
        BY <3>2, <3>4 DEF IsAbove
      <4> HIDE DEF below
      <4>3. QED
        BY <4>1, <4>2
    <3>7. ASSUME NEW t \in moved PROVE t \in below
      <4>1. PICK i \in 1..(n - 1) : ids[i] = t
        BY DEF moved, Front
      <4>2. i = n - 1 \/ i < n - 1
        BY <1>1
      <4>3. t = prev \/ Before(b.pos, t, prev)
        BY <1>5, <3>1, <4>1, <4>2 DEF prev
      <4>4. QED
        BY <1>7, <3>6, <4>3
    <3>8. ASSUME NEW t \in rest PROVE t \in below <=> IsAbove(pos, at, t)
      <4>1. t \in Scope(story, sec) \ moved /\ t # prev /\ t \in rows
        BY <1>7, <3>2 DEF rest
      <4>2. Before(b.pos, t, prev) <=> IsAbove(pos, at, t)
        BY <1>5, <3>1, <4>1 DEF prev
      <4>3. QED
        BY <3>6, <4>1, <4>2
    <3>9. QED
      BY <3>5, <3>7, <3>8
  <2>3. QED
    BY <2>1, <2>2
<1>12. IsSlot(b.pos, rows, below)
  <2> HIDE DEF rows, slot
  <2>1. QED
    BY <1>8, <1>11, BelowIsSlot
<1> HIDE DEF rows, slot, below
<1>13. /\ DOMAIN new = DOMAIN b.pos \cup {s}
       /\ IsScope(new, rows \cup {s})
       /\ \A t, u \in rows : Before(new, t, u) <=> Before(b.pos, t, u)
       /\ \A t \in below : Before(new, t, s)
       /\ \A t \in rows \ below : Before(new, s, t)
       /\ \A t \in DOMAIN b.pos \ (rows \cup {s}) : new[t] = b.pos[t]
  <2> DEFINE col == b.pos
  <2>1. IsScope(col, rows) /\ IsSlot(col, rows, below) /\ s \in Int /\ s \notin rows
    BY <1>7, <1>8, <1>9, <1>12
  <2> HIDE DEF col
  <2>2. TakesSlot(col, Placed(col, rows, s, below), rows, s, below)
    BY <2>1, PlacedTakesSlot
  <2>3. QED
    BY <2>2 DEF col, TakesSlot
<1> HIDE DEF new
<1>14. new \in [DOMAIN story -> Int]
  <2>1. DOMAIN new = DOMAIN story
    BY <1>5, <1>9, <1>13
  <2>2. \A t \in DOMAIN story : new[t] \in Int
    BY <1>5, <1>13 DEF IsScope
  <2>3. new = [t \in DOMAIN new |-> new[t]]
    BY <1>13 DEF new, Placed
  <2>4. QED
    BY <2>1, <2>2, <2>3
<1>15. tbl = DraggedAll(moved \cup {s}, sec) /\ tbl \in [DOMAIN story -> Row]
  <2>1. tbl = [t \in DOMAIN story |-> IF t = s THEN Dragged(s, sec) ELSE b.story[t]]
    BY <1>5, <1>9 DEF DraggedAll
  <2>2. \A t \in DOMAIN story : b.story[t] = IF t \in moved THEN Dragged(t, sec) ELSE story[t]
    BY <1>5 DEF DraggedAll
  <2>3. tbl = DraggedAll(moved \cup {s}, sec)
    BY <2>1, <2>2 DEF DraggedAll
  <2> DEFINE M == moved \cup {s}
  <2>4. \A t \in M : Movable(t, sec)
    BY <1>3, <1>4
  <2> HIDE DEF M
  <2>5. DraggedAll(M, sec) \in [DOMAIN story -> Row]
    BY <2>4, DraggedAllScope
  <2>6. QED
    BY <2>3, <2>5 DEF M
<1>16. Carries(b, ids, n, sec, at) = [story |-> tbl, pos |-> new]
  BY DEF Carries, s, rows, slot, below, new
<1> HIDE DEF tbl
<1>17. \A t, u \in rest : Before(new, t, u) <=> Before(pos, t, u)
  BY <1>5, <1>7, <1>13 DEF rest
<1>18. ASSUME NEW i \in 1..n, NEW j \in 1..n, i < j
       PROVE  Before(new, ids[i], ids[j])
  <2>1. i \in 1..(n - 1) /\ ids[i] \in moved
    BY <1>1, <1>18 DEF moved, Front
  <2>2. CASE j = n
    BY <1>11, <1>13, <2>1, <2>2 DEF s
  <2>3. CASE j # n
    <3>1. j \in 1..(n - 1) /\ ids[j] \in moved
      BY <1>1, <2>3 DEF moved, Front
    <3>2. QED
      BY <1>5, <1>7, <1>13, <1>18, <2>1, <3>1
  <2>4. QED
    BY <2>2, <2>3
<1>19. ASSUME NEW t \in rest, NEW i \in 1..n
       PROVE  Before(new, t, ids[i]) <=> IsAbove(pos, at, t)
  <2>1. t \in rows /\ t # s /\ t \in Scope(story, sec) \ moved
    BY <1>7 DEF rest
  <2>2. CASE i = n
    <3>1. Before(new, t, s) <=> ~Before(new, s, t)
      BY <1>13, <2>1, BeforeTotal
    <3>2. Before(new, t, s) <=> t \in below
      BY <1>13, <2>1, <3>1
    <3>3. QED
      BY <1>11, <2>2, <3>2 DEF s
  <2>3. CASE i # n
    <3>1. i \in 1..(n - 1) /\ ids[i] \in moved
      BY <1>1, <2>3 DEF moved, Front
    <3>2. QED
      BY <1>5, <1>7, <1>13, <2>1, <3>1
  <2>4. QED
    BY <2>2, <2>3
<1>20. rest = Scope(story, sec) \ Front(ids, n)
  BY <1>3 DEF rest
<1> DEFINE c == Carries(b, ids, n, sec, at)
<1>21. c.story = tbl /\ c.pos = new
  BY <1>16
<1>22. c \in [story : [DOMAIN story -> Row], pos : [DOMAIN story -> Int]]
  <2> DEFINE T == [DOMAIN story -> Row]
             P == [DOMAIN story -> Int]
  <2>1. tbl \in T /\ new \in P
    BY <1>14, <1>15
  <2> HIDE DEF T, P
  <2>2. [story |-> tbl, pos |-> new] \in [story : T, pos : P]
    BY <2>1
  <2>3. QED
    BY <1>16, <2>2 DEF T, P
<1> HIDE DEF c
<1>23. Landed(c, ids, n, sec, at)
  BY <1>3, <1>14, <1>15, <1>17, <1>18, <1>19, <1>20, <1>21 DEF Landed
<1>24. QED
  BY <1>22, <1>23 DEF c

\* The answer to a batch the service takes has all of it at the slot.
LEMMA AnsweredLands ==
  ASSUME TypeOK, NEW sec \in Panels, NEW ids, NEW at, Takes(ids, sec, at)
  PROVE  Landed(Answered(ids, sec, at), ids, Len(ids), sec, at)
<1> DEFINE N == Len(ids)
           v == [story |-> story, pos |-> pos]
           body(f) == [n \in 0..N |-> IF n = 0 THEN v ELSE Carries(f[n - 1], ids, n, sec, at)]
           board == CHOOSE f : f = body(f)
           V == [story : [DOMAIN story -> Row], pos : [DOMAIN story -> Int]]
           In(b, n) == Landed(b, ids, n, sec, at)
           step == [x \in V \X (1..N) |-> IF In(x[1], x[2] - 1)
                                         THEN Carries(x[1], ids, x[2], sec, at) ELSE x[1]]
<1>1. Answered(ids, sec, at) = board[N]
  BY DEF Answered, Carries
<1>2. N \in Nat
  BY DEF Takes
<1>3. v \in V /\ In(v, 0)
  <2>1. story \in [DOMAIN story -> Row] /\ pos \in [DOMAIN story -> Int]
    BY DEF TypeOK, IsTable
  <2>2. v \in V /\ v.story = story /\ v.pos = pos
    <3> DEFINE T == [DOMAIN story -> Row]
               P == [DOMAIN story -> Int]
    <3>1. story \in T /\ pos \in P
      BY <2>1
    <3> HIDE DEF T, P
    <3>2. [story |-> story, pos |-> pos] \in [story : T, pos : P]
      BY <3>1
    <3>3. QED
      BY <3>2 DEF T, P
  <2>3. Front(ids, 0) = {} /\ 1..0 = {}
    BY DEF Front
  <2>4. DraggedAll({}, sec) = story
    BY <2>1 DEF DraggedAll
  <2> HIDE DEF v, V
  <2>5. QED
    BY <2>1, <2>2, <2>3, <2>4 DEF Landed
<1>4. ASSUME NEW n \in 1..N, NEW b, In(b, n - 1)
      PROVE  In(Carries(b, ids, n, sec, at), n) /\ Carries(b, ids, n, sec, at) \in V
  BY <1>4, CarriesLands
<1> HIDE DEF N, v, V, In
<1>5. \E f : f = body(f)
  <2>1. \A x \in V, n \in 1..N :
          step[<<x, n>>] = IF In(x, n - 1) THEN Carries(x, ids, n, sec, at) ELSE x
    OBVIOUS
  <2> HIDE DEF step
  <2>2. ASSUME NEW x \in V, NEW n \in 1..N
        PROVE  step[<<x, n>>] \in V
    <3>1. CASE In(x, n - 1)
      <4>1. step[<<x, n>>] = Carries(x, ids, n, sec, at)
        BY <2>1, <3>1
      <4>2. Carries(x, ids, n, sec, at) \in V
        BY <1>4, <3>1
      <4>3. QED
        BY <4>1, <4>2
    <3>2. CASE ~In(x, n - 1)
      BY <2>1, <3>2
    <3>3. QED
      BY <3>1, <3>2
  <2>3. PICK g \in [0..N -> V] : g[0] = v /\ \A n \in 1..N : g[n] = step[<<g[n - 1], n>>]
    <3>1. StaysIn(step, V, N)
      BY <2>2 DEF StaysIn
    <3>2. \E g : Recurs(g, v, step, V, N)
      BY <1>2, <1>3, <3>1, RecursionHas
    <3>3. QED
      BY <3>2 DEF Recurs
  <2> DEFINE P == {n \in 0..N : In(g[n], n)}
  <2>4. 0 \in P
    BY <1>2, <1>3, <2>3
  <2>5. ASSUME NEW n \in 1..N, n - 1 \in P
        PROVE  n \in P /\ g[n] = Carries(g[n - 1], ids, n, sec, at)
    <3>1. n - 1 \in 0..N /\ n \in 0..N /\ In(g[n - 1], n - 1)
      BY <1>2, <2>5
    <3>2. g[n - 1] \in V /\ g[n] = step[<<g[n - 1], n>>]
      BY <2>3, <3>1
    <3>3. g[n] = Carries(g[n - 1], ids, n, sec, at)
      BY <2>1, <3>1, <3>2
    <3>4. QED
      BY <1>4, <3>1, <3>3
  <2>6. \A n \in 0..N : n \in P
    <3> HIDE DEF P
    <3>1. QED
      BY <1>2, <2>4, <2>5, CountsUp
  <2>7. ASSUME NEW n \in 0..N
        PROVE  g[n] = IF n = 0 THEN v ELSE Carries(g[n - 1], ids, n, sec, at)
    <3>1. CASE n = 0
      BY <2>3, <3>1
    <3>2. CASE n # 0
      <4>1. n \in 1..N /\ n - 1 \in 0..N
        BY <1>2, <3>2
      <4> HIDE DEF P
      <4>2. QED
        BY <2>5, <2>6, <3>2, <4>1
    <3>3. QED
      BY <3>1, <3>2
  <2>8. g = body(g)
    BY <2>3, <2>7
  <2>9. QED
    BY <2>8
<1>6. board = body(board)
  <2> HIDE DEF body
  <2>1. QED
    BY <1>5
<1> HIDE DEF board
<1>7. \A n \in 0..N : board[n] = IF n = 0 THEN v ELSE Carries(board[n - 1], ids, n, sec, at)
  BY <1>6
<1> DEFINE P == {n \in 0..N : In(board[n], n)}
<1>8. 0 \in P
  BY <1>2, <1>3, <1>7
<1>9. ASSUME NEW n \in 1..N, n - 1 \in P
      PROVE  n \in P
  <2>1. n - 1 \in 0..N /\ n \in 0..N /\ n # 0 /\ In(board[n - 1], n - 1)
    BY <1>2, <1>9
  <2>2. board[n] = Carries(board[n - 1], ids, n, sec, at)
    BY <1>7, <2>1
  <2>3. QED
    BY <1>4, <2>1, <2>2
<1>10. N \in P
  <2> HIDE DEF P
  <2>1. \A n \in 0..N : n \in P
    BY <1>2, <1>8, <1>9, CountsUp
  <2>2. QED
    BY <1>2, <2>1
<1>11. QED
  BY <1>1, <1>10 DEF In, N

-----------------------------------------------------------------------------
(* What is shown, as a list *)

\* What a panel shows is the list of its rows.
LEMMA ShownLists ==
  ASSUME NEW tbl, NEW sec, NEW p, IsScope(p, Draggable(tbl, sec))
  PROVE  Lists(p, sectionStories(tbl, p, sec), Draggable(tbl, sec))
<1> DEFINE rows   == Draggable(tbl, sec)
           N      == Cardinality(rows)
           Nth(i) == CHOOSE t \in rows : Cardinality(Preceding(p, rows, t)) = i - 1
           seen   == sectionStories(tbl, p, sec)
<1>1. seen = [i \in 1..N |-> Nth(i)]
  BY DEF sectionStories, Draggable
<1>2. N \in Nat
  BY FS_CardinalityType DEF IsScope
<1>3. /\ \A i \in DOMAIN seen : seen[i] \in rows
      /\ \A t \in rows : \E i \in DOMAIN seen : seen[i] = t
  BY AllShown
<1>4. ASSUME NEW i \in 1..N
      PROVE  Nth(i) \in rows /\ Cardinality(Preceding(p, rows, Nth(i))) = i - 1
  <2>1. i - 1 \in 0..N - 1
    BY <1>2
  <2>2. \E t \in rows : Cardinality(Preceding(p, rows, t)) = i - 1
    BY <2>1, RankOnto
  <2> QED BY <2>2
<1> HIDE DEF Nth
<1>5. DOMAIN seen = 1..N /\ \A i \in 1..N : seen[i] = Nth(i)
  BY <1>1
<1>6. seen \in Seq(rows) /\ Len(seen) = N
  BY <1>1, <1>2, <1>4
<1> HIDE DEF seen, rows
<1>7. ASSUME NEW i \in 1..N, NEW j \in 1..N, i < j
      PROVE  Before(p, seen[i], seen[j])
  <2> DEFINE a == seen[i]
             b == seen[j]
  <2>1. /\ a \in rows /\ Cardinality(Preceding(p, rows, a)) = i - 1
        /\ b \in rows /\ Cardinality(Preceding(p, rows, b)) = j - 1
    BY <1>4, <1>5
  <2>2. IsScope(p, rows)
    BY DEF rows
  <2> HIDE DEF a, b
  <2>3. i - 1 # j - 1 /\ ~(j - 1 < i - 1)
    BY <1>2, <1>7
  <2>4. a # b /\ ~Before(p, b, a)
    BY <2>1, <2>2, <2>3, RankMonotone
  <2>5. QED
    BY <2>1, <2>2, <2>4, BeforeTotal DEF a, b
<1>8. QED
  BY <1>3, <1>5, <1>6, <1>7 DEF Lists, seen, rows

\* What is shown is the list of the rows of the panel.
LEMMA ShownIs ==
  ASSUME NEW tbl, NEW sec, NEW p, NEW rows, Draggable(tbl, sec) = rows, IsScope(p, rows),
         NEW q, Lists(p, q, rows)
  PROVE  sectionStories(tbl, p, sec) = q
BY ShownLists, ListsSame

\* Three lists, one below the other.
LEMMA ListsJoinThree ==
  ASSUME NEW p, NEW a, NEW A, Lists(p, a, A), NEW b, NEW B, Lists(p, b, B),
         NEW c, NEW C, Lists(p, c, C),
         \A x \in A, y \in B : Before(p, x, y),
         \A x \in A, y \in C : Before(p, x, y),
         \A x \in B, y \in C : Before(p, x, y)
  PROVE  Lists(p, a \o b \o c, A \cup B \cup C)
<1> DEFINE ab == a \o b
           AB == A \cup B
<1>1. Lists(p, ab, AB)
  BY ListsJoin
<1>2. \A x \in AB, y \in C : Before(p, x, y)
  OBVIOUS
<1> HIDE DEF ab, AB
<1>3. Lists(p, ab \o c, AB \cup C)
  BY <1>1, <1>2, ListsJoin
<1>4. QED
  BY <1>3 DEF ab, AB

-----------------------------------------------------------------------------
(* The checked stories *)

\* A list in which nothing is twice.
Once(q, S) == q \in Seq(S) /\ \A i, j \in 1..Len(q) : i < j => q[i] # q[j]

\* A list of rows has none of them twice.
LEMMA ListsOnce ==
  ASSUME NEW p, NEW q, NEW rows, IsScope(p, rows), Lists(p, q, rows)
  PROVE  Once(q, rows)
<1>1. ASSUME NEW i \in 1..Len(q), NEW j \in 1..Len(q), i < j
      PROVE  q[i] # q[j]
  <2>1. q[i] \in rows /\ Before(p, q[i], q[j])
    BY <1>1, ListsEach DEF Lists
  <2>2. QED
    BY <2>1, BeforeIrreflexive
<1>2. QED
  BY <1>1 DEF Once, Lists

\* Lists of different things joined have nothing twice.
LEMMA OnceJoin ==
  ASSUME NEW a, NEW A, Once(a, A), NEW b, NEW B, Once(b, B), A \cap B = {}
  PROVE  Once(a \o b, A \cup B)
<1> DEFINE m == Len(a)
           n == Len(b)
           c == a \o b
<1>1. /\ m \in Nat /\ \A i \in 1..m : a[i] \in A
      /\ n \in Nat /\ \A i \in 1..n : b[i] \in B
  BY LenProperties, ElementOfSeq DEF Once
<1>2. a \in Seq(A \cup B) /\ b \in Seq(A \cup B)
  <2>1. a \in Seq(A) /\ b \in Seq(B)
    BY DEF Once
  <2>2. QED
    BY <2>1
<1>3. /\ c \in Seq(A \cup B) /\ Len(c) = m + n
      /\ \A i \in 1..(m + n) : c[i] = IF i <= m THEN a[i] ELSE b[i - m]
  BY <1>2, ConcatProperties
<1> HIDE DEF c
<1>4. ASSUME NEW i \in 1..(m + n), NEW j \in 1..(m + n), i < j
      PROVE  c[i] # c[j]
  <2>1. CASE j <= m
    <3>1. i \in 1..m /\ j \in 1..m /\ c[i] = a[i] /\ c[j] = a[j]
      BY <1>1, <1>3, <1>4, <2>1
    <3>2. QED
      BY <1>4, <3>1 DEF Once
  <2>2. CASE ~(i <= m)
    <3>1. i - m \in 1..n /\ j - m \in 1..n /\ i - m < j - m /\ ~(j <= m)
      BY <1>1, <1>4, <2>2
    <3>2. c[i] = b[i - m] /\ c[j] = b[j - m]
      BY <1>3, <2>2, <3>1
    <3>3. QED
      BY <3>1, <3>2 DEF Once
  <2>3. CASE i <= m /\ ~(j <= m)
    <3>1. i \in 1..m /\ j - m \in 1..n
      BY <1>1, <2>3
    <3>2. c[i] = a[i] /\ c[j] = b[j - m]
      BY <1>3, <2>3
    <3>3. c[i] \in A /\ c[j] \in B
      BY <1>1, <3>1, <3>2
    <3>4. QED
      BY <3>3
  <2>4. QED
    BY <1>1, <1>4, <2>1, <2>2, <2>3
<1>5. Once(c, A \cup B)
  BY <1>3, <1>4 DEF Once
<1>6. QED
  BY <1>5 DEF c

\* The checked stories are sent once each, those that are shown.
LEMMA SelectionOnce ==
  ASSUME TypeOK, NEW checked
  PROVE  Once(orderedSelection(checked), DOMAIN story)
<1> DEFINE some(sec) == Those(sectionStories(story, pos, sec), checked)
           R(sec) == Draggable(story, sec) \cap checked
<1>1. ASSUME NEW sec
      PROVE  Once(some(sec), R(sec))
  <2> DEFINE rows == Draggable(story, sec)
             part == rows \cap checked
  <2>1. IsScope(pos, rows) /\ IsScope(pos, part)
    <3>1. rows \in SUBSET DOMAIN story /\ part \in SUBSET DOMAIN story
      BY DEF Draggable
    <3> HIDE DEF rows, part
    <3>2. QED
      BY <3>1, TableScope
  <2>2. Lists(pos, sectionStories(story, pos, sec), rows)
    BY <2>1, ShownLists
  <2> HIDE DEF rows
  <2>3. Lists(pos, some(sec), part)
    BY <2>1, <2>2, ThoseLists
  <2> HIDE DEF part
  <2>4. Once(some(sec), part)
    BY <2>1, <2>3, ListsOnce
  <2>5. QED
    BY <2>4 DEF part, rows
<1>2. R("icebox") \cap R("backlog") = {}
      /\ (R("icebox") \cup R("backlog")) \cap R("current") = {}
      /\ R("icebox") \cup R("backlog") \cup R("current") \subseteq DOMAIN story
  BY DEF Draggable
<1>3. orderedSelection(checked) = some("icebox") \o some("backlog") \o some("current")
  BY DEF orderedSelection
<1> HIDE DEF some, R
<1> DEFINE ab == some("icebox") \o some("backlog")
           AB == R("icebox") \cup R("backlog")
<1>4. Once(ab, AB)
  BY <1>1, <1>2, OnceJoin
<1>5. AB \cap R("current") = {} /\ AB \cup R("current") \subseteq DOMAIN story
  BY <1>2
<1>6. orderedSelection(checked) = ab \o some("current")
  BY <1>3
<1> HIDE DEF ab, AB
<1>7. Once(ab \o some("current"), AB \cup R("current"))
  BY <1>1, <1>4, <1>5, OnceJoin
<1>8. QED
  BY <1>5, <1>6, <1>7 DEF Once

-----------------------------------------------------------------------------
(* A drop *)

\* A panel that can be dropped on shows the server's scope, in the server's order.
LEMMA ScopeShown ==
  ASSUME TypeOK, NEW sec \in Panels
  PROVE  /\ Draggable(story, sec) = Scope(story, sec)
         /\ IsScope(pos, Scope(story, sec))
         /\ None \notin Scope(story, sec)
         /\ Lists(pos, sectionStories(story, pos, sec), Scope(story, sec))
<1>1. Draggable(story, sec) = Scope(story, sec)
  <2>1. \A t \in DOMAIN story : story[t].state \in States
    BY DEF TypeOK, IsTable, Row
  <2>2. QED
    BY <2>1, DraggableIsScope
<1>2. IsScope(pos, Scope(story, sec))
  <2>1. Scope(story, sec) \in SUBSET DOMAIN story
    BY DEF Scope
  <2>2. QED
    BY <2>1, TableScope
<1>3. None \notin Scope(story, sec)
  BY StoryAssumption DEF Scope, TypeOK, IsTable
<1>4. QED
  BY <1>1, <1>2, <1>3, ShownLists

\* The stories a request names.
Group(ids) == {ids[i] : i \in DOMAIN ids}

\* The panel with these stories at the index story s was dropped at.
There(ids, G, s, sec, index) ==
  LET others == Without(sectionStories(story, pos, sec), {s})
      above  == SubSeq(others, 1, index)
      below  == SubSeq(others, index + 1, Len(others))
  IN  above \o ids \o Without(below, G)

\* What the answer to a drop shows.
AnswersDrop(b, ids, G, s, sec, index, at) ==
  /\ Anchored(Scope(story, sec) \ G, at)
  /\ b.story = DraggedAll(G, sec)
  /\ Shown(b, sec) = There(ids, G, s, sec, index)

\* A drop of these stories is answered with the rows where they were dropped.
LEMMA DropLands ==
  ASSUME TypeOK, NEW sec \in Panels, NEW ids, Once(ids, DOMAIN story),
         NEW G, G = Group(ids), \A t \in G : Movable(t, sec),
         NEW s \in G,
         NEW index \in 0..Len(Without(sectionStories(story, pos, sec), {s})),
         NoneAbove(Without(sectionStories(story, pos, sec), {s}), index, G),
         NEW at, at = bulkMoveRequest(sectionStories(story, pos, sec), G, index)
  PROVE  AnswersDrop(Answered(ids, sec, at), ids, G, s, sec, index, at)
<1> DEFINE shown  == sectionStories(story, pos, sec)
           rows   == Scope(story, sec)
           others == Without(shown, {s})
           above  == SubSeq(others, 1, index)
           below  == Without(SubSeq(others, index + 1, Len(others)), G)
           N      == Len(ids)
           b      == Answered(ids, sec, at)
<1>1. IsScope(pos, rows) /\ None \notin rows /\ Lists(pos, shown, rows)
  BY ScopeShown
<1>2. PICK A, B :
        /\ rows \ G = A \cup B
        /\ Lists(pos, above, A) /\ Lists(pos, below, B)
        /\ \A x \in A, y \in B : Before(pos, x, y)
        /\ Anchored(rows \ G, at) /\ at.bottom = FALSE
        /\ \A t \in rows \ G : IsAbove(pos, at, t) <=> t \in A
  <2>1. Cuts(pos, rows \ G, above, below, at)
    <3> HIDE DEF rows
    <3>1. index \in 0..Len(others) /\ NoneAbove(others, index, G)
      OBVIOUS
    <3>2. at = bulkMoveRequest(shown, G, index)
      OBVIOUS
    <3> HIDE DEF shown
    <3>3. QED
      BY <1>1, <3>1, <3>2, DropCut
  <2> HIDE DEF rows, above, below
  <2>2. QED
    BY <2>1 DEF Cuts
<1>3. N \in Nat /\ DOMAIN ids = 1..N
  BY LenProperties DEF Once
<1>4. G = Front(ids, N)
  BY <1>3 DEF Front, Group
<1> HIDE DEF shown, others, above, below, rows
<1>5. Takes(ids, sec, at)
  <2>1. \A i \in 1..N : ids[i] \in G
    BY <1>3 DEF Group
  <2>2. QED
    BY <1>2, <1>3, <1>4, <2>1 DEF Takes, Once, rows
<1>6. /\ b.story = DraggedAll(G, sec)
      /\ b.pos \in [DOMAIN story -> Int]
      /\ \A t, u \in rows \ G : Before(b.pos, t, u) <=> Before(pos, t, u)
      /\ \A i, j \in 1..N : i < j => Before(b.pos, ids[i], ids[j])
      /\ \A t \in rows \ G, i \in 1..N : Before(b.pos, t, ids[i]) <=> IsAbove(pos, at, t)
  <2>1. Landed(b, ids, N, sec, at)
    BY <1>5, AnsweredLands
  <2> HIDE DEF b
  <2>2. QED
    BY <1>4, <2>1 DEF Landed, rows
<1> DEFINE tbl == b.story
           col == b.pos
           all == A \cup G \cup B
<1>7. /\ tbl \in [DOMAIN story -> Row] /\ G \subseteq DOMAIN story
      /\ Scope(tbl, sec) = all
  <2>1. /\ DraggedAll(G, sec) \in [DOMAIN story -> Row] /\ G \subseteq DOMAIN story
        /\ Scope(DraggedAll(G, sec), sec) = (rows \ G) \cup G
    BY DraggedAllScope DEF rows
  <2>2. QED
    BY <1>2, <1>6, <2>1
<1>8. Draggable(tbl, sec) = all
  <2>1. \A t \in DOMAIN tbl : tbl[t].state \in States
    BY <1>7 DEF Row
  <2> HIDE DEF tbl, all
  <2>2. QED
    BY <1>7, <2>1, DraggableIsScope
<1>9. IsScope(col, all)
  <2>1. all \subseteq DOMAIN story
    <3>1. rows \subseteq DOMAIN story
      BY DEF rows, Scope
    <3>2. QED
      BY <1>2, <1>7, <3>1
  <2> HIDE DEF all
  <2>2. IsFiniteSet(all) /\ all \subseteq Int
    BY <2>1, StoryAssumption, FS_Subset DEF TypeOK, IsTable
  <2>3. QED
    BY <1>6, <2>1, <2>2 DEF IsScope
<1> HIDE DEF b, tbl
<1>10. Lists(col, ids, G)
  <2>1. ids \in Seq(G)
    <3>1. \A i \in 1..N : ids[i] \in G
      BY <1>3 DEF Group
    <3>2. ids \in Seq(DOMAIN story)
      BY DEF Once
    <3>3. QED
      BY <1>3, <3>1, <3>2
  <2>2. \A t \in G : \E i \in 1..N : ids[i] = t
    BY <1>4 DEF Front
  <2>3. QED
    BY <1>6, <2>1, <2>2 DEF Lists
<1>11. \A x, y \in rows \ G : Before(pos, x, y) => Before(col, x, y)
  BY <1>6
<1>12. Lists(col, above, A) /\ Lists(col, below, B)
  BY <1>2, <1>11, ListsAlike
<1>13. ASSUME NEW x \in A, NEW y \in G
       PROVE  Before(col, x, y)
  <2>1. PICK i \in 1..N : ids[i] = y
    BY <1>4 DEF Front
  <2>2. x \in rows \ G /\ IsAbove(pos, at, x)
    BY <1>2
  <2>3. QED
    BY <1>6, <2>1, <2>2
<1>14. ASSUME NEW x \in G, NEW y \in B
       PROVE  Before(col, x, y)
  <2>1. PICK i \in 1..N : ids[i] = x
    BY <1>4 DEF Front
  <2>2. y \in rows \ G /\ y \notin A
    <3>1. y \in rows /\ y \in rows \ G
      BY <1>2
    <3>2. ~Before(pos, y, y)
      BY <1>1, <3>1, BeforeIrreflexive
    <3>3. QED
      BY <1>2, <3>1, <3>2
  <2>3. ~Before(col, y, x)
    BY <1>2, <1>6, <2>1, <2>2
  <2>4. x \in all /\ y \in all /\ x # y
    BY <2>2
  <2> HIDE DEF all
  <2>5. QED
    BY <1>9, <2>3, <2>4, BeforeTotal
<1>15. \A x \in A, y \in B : Before(col, x, y)
  BY <1>2, <1>11
<1> HIDE DEF col
<1>16. Lists(col, above \o ids \o below, all)
  BY <1>10, <1>12, <1>13, <1>14, <1>15, ListsJoinThree
<1> HIDE DEF all
<1>17. sectionStories(tbl, col, sec) = above \o ids \o below
  <2> DEFINE q == above \o ids \o below
  <2>1. Lists(col, q, all)
    BY <1>16
  <2> HIDE DEF q
  <2>2. sectionStories(tbl, col, sec) = q
    BY <1>8, <1>9, <2>1, ShownIs
  <2>3. QED
    BY <2>2 DEF q
<1>18. Shown(b, sec) = above \o ids \o below
  BY <1>17 DEF Shown, tbl, col
<1>19. There(ids, G, s, sec, index) = above \o ids \o below
  BY DEF There, above, below, others, shown
<1>20. QED
  BY <1>2, <1>6, <1>18, <1>19 DEF AnswersDrop, b, rows

-----------------------------------------------------------------------------
(* The row shown at once *)

\* The row shown at once is the row the server writes.
LEMMA GuessedTable ==
  ASSUME TypeOK, NEW sec \in Panels, NEW s, Movable(s, sec), NEW index
  PROVE  applyMove(s, sec, index).story = DraggedAll({s}, sec)
<1> DEFINE new == IF SectionOf(story[s].state) = sec THEN story[s].state ELSE EntryState(sec)
           row == [story[s] EXCEPT !.state = new]
<1>1. s \in DOMAIN story /\ story[s] \in Row /\ story = [t \in DOMAIN story |-> story[t]]
  BY DEF Movable, TypeOK, IsTable
<1>2. row = Dragged(s, sec)
  <2>1. CASE SectionOf(story[s].state) = sec
    <3>1. new = story[s].state
      BY <2>1
    <3>2. story[s] = [story[s] EXCEPT !.state = story[s].state]
      <4> DEFINE r == story[s]
      <4>1. r \in Row
        BY <1>1
      <4> HIDE DEF r
      <4>2. r = [r EXCEPT !.state = r.state]
        BY <4>1 DEF Row
      <4>3. QED
        BY <4>2 DEF r
    <3>3. QED
      BY <2>1, <3>1, <3>2 DEF Dragged
  <2>2. CASE SectionOf(story[s].state) # sec
    BY <2>2 DEF Dragged
  <2>3. QED
    BY <2>1, <2>2
<1>3. applyMove(s, sec, index).story = [story EXCEPT ![s] = row]
  BY DEF applyMove
<1> HIDE DEF row
<1>4. [story EXCEPT ![s] = row] = [t \in DOMAIN story |-> IF t = s THEN row ELSE story[t]]
  BY <1>1
<1>5. QED
  BY <1>2, <1>3, <1>4 DEF DraggedAll

\* What the browser puts between two neighbours of a list.
Mean(p, prev, next) ==
  CASE prev = None /\ next = None -> 0
    [] prev = None /\ next # None -> p[next] - 2
    [] prev # None /\ next = None -> p[prev] + 2
    [] prev # None /\ next # None -> (p[prev] + p[next]) \div 2

\* It is between what is above and what is below, but for two neighbours at one position.
LEMMA MeanIsBetween ==
  ASSUME NEW col, NEW q, NEW rows, IsScope(col, rows), Lists(col, q, rows), None \notin rows,
         NEW p, DOMAIN p = DOMAIN col, \A t \in rows : p[t] = 2 * col[t],
         NEW k \in 0..Len(q),
         ~(0 < k /\ k < Len(q) /\ col[q[k]] = col[q[k + 1]])
  PROVE  LET mean == Mean(p, Neighbour(q, k), Neighbour(q, k + 1))
         IN  /\ mean \in Int
             /\ \A x \in Part(q, 1, k) : p[x] < mean
             /\ \A y \in Part(q, k + 1, Len(q)) : mean < p[y]
<1> DEFINE n    == Len(q)
           prev == Neighbour(q, k)
           next == Neighbour(q, k + 1)
           mean == Mean(p, prev, next)
<1>1. /\ n \in Nat /\ DOMAIN q = 1..n
      /\ \A i \in 1..n : q[i] \in rows /\ q[i] # None /\ col[q[i]] \in Int
                         /\ p[q[i]] = 2 * col[q[i]] /\ p[q[i]] \in Int
  <2>1. n \in Nat /\ DOMAIN q = 1..n /\ \A i \in 1..n : q[i] \in rows
    BY ListsEach
  <2>2. \A t \in rows : t # None /\ col[t] \in Int /\ p[t] = 2 * col[t] /\ p[t] \in Int
    BY DEF IsScope
  <2>3. QED
    BY <2>1, <2>2
<1>2. \A i, j \in 1..n : i <= j => col[q[i]] <= col[q[j]]
  <2> SUFFICES ASSUME NEW i \in 1..n, NEW j \in 1..n, i <= j
               PROVE  col[q[i]] <= col[q[j]]
    OBVIOUS
  <2>1. i = j \/ Before(col, q[i], q[j])
    BY <1>1 DEF Lists
  <2>2. QED
    BY <1>1, <2>1 DEF Before
<1> HIDE DEF n
<1>3. /\ k \in Nat /\ k <= n
      /\ k # 0 => k \in 1..n
      /\ k # n => k + 1 \in 1..n
      /\ k = n => k + 1 \notin 1..n
  <2>1. k \in 0..n
    BY DEF n
  <2>2. QED
    BY <1>1, <2>1
<1>4. prev = IF k = 0 THEN None ELSE q[k]
  BY <1>1, <1>3 DEF Neighbour
<1>5. next = IF k = n THEN None ELSE q[k + 1]
  BY <1>1, <1>3 DEF Neighbour
<1> HIDE DEF prev, next
<1>6. ASSUME NEW x \in Part(q, 1, k)
      PROVE  k # 0 /\ p[x] \in Int /\ p[x] <= p[q[k]]
  <2>1. PICK i \in 1..k : q[i] = x
    BY DEF Part
  <2>0. n \in Nat
    BY <1>1
  <2>2. k # 0 /\ i \in 1..n /\ k \in 1..n /\ i <= k
    BY <1>3, <2>0
  <2>3. col[q[i]] <= col[q[k]]
    BY <1>2, <2>2
  <2>4. QED
    BY <1>1, <2>1, <2>2, <2>3
<1>7. ASSUME NEW y \in Part(q, k + 1, n)
      PROVE  k # n /\ p[y] \in Int /\ p[q[k + 1]] <= p[y]
  <2>1. PICK i \in (k + 1)..n : q[i] = y
    BY DEF Part
  <2>2. k # n /\ i \in 1..n /\ k + 1 \in 1..n /\ k + 1 <= i
    BY <1>1, <1>3
  <2>3. col[q[k + 1]] <= col[q[i]]
    BY <1>2, <2>2
  <2>4. QED
    BY <1>1, <2>1, <2>2, <2>3
<1>8. /\ mean \in Int
      /\ k # 0 => p[q[k]] < mean
      /\ k # n => mean < p[q[k + 1]]
  <2>1. CASE k = 0 /\ k = n
    <3>1. mean = 0
      BY <1>4, <1>5, <2>1 DEF Mean
    <3>2. QED
      BY <2>1, <3>1
  <2>2. CASE k = 0 /\ k # n
    <3> DEFINE b == p[q[k + 1]]
    <3>1. next = q[k + 1] /\ next # None /\ prev = None /\ b \in Int
      BY <1>1, <1>3, <1>4, <1>5, <2>2
    <3>2. mean = b - 2
      BY <3>1 DEF Mean
    <3> HIDE DEF b
    <3>3. mean \in Int /\ mean < b
      BY <3>1, <3>2
    <3>4. QED
      BY <2>2, <3>3 DEF b
  <2>3. CASE k # 0 /\ k = n
    <3> DEFINE a == p[q[k]]
    <3>1. prev = q[k] /\ prev # None /\ next = None /\ a \in Int
      BY <1>1, <1>3, <1>4, <1>5, <2>3
    <3>2. mean = a + 2
      BY <3>1 DEF Mean
    <3> HIDE DEF a
    <3>3. mean \in Int /\ a < mean
      BY <3>1, <3>2
    <3>4. QED
      BY <2>3, <3>3 DEF a
  <2>4. CASE k # 0 /\ k # n
    <3> DEFINE a == col[q[k]]
               b == col[q[k + 1]]
    <3>1. /\ prev = q[k] /\ prev # None /\ next = q[k + 1] /\ next # None
          /\ a \in Int /\ b \in Int /\ p[q[k]] = 2 * a /\ p[q[k + 1]] = 2 * b
      BY <1>1, <1>3, <1>4, <1>5, <2>4
    <3>2. mean = (p[q[k]] + p[q[k + 1]]) \div 2
      BY <3>1 DEF Mean
    <3>3. a <= b
      <4>1. k \in 1..n /\ k + 1 \in 1..n /\ k <= k + 1
        BY <1>3, <2>4
      <4>2. QED
        BY <1>2, <4>1
    <3>4. a # b
      <4>1. 0 < k /\ k < n
        BY <1>1, <1>3, <2>4
      <4>2. QED
        BY <4>1 DEF n
    <3> HIDE DEF a, b, mean
    <3>5. mean = (2 * a + 2 * b) \div 2
      BY <3>1, <3>2
    <3>6. mean = a + b
      BY <3>1, <3>5
    <3>7. mean \in Int /\ 2 * a < mean /\ mean < 2 * b
      BY <3>1, <3>3, <3>4, <3>6
    <3>8. QED
      BY <3>1, <3>7
  <2>5. QED
    BY <2>1, <2>2, <2>3, <2>4
<1> HIDE DEF mean
<1>9. ASSUME NEW x \in Part(q, 1, k) PROVE p[x] < mean
  <2>1. k # 0 /\ p[x] \in Int /\ p[x] <= p[q[k]] /\ p[q[k]] \in Int
    BY <1>1, <1>3, <1>6
  <2>2. QED
    BY <1>8, <2>1
<1>10. ASSUME NEW y \in Part(q, k + 1, n) PROVE mean < p[y]
  <2>1. k # n /\ p[y] \in Int /\ p[q[k + 1]] <= p[y] /\ p[q[k + 1]] \in Int
    BY <1>1, <1>3, <1>7
  <2>2. QED
    BY <1>8, <2>1
<1>11. QED
  BY <1>8, <1>9, <1>10 DEF mean, prev, next, n

\* The row was dropped between two with the same position.
Ties(s, sec, index) ==
  LET others == Without(sectionStories(story, pos, sec), {s})
  IN  0 < index /\ index < Len(others) /\ pos[others[index]] = pos[others[index + 1]]

\* The row shown at once is where it was dropped, unless its neighbours tie.
LEMMA GuessLands ==
  ASSUME TypeOK, NEW sec \in Panels, NEW s, Movable(s, sec),
         NEW index \in 0..Len(Without(sectionStories(story, pos, sec), {s})),
         ~Ties(s, sec, index)
  PROVE  Shown(applyMove(s, sec, index), sec) = There(<<s>>, {s}, s, sec, index)
<1> DEFINE shown  == sectionStories(story, pos, sec)
           rows   == Scope(story, sec)
           p      == Doubled(pos)
           others == Without(shown, {s})
           n      == Len(others)
           above  == SubSeq(others, 1, index)
           under  == SubSeq(others, index + 1, n)
           below  == Without(under, {s})
           A      == Part(others, 1, index)
           U      == Part(others, index + 1, n)
           rest   == rows \ {s}
           guess  == applyMove(s, sec, index)
           mean   == Mean(p, Neighbour(others, index), Neighbour(others, index + 1))
           all    == A \cup {s} \cup U
           tbl    == guess.story
           col    == guess.pos
<1>1. /\ Draggable(story, sec) = rows /\ IsScope(pos, rows) /\ None \notin rows
      /\ Lists(pos, shown, rows)
  BY ScopeShown
<1>2. s \in DOMAIN story /\ s \in Int /\ DOMAIN pos = DOMAIN story
  BY DraggedRow DEF TypeOK
<1>3. rows \subseteq DOMAIN story
  BY DEF Scope
<1>4. sectionStories(story, p, sec) = shown
  <2>1. \A a, b \in rows : Before(p, a, b) <=> Before(pos, a, b)
    <3> HIDE DEF rows
    <3>1. QED
      BY <1>1, DoubledOrder
  <2>2. QED
    BY <1>1, <2>1, ShownAlike
<1>5. Lists(pos, others, rest)
  <2> HIDE DEF rows, shown
  <2>1. QED
    BY <1>1, WithoutLists
<1> HIDE DEF shown, rows, others
<1>6. IsScope(pos, rest) /\ None \notin rest
  BY <1>1, SubScope
<1>7. n \in Nat /\ index \in Nat /\ index <= n
  <2>1. n \in Nat
    BY <1>5, ListsEach
  <2>2. index \in 0..n
    BY DEF others, shown
  <2>3. QED
    BY <2>1, <2>2
<1>8. /\ Lists(pos, above, A) /\ Lists(pos, under, U)
      /\ rest = A \cup U
      /\ \A x \in A, y \in U : Before(pos, x, y)
  <2> HIDE DEF rest
  <2>1. QED
    BY <1>5, <1>7, ListsCut
<1>9. guess.pos = [p EXCEPT ![s] = mean]
  <2>1. (IF index < n THEN index ELSE n) = index
    BY <1>7
  <2>2. guess.pos = [p EXCEPT ![s] =
                       Mean(p, Neighbour(others, IF index < n THEN index ELSE n),
                               Neighbour(others, (IF index < n THEN index ELSE n) + 1))]
    BY <1>4 DEF applyMove, Mean, others
  <2>3. QED
    BY <2>1, <2>2
<1>10. DOMAIN p = DOMAIN pos /\ \A t \in rest : p[t] = 2 * pos[t]
  <2>1. \A t \in rest : p[t] = 2 * pos[t]
    BY <1>6, DoubledOrder
  <2>2. QED
    BY <2>1 DEF Doubled
<1>11. ~(0 < index /\ index < n /\ pos[others[index]] = pos[others[index + 1]])
  BY DEF Ties, others, shown
<1> HIDE DEF p, rest
<1>12. /\ mean \in Int
       /\ \A x \in A : p[x] < mean
       /\ \A y \in U : mean < p[y]
  <2>1. index \in 0..Len(others)
    BY <1>7
  <2>2. QED
    BY <1>5, <1>6, <1>10, <1>11, <2>1, MeanIsBetween
<1> HIDE DEF A, U, above, under, n, mean
<1>13. /\ DOMAIN col = DOMAIN story
       /\ col[s] = mean
       /\ \A t \in rest : col[t] = 2 * pos[t] /\ col[t] = p[t]
  <2>1. s \in DOMAIN p /\ DOMAIN p = DOMAIN story
    BY <1>2, <1>10
  <2>2. \A t \in rest : t # s /\ t \in DOMAIN p
    BY <1>3, <2>1 DEF rest
  <2> HIDE DEF guess
  <2>3. QED
    BY <1>9, <1>10, <2>1, <2>2
<1>14. tbl = DraggedAll({s}, sec)
  BY GuessedTable
<1> HIDE DEF guess, tbl, col
<1>15. tbl \in [DOMAIN story -> Row] /\ Scope(tbl, sec) = all
  <2> DEFINE M == {s}
  <2>1. \A t \in M : Movable(t, sec)
    OBVIOUS
  <2>2. all = (rows \ M) \cup M
    BY <1>8 DEF rest
  <2>3. tbl = DraggedAll(M, sec)
    BY <1>14
  <2> HIDE DEF M
  <2>4. DraggedAll(M, sec) \in [DOMAIN story -> Row]
        /\ Scope(DraggedAll(M, sec), sec) = (rows \ M) \cup M
    BY <2>1, DraggedAllScope DEF rows
  <2>5. QED
    BY <2>2, <2>3, <2>4
<1>16. Draggable(tbl, sec) = all
  <2>1. \A t \in DOMAIN tbl : tbl[t].state \in States
    BY <1>15 DEF Row
  <2> HIDE DEF all
  <2>2. QED
    BY <1>15, <2>1, DraggableIsScope
<1>17. IsScope(col, all)
  <2>1. all = rest \cup {s}
    BY <1>8
  <2>2. IsFiniteSet(all) /\ all \subseteq Int /\ all \subseteq DOMAIN story
    <3>1. IsFiniteSet(rest) /\ rest \subseteq Int
      BY <1>6 DEF IsScope
    <3>2. IsFiniteSet(rest \cup {s})
      BY <3>1, FS_AddElement
    <3>3. QED
      BY <1>2, <1>3, <2>1, <3>1, <3>2 DEF rest
  <2>3. \A t \in rest : pos[t] \in Int
    BY <1>6 DEF IsScope
  <2>4. QED
    BY <1>12, <1>13, <2>1, <2>2, <2>3 DEF IsScope
<1>18. \A x, y \in rest : Before(pos, x, y) => Before(col, x, y)
  <2>1. \A x \in rest : pos[x] \in Int /\ col[x] = 2 * pos[x]
    BY <1>6, <1>13 DEF IsScope
  <2>2. QED
    BY <2>1 DEF Before
<1>19. Lists(col, above, A) /\ Lists(col, below, U)
  <2>1. IsScope(pos, U) /\ U \ {s} = U
    <3>1. s \notin rest
      BY DEF rest
    <3>2. QED
      BY <1>6, <1>8, <3>1, SubScope
  <2>2. Lists(pos, Without(under, {s}), U \ {s})
    BY <1>8, <2>1, WithoutLists
  <2>3. Lists(pos, below, U)
    BY <2>1, <2>2
  <2> HIDE DEF below
  <2>4. QED
    BY <1>8, <1>18, <2>3, ListsAlike
<1>20. \A x \in A : Before(col, x, s)
  BY <1>8, <1>12, <1>13 DEF Before
<1>21. \A y \in U : Before(col, s, y)
  BY <1>8, <1>12, <1>13 DEF Before
<1>22. \A x \in A, y \in U : Before(col, x, y)
  BY <1>8, <1>18
<1>23. Lists(col, <<s>>, {s})
  <2>1. <<s>> \in Seq({s}) /\ Len(<<s>>) = 1 /\ <<s>>[1] = s
    OBVIOUS
  <2>2. QED
    BY <2>1 DEF Lists
<1> DEFINE one == <<s>>
           S   == {s}
<1>24. Lists(col, above \o one \o below, all)
  <2>1. Lists(col, one, S)
    BY <1>23
  <2>2. \A x \in A, y \in S : Before(col, x, y)
    BY <1>20
  <2>3. \A x \in S, y \in U : Before(col, x, y)
    BY <1>21
  <2> HIDE DEF one, S, below
  <2>4. Lists(col, above \o one \o below, A \cup S \cup U)
    BY <1>19, <1>22, <2>1, <2>2, <2>3, ListsJoinThree
  <2>5. QED
    BY <2>4 DEF S
<1> HIDE DEF all
<1>25. sectionStories(tbl, col, sec) = above \o one \o below
  <2> DEFINE q == above \o one \o below
  <2>1. Lists(col, q, all)
    BY <1>24
  <2> HIDE DEF q
  <2>2. sectionStories(tbl, col, sec) = q
    BY <1>16, <1>17, <2>1, ShownIs
  <2>3. QED
    BY <2>2 DEF q
<1>26. Shown(guess, sec) = above \o one \o below
  BY <1>25 DEF Shown, tbl, col
<1>27. QED
  BY <1>26 DEF There, guess, above, under, n, others, shown

\* Each story once, and the neighbours without them.
Sends(drop, sec, index) ==
  /\ Once(drop.ids, DOMAIN story)
  /\ drop.at = bulkMoveRequest(sectionStories(story, pos, sec), Group(drop.ids), index)

\* What a drop sends, one story or many: each once, and the neighbours without them.
LEMMA DropSends ==
  ASSUME TypeOK, NEW s \in DOMAIN story, NEW checked, NEW sec \in Panels, NEW index
  PROVE  Sends(onDrop(s, checked, sec, index), sec, index)
<1> DEFINE drop  == onDrop(s, checked, sec, index)
           shown == sectionStories(story, pos, sec)
           many  == orderedSelection(checked)
<1>1. CASE s \in checked /\ Cardinality(checked) > 1
  <2>1. drop = [ids |-> many,
                at  |-> bulkMoveRequest(shown, Group(many), index)]
    BY <1>1 DEF onDrop, Group
  <2>2. Once(many, DOMAIN story)
    BY SelectionOnce
  <2> HIDE DEF many, shown
  <2>3. drop.ids = many
        /\ drop.at = bulkMoveRequest(shown, Group(many), index)
    BY <2>1
  <2>4. QED
    BY <2>2, <2>3 DEF Sends, shown
<1>2. CASE ~(s \in checked /\ Cardinality(checked) > 1)
  <2> DEFINE one == <<s>>
  <2>1. drop = [ids |-> one, at |-> bulkMoveRequest(shown, {s}, index)]
    BY <1>2 DEF onDrop, moveRequest
  <2>2. drop.ids = one /\ drop.at = bulkMoveRequest(shown, {s}, index)
    BY <2>1
  <2>3. Group(one) = {s}
    BY DEF Group
  <2>4. Once(one, DOMAIN story)
    <3>1. one \in Seq(DOMAIN story) /\ Len(one) = 1
      OBVIOUS
    <3>2. QED
      BY <3>1 DEF Once
  <2> HIDE DEF one, shown, drop
  <2>5. QED
    BY <2>2, <2>3, <2>4 DEF Sends, shown, drop
<1>3. QED
  BY <1>1, <1>2

\* The service takes the drop, its answer shows the panel as it should be, and the
\* browser shows the same at once if it is one story, but for a tie.
Foretold(s, sec, index, ids, at, group) ==
  /\ \A t \in group : Movable(t, sec)
  /\ Anchored(Scope(story, sec) \ group, at)
  /\ Shown(Answered(ids, sec, at), sec) = There(ids, group, s, sec, index)
  /\ group = {s} =>
       /\ applyMove(s, sec, index).story = Answered(ids, sec, at).story
       /\ \/ Shown(applyMove(s, sec, index), sec) = There(ids, group, s, sec, index)
          \/ Ties(s, sec, index)

\* A drop, and what is shown of it.
LEMMA DropForetold ==
  ASSUME TypeOK, NEW s \in DOMAIN story, NEW sec \in Panels, NEW checked,
         NEW index \in 0..Len(Without(sectionStories(story, pos, sec), {s})),
         NEW ids, ids = onDrop(s, checked, sec, index).ids,
         NEW at, at = onDrop(s, checked, sec, index).at,
         NEW group, group = Group(ids),
         \A t \in group : ~story[t].trashed /\ canDrop(story[t], sec),
         s \in group,
         NoneAbove(Without(sectionStories(story, pos, sec), {s}), index, group)
  PROVE  Foretold(s, sec, index, ids, at, group)
<1> DEFINE shown == sectionStories(story, pos, sec)
           guess == applyMove(s, sec, index)
           there == There(ids, group, s, sec, index)
           tie   == Ties(s, sec, index)
<1>1. Once(ids, DOMAIN story) /\ at = bulkMoveRequest(shown, group, index)
  <2>1. Sends(onDrop(s, checked, sec, index), sec, index)
    BY DropSends
  <2>2. QED
    BY <2>1 DEF Sends
<1> HIDE DEF shown
<1>2. group \subseteq DOMAIN story
  <2>1. \A i \in 1..Len(ids) : ids[i] \in DOMAIN story
    BY <1>1, ElementOfSeq DEF Once
  <2>2. DOMAIN ids = 1..Len(ids)
    BY <1>1, LenProperties DEF Once
  <2>3. QED
    BY <2>1, <2>2 DEF Group
<1>3. \A t \in group : Movable(t, sec)
  BY <1>2 DEF canDrop, Movable
<1>4. /\ Anchored(Scope(story, sec) \ group, at)
      /\ Answered(ids, sec, at).story = DraggedAll(group, sec)
      /\ Shown(Answered(ids, sec, at), sec) = there
  <2>1. AnswersDrop(Answered(ids, sec, at), ids, group, s, sec, index, at)
    BY <1>1, <1>3, DropLands DEF shown
  <2>2. QED
    BY <2>1 DEF AnswersDrop
<1>5. ASSUME group = {s}
      PROVE  /\ guess.story = Answered(ids, sec, at).story
             /\ Shown(guess, sec) = there \/ tie
  <2>1. Movable(s, sec)
    BY <1>3
  <2>2. guess.story = DraggedAll({s}, sec)
    BY <2>1, GuessedTable
  <2>3. ids = <<s>>
    <3>1. Len(ids) \in Nat /\ DOMAIN ids = 1..Len(ids) /\ ids \in Seq(DOMAIN story)
      BY <1>1, LenProperties DEF Once
    <3>2. \A i \in 1..Len(ids) : ids[i] = s
      BY <1>5, <3>1 DEF Group
    <3>3. Len(ids) # 0
      <4>1. PICK i \in 1..Len(ids) : ids[i] = s
        BY <3>1 DEF Group
      <4>2. QED
        BY <3>1, <4>1
    <3>4. ~(Len(ids) > 1)
      <4> SUFFICES ASSUME Len(ids) > 1 PROVE FALSE
        OBVIOUS
      <4>1. 1 \in 1..Len(ids) /\ 2 \in 1..Len(ids) /\ 1 < 2
        BY <3>1
      <4>2. ids[1] # ids[2]
        BY <1>1, <4>1 DEF Once
      <4>3. QED
        BY <3>2, <4>1, <4>2
    <3>5. Len(ids) = 1
      <4> DEFINE n == Len(ids)
      <4>1. n \in Nat /\ n # 0 /\ ~(n > 1)
        BY <3>1, <3>3, <3>4
      <4> HIDE DEF n
      <4>2. n = 1
        BY <4>1
      <4>3. QED
        BY <4>2 DEF n
    <3>6. <<s>> \in Seq(DOMAIN story) /\ Len(<<s>>) = 1 /\ <<s>>[1] = s
      OBVIOUS
    <3>7. \A i \in 1..Len(ids) : ids[i] = <<s>>[i]
      BY <3>2, <3>5, <3>6
    <3>8. QED
      BY <3>1, <3>5, <3>6, <3>7, SeqEqual
  <2>4. CASE ~tie
    <3>1. Shown(guess, sec) = There(<<s>>, {s}, s, sec, index)
      BY <2>1, <2>4, GuessLands
    <3>2. QED
      BY <1>4, <1>5, <2>2, <2>3, <3>1
  <2>5. CASE tie
    BY <1>4, <1>5, <2>2, <2>5
  <2>6. QED
    BY <2>4, <2>5
<1>6. QED
  BY <1>3, <1>4, <1>5 DEF Foretold

\* What the browser lets the user drop, the server takes, and the rows end up where they
\* were dropped, a group of them in the order of the board: for any set of checked
\* stories, positions with ties and a panel that has to be spread out on the way.
THEOREM DropsLandCorrect == Spec => []DropsLandWhereDropped
<1>1. ASSUME TypeOK PROVE DropsLandWhereDropped
  <2> SUFFICES ASSUME tx = None, NEW s \in DOMAIN story, NEW sec \in Panels,
                      NEW checked \in {c \in SUBSET DOMAIN story : s \in c},
                      NEW index \in 0..Len(Without(sectionStories(story, pos, sec), {s}))
               PROVE  LET others == Without(sectionStories(story, pos, sec), {s})
                          drop  == onDrop(s, checked, sec, index)
                          group == {drop.ids[i] : i \in DOMAIN drop.ids}
                          above == SubSeq(others, 1, index)
                          below == SubSeq(others, index + 1, Len(others))
                          there == above \o drop.ids \o Without(below, group)
                          guess == applyMove(s, sec, index)
                      IN  (/\ \A t \in group : ~story[t].trashed /\ canDrop(story[t], sec)
                           /\ s \in group
                           /\ \A i \in DOMAIN above : above[i] \notin group)
                          => /\ \A t \in group : Movable(t, sec)
                             /\ Anchored(Scope(story, sec) \ group, drop.at)
                             /\ Shown(Answered(drop.ids, sec, drop.at), sec) = there
                             /\ group = {s} =>
                                  /\ guess.story = Answered(drop.ids, sec, drop.at).story
                                  /\ \/ Shown(guess, sec) = there
                                     \/ /\ 0 < index /\ index < Len(others)
                                        /\ pos[others[index]] = pos[others[index + 1]]
    BY Zenon DEF DropsLandWhereDropped
  <2> DEFINE ids    == onDrop(s, checked, sec, index).ids
             at     == onDrop(s, checked, sec, index).at
             group  == Group(ids)
             others == Without(sectionStories(story, pos, sec), {s})
  <2>1. ASSUME \A t \in group : ~story[t].trashed /\ canDrop(story[t], sec),
               s \in group, NoneAbove(others, index, group)
        PROVE  Foretold(s, sec, index, ids, at, group)
    BY <1>1, <2>1, DropForetold
  <2>2. QED
    BY <2>1, Zenon DEF NoneAbove, Foretold, There, Ties, Group
<1>2. QED
  BY <1>1, TypeCorrect, PTL

\* The live board in its story panels promises what comes: a row is dropped where the
\* server will put it, and a button shows what its transition leads to.
THEOREM BoardForetellsCorrect == Spec => []BoardForetells
<1>1. DropsLandWhereDropped /\ ButtonsShowWhatComes => BoardForetells
  BY DEF BoardForetells
<1>2. QED
  BY <1>1, DropsLandCorrect, ButtonsShowWhatComesCorrect, PTL
=============================================================================
