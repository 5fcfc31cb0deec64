------------------------------- MODULE Tools -------------------------------
(***************************************************************************)
(* The bulk tools of the MCP server (src/internal/mcpserver/tools.go): one *)
(* call creates, updates or moves several stories, one transaction per     *)
(* story, and keeps in its local variables where the next one goes.        *)
(* Between two of its transactions everybody else goes on: they create,    *)
(* move, trash and restore stories, also those the call has just placed.   *)
(*                                                                         *)
(* The order of a section is a sequence here (module Stories implements it *)
(* with positions).  What a story says is left out, so any story may be    *)
(* refused for it.  That a right checked may be gone when it is used is    *)
(* module Access's: here a story's check and its transaction are one step. *)
(***************************************************************************)
EXTENDS Naturals, Sequences, FiniteSets, SequencesExt

CONSTANTS
  Story,    \* ids of stories
  Project,
  Call,     \* bulk calls being served
  None,
  MaxItems  \* bound of the model on the stories of a call; 50 in the code

VARIABLES
  list,      \* the live stories of each section of each project, in order
  trash,     \* the stories in the trash, with where they go when restored
  archived,  \* the projects that are archived
  call       \* what each call has done and has still to do

vars == <<list, trash, archived, call>>

Section == {"icebox", "backlog"}
Place == Project \X Section
Tool == {"create", "update", "move"}
Result == {"ok", "refused", "noplace"}

Live == UNION {ToSet(list[p]) : p \in Place}
Trashed == {pair[1] : pair \in trash}
PlaceOf(s) == CHOOSE p \in Place : s \in ToSet(list[p]) \/ <<s, p>> \in trash
ProjectOf(s) == PlaceOf(s)[1]

NoCall == [tool |-> "none", items |-> <<>>, section |-> "icebox", project |-> None,
           prev |-> None, next |-> None, created |-> <<>>, results |-> <<>>, changed |-> {}]

\* An item of a creation is the set of earlier items it waits on; one of the
\* other tools is a story.
CallRow ==
  [tool : Tool \cup {"none"}, items : Seq(Story) \cup Seq(SUBSET (1..MaxItems)),
   section : Section, project : Project \cup {None}, prev : Story \cup {None},
   next : Story \cup {None}, created : Seq(Story \cup {None}), results : Seq(Result),
   changed : SUBSET Story]

TypeOK ==
  /\ list \in [Place -> Seq(Story)]
  /\ trash \in SUBSET (Story \X Place)
  /\ archived \subseteq Project
  /\ call \in [Call -> CallRow]

-----------------------------------------------------------------------------
(* Placing a story in a section *)

\* The sections without story s.
Without(s) == [p \in Place |-> SelectSeq(list[p], LAMBDA x : x # s)]

\* The story something is placed after, or before, is in the section.
HasPlace(rows, prev, nxt) ==
  IF prev # None THEN prev \in ToSet(rows) ELSE nxt # None => nxt \in ToSet(rows)

\* Where it goes in rows: after prev, or before nxt, or at the bottom or top.
place(rows, prev, nxt, bottom) ==
  IF prev # None THEN CHOOSE i \in 2..(Len(rows) + 1) : rows[i - 1] = prev
  ELSE IF nxt # None THEN CHOOSE i \in 1..Len(rows) : rows[i] = nxt
  ELSE IF bottom THEN Len(rows) + 1 ELSE 1

\* Story s is in section p, and in no other.
Put(s, p, prev, nxt, bottom) ==
  LET rows == Without(s)
  IN  list' = [rows EXCEPT ![p] = InsertAt(@, place(@, prev, nxt, bottom), s)]

Unused == Story \ (Live \cup Trashed)

-----------------------------------------------------------------------------
(* What the others do, with the tools for one story or on the board *)

createStory(s, p) ==
  /\ s \in Unused
  /\ p[1] \notin archived
  /\ Put(s, p, None, None, p[2] # "icebox")
  /\ UNCHANGED <<trash, archived, call>>

moveStory(s, sec, prev, nxt) ==
  /\ s \in Live
  /\ ProjectOf(s) \notin archived
  /\ s \notin {prev, nxt}
  /\ LET p == <<ProjectOf(s), sec>>
     IN  /\ HasPlace(list[p], prev, nxt)
         /\ Put(s, p, prev, nxt, FALSE)
  /\ UNCHANGED <<trash, archived, call>>

Delete(s) ==
  /\ s \in Live
  /\ ProjectOf(s) \notin archived
  /\ trash' = trash \cup {<<s, PlaceOf(s)>>}
  /\ list' = Without(s)
  /\ UNCHANGED <<archived, call>>

Restore(pair) ==
  /\ pair \in trash
  /\ ProjectOf(pair[1]) \notin archived
  /\ trash' = trash \ {pair}
  /\ Put(pair[1], pair[2], None, None, TRUE)
  /\ UNCHANGED <<archived, call>>

Archive(p) ==
  /\ archived' = IF p \in archived THEN archived \ {p} ELSE archived \cup {p}
  /\ UNCHANGED <<list, trash, call>>

-----------------------------------------------------------------------------
(* A bulk call begins *)

Begin(c, row) ==
  /\ call[c].tool = "none"
  /\ Len(row.items) \in 1..MaxItems
  /\ call' = [call EXCEPT ![c] = row]
  /\ UNCHANGED <<list, trash, archived>>

\* The project is looked at once, here.
createStories(c, p, sec, items) ==
  /\ p \notin archived
  /\ Begin(c, [NoCall EXCEPT !.tool = "create", !.items = items, !.section = sec, !.project = p])

updateStories(c, items) ==
  Begin(c, [NoCall EXCEPT !.tool = "update", !.items = items])

moveStories(c, items, sec, prev, nxt) ==
  /\ {prev, nxt} \cap ToSet(items) = {}
  /\ Begin(c, [NoCall EXCEPT !.tool = "move", !.items = items, !.section = sec,
                             !.prev = prev, !.next = nxt])

-----------------------------------------------------------------------------
(* Its next item *)

Index(c) == Len(call[c].results) + 1
Item(c) == call[c].items[Index(c)]
Busy(c, t) == call[c].tool = t /\ Index(c) <= Len(call[c].items)

Failed(row, why) == [row EXCEPT !.results = Append(@, why)]
Done(row, s) == [row EXCEPT !.results = Append(@, "ok"), !.changed = @ \cup {s}]

Note(c, row) == call' = [call EXCEPT ![c] = row]

\* The item waits on later ones, or on one that was not created.
itemBlockers(c) ==
  \A j \in Item(c) : j < Index(c) /\ call[c].created[j] # None

\* After the one created before.
CreateItem(c) ==
  LET row == call[c]
      p == <<row.project, row.section>>
      failed(why) == [Failed(row, why) EXCEPT !.created = Append(@, None)]
  IN  /\ Busy(c, "create")
      /\ \/ /\ Note(c, failed("refused"))
            /\ UNCHANGED list
         \/ /\ itemBlockers(c) /\ ~HasPlace(list[p], row.prev, None)
            /\ Note(c, failed("noplace"))
            /\ UNCHANGED list
         \/ /\ itemBlockers(c) /\ HasPlace(list[p], row.prev, None)
            /\ \E s \in Unused :
                 /\ Put(s, p, row.prev, None, row.section # "icebox")
                 /\ Note(c, [Done(row, s) EXCEPT !.created = Append(@, s), !.prev = s])
      /\ UNCHANGED <<trash, archived>>

\* The story exists, in the trash or not, and its project may be written to.
storyProject(s) == s \in Live \cup Trashed /\ ProjectOf(s) \notin archived

UpdateItem(c) ==
  /\ Busy(c, "update")
  /\ \/ Note(c, Failed(call[c], "refused"))
     \/ /\ storyProject(Item(c)) /\ Item(c) \in Live
        /\ Note(c, Done(call[c], Item(c)))
  /\ UNCHANGED <<list, trash, archived>>

\* The first story goes where the caller said, the next one after it.  All must
\* be of the project of the first that was found, be it in the trash.
MoveItem(c) ==
  LET row == call[c]
      s == Item(c)
      twice == \E j \in 1..(Index(c) - 1) : row.items[j] = s
      found == [row EXCEPT !.project = IF @ = None THEN ProjectOf(s) ELSE @]
      p == <<found.project, row.section>>
  IN  /\ Busy(c, "move")
      /\ \/ /\ twice \/ ~storyProject(s)
            /\ Note(c, Failed(row, "refused"))
            /\ UNCHANGED list
         \/ /\ ~twice /\ storyProject(s)
            /\ \/ /\ Note(c, Failed(found, "refused"))
                  /\ UNCHANGED list
               \/ /\ s \in Live /\ ProjectOf(s) = found.project
                  /\ IF HasPlace(list[p], row.prev, row.next)
                     THEN /\ Put(s, p, row.prev, row.next, FALSE)
                          /\ Note(c, [Done(found, s) EXCEPT !.prev = s, !.next = None])
                     ELSE /\ Note(c, Failed(found, "noplace"))
                          /\ UNCHANGED list
      /\ UNCHANGED <<trash, archived>>

\* One event names all that was changed; the answer reports each item.
Answer(c) ==
  /\ call[c].tool # "none"
  /\ Index(c) > Len(call[c].items)
  /\ call' = [call EXCEPT ![c] = NoCall]
  /\ UNCHANGED <<list, trash, archived>>

-----------------------------------------------------------------------------

Init ==
  /\ list = [p \in Place |-> <<>>]
  /\ trash = {} /\ archived = {}
  /\ call = [c \in Call |-> NoCall]

SeqsOf(S) == UNION {[1..n -> S] : n \in 1..MaxItems}

Next ==
  \/ \E s \in Story : Delete(s) \/ \E p \in Place : createStory(s, p)
  \/ \E s \in Story, sec \in Section, prev, nxt \in Story \cup {None} : moveStory(s, sec, prev, nxt)
  \/ \E pair \in trash : Restore(pair)
  \/ \E p \in Project : Archive(p)
  \/ \E c \in Call :
       \/ \E p \in Project, sec \in Section, items \in SeqsOf(SUBSET (1..MaxItems)) :
            createStories(c, p, sec, items)
       \/ \E items \in SeqsOf(Story) :
            \/ updateStories(c, items)
            \/ \E sec \in Section, prev, nxt \in Story \cup {None} :
                 moveStories(c, items, sec, prev, nxt)
       \/ CreateItem(c) \/ UpdateItem(c) \/ MoveItem(c) \/ Answer(c)

Spec == Init /\ [][Next]_vars

-----------------------------------------------------------------------------
\* "Each item succeeds or fails on its own" (tools.go:68, of create_stories;
\* likewise tools.go:72 of move_stories): once a call has placed a story, none of
\* its other stories is refused for want of a place.  Does not hold.
ItemsAreIndependent ==
  \A c \in Call : \A i, j \in 1..Len(call[c].results) :
    i < j /\ call[c].results[i] = "ok" => call[c].results[j] # "noplace"
=============================================================================
