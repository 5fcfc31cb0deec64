------------------------------ MODULE Details ------------------------------
(***************************************************************************)
(* What hangs on the stories and projects of the board: labels and epics   *)
(* (src/internal/story/epic.go, setLabels of story.go), the checklist      *)
(* (tasks.go), comments (story.go), saved filters                          *)
(* (src/internal/project), and what becomes of it all when a story is      *)
(* trashed, restored and purged or a project deleted.                      *)
(*                                                                         *)
(* Each handler is one transaction, except those of comments, which look   *)
(* first and write later, in two statements.  Ids of deleted rows may be   *)
(* given again.                                                            *)
(***************************************************************************)
EXTENDS Naturals, FiniteSets, Functions

CONSTANTS
  Project, Story, Label, Task, Comment,  \* ids of rows
  Name,         \* label names, and names of filters, in their order: numbers
  User,
  Request,      \* requests about comments, between their two statements
  None,
  FilterLimit,  \* 30 in the code
  MaxRows, MaxPosition  \* bounds of the model

ASSUME DetailsAssumption ==
  /\ None \notin Project \cup Story \cup Comment
  /\ Name \subseteq Nat /\ Task \subseteq Nat
  /\ IsFiniteSet(Name) /\ IsFiniteSet(Label) /\ IsFiniteSet(Task)
  /\ {FilterLimit, MaxRows, MaxPosition} \subseteq Nat

VARIABLES
  projects,  \* table projects
  story,     \* table stories: each one's project, and whether it is in the trash
  labels,    \* table labels
  carries,   \* table story_labels
  tasks,     \* table tasks
  comments,  \* table comments
  filters,   \* table saved_filters
  request    \* what the requests about comments have read

vars == <<projects, story, labels, carries, tasks, comments, filters, request>>

StoryRow == [project : Project, trashed : BOOLEAN]
LabelRow == [id : Label, project : Project, name : Name, epic : BOOLEAN]
TaskRow == [id : Task, story : Story, position : Nat]
CommentRow == [id : Comment, story : Story, user : User]
FilterRow == [user : User, project : Project, name : Name]

Idle == [at |-> "idle", story |-> None, user |-> None, comment |-> None]

RequestRow == [at : {"idle", "add", "delete"}, story : Story \cup {None},
               user : User \cup {None}, comment : Comment \cup {None}]

Stories == DOMAIN story
Live == {s \in Stories : ~story[s].trashed}
Ids(rows) == {row.id : row \in rows}

\* The tables are well formed, and no row outlives what it hangs on.
TypeOK ==
  /\ projects \subseteq Project
  /\ Stories \subseteq Story /\ story \in [Stories -> StoryRow]
  /\ \A s \in Stories : story[s].project \in projects
  /\ labels \subseteq LabelRow /\ \A l \in labels : l.project \in projects
  /\ carries \subseteq Stories \X Ids(labels)
  /\ tasks \subseteq TaskRow /\ \A t \in tasks : t.story \in Stories
  /\ comments \subseteq CommentRow /\ \A c \in comments : c.story \in Stories
  /\ filters \subseteq FilterRow /\ \A f \in filters : f.project \in projects
  /\ \A u \in User, p \in Project :
       Cardinality({f \in filters : f.user = u /\ f.project = p}) <= FilterLimit
  /\ request \in [Request -> RequestRow]

\* Bound of the model on the rows of all tables together.
Room == Cardinality(carries) + Cardinality(tasks) + Cardinality(comments)
        + Cardinality(filters) < MaxRows

-----------------------------------------------------------------------------
(* Labels *)

\* Deletes the plain labels of projects ps that no story has.
DeleteUnusedLabels(rows, links, ps) ==
  {l \in rows : l.project \in ps /\ ~l.epic => \E link \in links : link[2] = l.id}

Named(rows, p, names) == {l \in rows : l.project = p /\ l.name \in names}

\* Story s of project p gets the labels of the given names, and no others.
setLabels(s, p, names) ==
  LET missing == names \ {l.name : l \in Named(labels, p, names)}
      others == {link \in carries : link[1] # s}
  IN  \E id \in Injection(missing, Label \ Ids(labels)) :
        LET rows == labels \cup {[id |-> id[n], project |-> p, name |-> n, epic |-> FALSE] : n \in missing}
            links == others \cup {<<s, l.id>> : l \in Named(rows, p, names)}
        IN  /\ labels' = DeleteUnusedLabels(rows, links, {p})
            /\ carries' = links

\* Creates a story (the rest of it is module Stories's).
CreateStory(s, p, names) ==
  /\ s \notin Stories
  /\ p \in projects
  /\ story' = [t \in Stories \cup {s} |->
                 IF t = s THEN [project |-> p, trashed |-> FALSE] ELSE story[t]]
  /\ names = {} \/ Room
  /\ setLabels(s, p, names)
  /\ UNCHANGED <<projects, tasks, comments, filters, request>>

\* Update, of the labels of a story.
Relabel(s, names) ==
  /\ s \in Live
  /\ names = {} \/ Room
  /\ setLabels(s, story[s].project, names)
  /\ UNCHANGED <<projects, story, tasks, comments, filters, request>>

\* An existing label becomes an epic.
CreateEpic(p, n) ==
  /\ p \in projects
  /\ IF Named(labels, p, {n}) # {}
     THEN \E l \in Named(labels, p, {n}) :
            /\ ~l.epic
            /\ labels' = (labels \ {l}) \cup {[l EXCEPT !.epic = TRUE]}
     ELSE \E id \in Label \ Ids(labels) :
            labels' = labels \cup {[id |-> id, project |-> p, name |-> n, epic |-> TRUE]}
  /\ UNCHANGED <<projects, story, carries, tasks, comments, filters, request>>

\* Renames the epic on every story that has it.
UpdateEpic(l, n) ==
  /\ l \in labels /\ l.epic
  /\ n = l.name \/ Named(labels, l.project, {n}) = {}
  /\ labels' = (labels \ {l}) \cup {[l EXCEPT !.name = n]}
  /\ UNCHANGED <<projects, story, carries, tasks, comments, filters, request>>

\* Back to a label; one that no story has goes.
DemoteEpic(l) ==
  /\ l \in labels /\ l.epic
  /\ labels' = DeleteUnusedLabels((labels \ {l}) \cup {[l EXCEPT !.epic = FALSE]},
                                  carries, {l.project})
  /\ UNCHANGED <<projects, story, carries, tasks, comments, filters, request>>

-----------------------------------------------------------------------------
(* Tasks *)

TasksOf(s) == {t \in tasks : t.story = s}

\* ORDER BY position, id.
Before(t, x) == t.position < x.position \/ (t.position = x.position /\ t.id < x.id)

\* Slip: counts the tasks instead of looking at the last one.
SlipMaxTaskPosition(s) == Cardinality(TasksOf(s))

MaxTaskPosition(s) ==
  IF TasksOf(s) = {} THEN 0
  ELSE CHOOSE n \in {t.position : t \in TasksOf(s)} : \A t \in TasksOf(s) : t.position <= n

AddTask(s, id) ==
  /\ s \in Live
  /\ Room
  /\ id \notin Ids(tasks)
  /\ MaxTaskPosition(s) < MaxPosition
  /\ tasks' = tasks \cup {[id |-> id, story |-> s, position |-> MaxTaskPosition(s) + 1]}
  /\ UNCHANGED <<projects, story, labels, carries, comments, filters, request>>

\* Task t goes to place index of its list, counted from 0, and the list is
\* numbered anew.  The story may be in the trash.
MoveTask(t, index) ==
  LET others == TasksOf(t.story) \ {t}
      at == IF index > Cardinality(others) THEN Cardinality(others) ELSE index
      rank(x) == Cardinality({y \in others : Before(y, x)})
      place(x) == IF rank(x) < at THEN rank(x) + 1 ELSE rank(x) + 2
  IN  /\ t \in tasks
      /\ tasks' = {x \in tasks : x.story # t.story}
                  \cup {[x EXCEPT !.position = place(x)] : x \in others}
                  \cup {[t EXCEPT !.position = at + 1]}
      /\ UNCHANGED <<projects, story, labels, carries, comments, filters, request>>

DeleteTask(t) ==
  /\ t \in tasks
  /\ tasks' = tasks \ {t}
  /\ UNCHANGED <<projects, story, labels, carries, comments, filters, request>>

-----------------------------------------------------------------------------
(* Comments *)

\* AddComment found the story, and it was not in the trash.
AddComment(r, s, u) ==
  /\ request[r].at = "idle"
  /\ s \in Live
  /\ request' = [request EXCEPT ![r] = [Idle EXCEPT !.at = "add", !.story = s, !.user = u]]
  /\ UNCHANGED <<projects, story, labels, carries, tasks, comments, filters>>

\* A story purged since fails the foreign key.
CreateComment(r) ==
  /\ request[r].at = "add"
  /\ request' = [request EXCEPT ![r] = Idle]
  /\ IF request[r].story \in Stories
     THEN /\ Room
          /\ \E id \in Comment \ Ids(comments) :
               comments' = comments \cup
                 {[id |-> id, story |-> request[r].story, user |-> request[r].user]}
     ELSE UNCHANGED comments
  /\ UNCHANGED <<projects, story, labels, carries, tasks, filters>>

\* DeleteComment found the comment, and it was the user's own.
DeleteComment(r, c, u) ==
  /\ request[r].at = "idle"
  /\ c \in comments /\ c.user = u
  /\ request' = [request EXCEPT ![r] =
                   [Idle EXCEPT !.at = "delete", !.comment = c.id, !.user = u]]
  /\ UNCHANGED <<projects, story, labels, carries, tasks, comments, filters>>

\* By its id: whatever comment has it now.
DropComment(r) ==
  /\ request[r].at = "delete"
  /\ request' = [request EXCEPT ![r] = Idle]
  /\ comments' = {c \in comments : c.id # request[r].comment}
  /\ UNCHANGED <<projects, story, labels, carries, tasks, filters>>

-----------------------------------------------------------------------------
(* Saved filters *)

\* A filter of the same name is replaced, but counts against the limit.
SaveFilter(u, p, n) ==
  /\ p \in projects
  /\ Cardinality({f \in filters : f.user = u /\ f.project = p}) < FilterLimit
  /\ Room
  /\ filters' = filters \cup {[user |-> u, project |-> p, name |-> n]}
  /\ UNCHANGED <<projects, story, labels, carries, tasks, comments, request>>

DeleteFilter(u, f) ==
  /\ f \in filters /\ f.user = u
  /\ filters' = filters \ {f}
  /\ UNCHANGED <<projects, story, labels, carries, tasks, comments, request>>

-----------------------------------------------------------------------------
(* Trash and deletion *)

SetTrashed(s, trashed) ==
  /\ s \in Stories
  /\ story[s].trashed # trashed
  /\ story' = [story EXCEPT ![s].trashed = trashed]
  /\ UNCHANGED <<projects, labels, carries, tasks, comments, filters, request>>

Delete(s) == SetTrashed(s, TRUE)
Restore(s) == SetTrashed(s, FALSE)

\* Slip: the tasks stay.
SlipDropStories(gone) ==
  /\ story' = [s \in Stories \ gone |-> story[s]]
  /\ carries' = {link \in carries : link[1] \notin gone}
  /\ comments' = {c \in comments : c.story \notin gone}
  /\ UNCHANGED tasks

\* The stories of gone are deleted, and what hangs on them (ON DELETE CASCADE).
DropStories(gone) ==
  /\ story' = [s \in Stories \ gone |-> story[s]]
  /\ carries' = {link \in carries : link[1] \notin gone}
  /\ tasks' = {t \in tasks : t.story \notin gone}
  /\ comments' = {c \in comments : c.story \notin gone}

\* Slip: the labels of the purged stories stay.
SlipPurge(old) ==
  /\ old # {}
  /\ old \subseteq Stories \ Live
  /\ DropStories(old)
  /\ UNCHANGED <<projects, labels, filters, request>>

\* At startup: the stories that have been in the trash for long.
Purge(old) ==
  /\ old # {}
  /\ old \subseteq Stories \ Live
  /\ DropStories(old)
  /\ labels' = DeleteUnusedLabels(labels, carries', projects)
  /\ UNCHANGED <<projects, filters, request>>

CreateProject(p) ==
  /\ p \notin projects
  /\ projects' = projects \cup {p}
  /\ UNCHANGED <<story, labels, carries, tasks, comments, filters, request>>

DeleteProject(p) ==
  /\ p \in projects
  /\ projects' = projects \ {p}
  /\ DropStories({s \in Stories : story[s].project = p})
  /\ labels' = {l \in labels : l.project # p}
  /\ filters' = {f \in filters : f.project # p}
  /\ UNCHANGED request

-----------------------------------------------------------------------------

Init ==
  /\ projects = {} /\ story = <<>>
  /\ labels = {} /\ carries = {} /\ tasks = {} /\ comments = {}
  /\ filters = {}
  /\ request = [r \in Request |-> Idle]

Next ==
  \/ \E s \in Story :
       \/ \E names \in SUBSET Name : Relabel(s, names) \/ \E p \in Project : CreateStory(s, p, names)
       \/ \E id \in Task : AddTask(s, id)
       \/ Delete(s) \/ Restore(s)
  \/ \E n \in Name :
       \/ \E p \in Project : CreateEpic(p, n)
       \/ \E l \in labels : UpdateEpic(l, n)
  \/ \E l \in labels : DemoteEpic(l)
  \/ \E t \in tasks : DeleteTask(t) \/ \E index \in 0..MaxPosition : MoveTask(t, index)
  \/ \E r \in Request :
       \/ \E u \in User, s \in Story : AddComment(r, s, u)
       \/ \E u \in User, c \in comments : DeleteComment(r, c, u)
       \/ CreateComment(r) \/ DropComment(r)
  \/ \E u \in User, p \in Project, n \in Name : SaveFilter(u, p, n)
  \/ \E u \in User, f \in filters : DeleteFilter(u, f)
  \/ \E old \in SUBSET Stories : Purge(old)
  \/ \E p \in Project : CreateProject(p) \/ DeleteProject(p)

Spec == Init /\ [][Next]_vars

-----------------------------------------------------------------------------
(* The list of epics *)

EpicsOf(p) == {l \in labels : l.project = p /\ l.epic}

\* Stories in the trash do not count.
StoryCount(l) == Cardinality({link \in carries : link[2] = l.id /\ link[1] \in Live})

\* A slice that is appended to moves when it is full, at 1, 2, 3, 5, 9, ...
\* elements.  The last time it moved, with n elements now:
LastMove(n) == CHOOSE m \in {1} \cup {2^k + 1 : k \in 0..n} :
                 m <= n /\ \A i \in (m + 1)..n : i \notin {2^k + 1 : k \in 0..n}

\* Progress is added up at where each epic was when it was appended, which is
\* where the answer is only for those appended since the slice last moved.
Epics(p) ==
  [l \in EpicsOf(p) |->
     IF Cardinality({e \in EpicsOf(p) : e.name <= l.name}) >= LastMove(Cardinality(EpicsOf(p)))
     THEN StoryCount(l) ELSE 0]

-----------------------------------------------------------------------------
(* What must hold *)

\* A plain label is on some story, in the trash or not, and a story has labels
\* of its own project only; a name means one label there.  So the list of
\* labels offers what is in use, after any relabelling, purge or demotion.
LabelsInUse ==
  /\ \A l \in labels : l.epic \/ \E s \in Stories : <<s, l.id>> \in carries
  /\ \A link \in carries : \A l \in labels :
       l.id = link[2] => l.project = story[link[1]].project
  /\ \A l, m \in labels : l.id = m.id \/ (l.project = m.project /\ l.name = m.name) => l = m

\* One step moves at most one task of a story: the others keep their order, and
\* a new one comes last, whatever was deleted before (tasks.go:47-120).
TasksKeepTheirOrder ==
  [][\A s \in Stories :
       /\ \E moved \in Task : \A t, x \in TasksOf(s) : \A u, y \in TasksOf(s)' :
            t.id = u.id /\ x.id = y.id /\ moved \notin {t.id, x.id} =>
              (Before(t, x) <=> Before(u, y))
       /\ \A u, y \in TasksOf(s)' :
            u.id \notin Ids(tasks) /\ y.id \in Ids(tasks) => Before(y, u)]_tasks

\* "Epics lists a project's epics with progress" (epic.go:34).  Does not hold:
\* with two epics, the first has none.
EpicsShowProgress ==
  \A p \in projects : \A l \in EpicsOf(p) : Epics(p)[l] = StoryCount(l)
=============================================================================
