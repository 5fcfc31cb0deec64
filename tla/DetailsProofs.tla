--------------------------- MODULE DetailsProofs ---------------------------
(***************************************************************************)
(* The tables of Details stay consistent, the list of labels offers what   *)
(* is in use, and no step disorders a checklist; for any number of         *)
(* projects, stories, labels, tasks, comments, filters and requests.       *)
(* And, as Planning is checked along with it: whoever asks in which        *)
(* iteration something happened gets one answer, the velocity is the       *)
(* average of what the iterations hold, and the projected iterations hold  *)
(* the backlog.                                                            *)
(***************************************************************************)
EXTENDS Details, Planning, FiniteSetTheorems, SequenceTheorems, TLAPS

StoriesOK ==
  /\ projects \subseteq Project
  /\ Stories \subseteq Story /\ story \in [Stories -> StoryRow]
  /\ \A s \in Stories : story[s].project \in projects

LabelsOK ==
  /\ labels \subseteq LabelRow /\ \A l \in labels : l.project \in projects
  /\ carries \subseteq Stories \X Ids(labels)
  /\ LabelsInUse

\* A task is known by its id.
TasksOK ==
  /\ tasks \subseteq TaskRow /\ \A t \in tasks : t.story \in Stories
  /\ IsFiniteSet(tasks)
  /\ \A t, x \in tasks : t.id = x.id => t = x

CommentsOK == comments \subseteq CommentRow /\ \A c \in comments : c.story \in Stories

FiltersOf(u, p) == {f \in filters : f.user = u /\ f.project = p}

FiltersOK ==
  /\ filters \subseteq FilterRow /\ \A f \in filters : f.project \in projects
  /\ IsFiniteSet(filters)
  /\ \A u \in User, p \in Project : Cardinality(FiltersOf(u, p)) <= FilterLimit

RequestsOK ==
  /\ request \in [Request -> RequestRow]
  /\ \A r \in Request : request[r].at = "add" => request[r].user \in User

IInv == StoriesOK /\ LabelsOK /\ TasksOK /\ CommentsOK /\ FiltersOK /\ RequestsOK

LEMMA Consequences ==
  IInv => TypeOK /\ LabelsInUse
BY DEF IInv, TypeOK, StoriesOK, LabelsOK, TasksOK, CommentsOK, FiltersOK, FiltersOf, RequestsOK

-----------------------------------------------------------------------------
(* Projects and stories *)

LEMMA DropStoriesStep ==
  ASSUME StoriesOK, NEW gone, DropStories(gone)
  PROVE  /\ Stories' = Stories \ gone
         /\ story' \in [Stories' -> StoryRow]
         /\ \A s \in Stories' : story'[s] = story[s]
BY DEF DropStories, Stories, StoriesOK

LEMMA SetTrashedStep ==
  ASSUME StoriesOK, NEW s, NEW trashed \in BOOLEAN, SetTrashed(s, trashed)
  PROVE  /\ Stories' = Stories
         /\ story' \in [Stories -> StoryRow]
         /\ \A t \in Stories : story'[t].project = story[t].project
BY DEF SetTrashed, Stories, StoriesOK, StoryRow

LEMMA CreateStoryStep ==
  ASSUME StoriesOK, NEW s \in Story, NEW p \in Project, NEW names, CreateStory(s, p, names)
  PROVE  /\ Stories' = Stories \cup {s} /\ s \notin Stories
         /\ story' \in [Stories' -> StoryRow]
         /\ story'[s].project = p
         /\ \A t \in Stories : story'[t] = story[t]
BY DEF CreateStory, Stories, StoriesOK, StoryRow

LEMMA StoriesStep ==
  ASSUME IInv, Next
  PROVE  StoriesOK'
<1>0. StoriesOK
  BY DEF IInv
<1>1. ASSUME NEW s \in Story, NEW p \in Project, NEW names, CreateStory(s, p, names)
      PROVE  StoriesOK'
  <2>1. projects' = projects /\ p \in projects
    BY <1>1 DEF CreateStory
  <2> QED BY <1>0, <1>1, <2>1, CreateStoryStep DEF StoriesOK
<1>2. ASSUME NEW s, Delete(s) \/ Restore(s)
      PROVE  StoriesOK'
  <2>1. PICK trashed \in BOOLEAN : SetTrashed(s, trashed)
    BY <1>2 DEF Delete, Restore
  <2>2. projects' = projects
    BY <2>1 DEF SetTrashed
  <2> QED BY <1>0, <2>1, <2>2, SetTrashedStep DEF StoriesOK
<1>3. ASSUME NEW old, Purge(old)
      PROVE  StoriesOK'
  <2>1. DropStories(old) /\ projects' = projects
    BY <1>3 DEF Purge
  <2> QED BY <1>0, <2>1, DropStoriesStep DEF StoriesOK
<1>4. ASSUME NEW p \in Project, CreateProject(p)
      PROVE  StoriesOK'
  BY <1>0, <1>4 DEF CreateProject, StoriesOK, Stories
<1>5. ASSUME NEW p \in Project, DeleteProject(p)
      PROVE  StoriesOK'
  <2> DEFINE gone == {s \in Stories : story[s].project = p}
  <2>1. DropStories(gone) /\ projects' = projects \ {p}
    BY <1>5 DEF DeleteProject
  <2>2. \A s \in Stories \ gone : story[s].project \in projects \ {p}
    BY <1>0 DEF StoriesOK
  <2> HIDE DEF gone
  <2> QED BY <1>0, <2>1, <2>2, DropStoriesStep DEF StoriesOK
<1>6. CASE UNCHANGED <<projects, story>>
  BY <1>0, <1>6 DEF StoriesOK, Stories
<1> QED BY <1>1, <1>2, <1>3, <1>4, <1>5, <1>6
       DEF Next, Relabel, AddTask, CreateEpic, UpdateEpic, DemoteEpic, DeleteTask, MoveTask,
           AddComment, DeleteComment, CreateComment, DropComment, SaveFilter, DeleteFilter

-----------------------------------------------------------------------------
(* Labels: rows of labels and links of story_labels, over stories st *)

Pair(link) == link = <<link[1], link[2]>>

Consistent(rows, links, st) ==
  /\ rows \subseteq LabelRow
  /\ \A link \in links : Pair(link) /\ link[1] \in DOMAIN st /\ link[2] \in Ids(rows)
  /\ \A link \in links : \A l \in rows : l.id = link[2] => l.project = st[link[1]].project
  /\ \A l, m \in rows : l.id = m.id \/ (l.project = m.project /\ l.name = m.name) => l = m

Used(l, links) == l.epic \/ \E link \in links : link[2] = l.id

LEMMA LabelsSplit ==
  LabelsOK <=> /\ Consistent(labels, carries, story)
               /\ \A l \in labels : Used(l, carries) /\ l.project \in projects
<1>1. ASSUME carries \subseteq Stories \X Ids(labels), NEW l \in labels
      PROVE  (\E s \in Stories : <<s, l.id>> \in carries) <=> \E link \in carries : link[2] = l.id
  <2>1. ASSUME NEW link \in carries, link[2] = l.id
        PROVE  \E s \in Stories : <<s, l.id>> \in carries
    <3>1. link[1] \in Stories /\ link = <<link[1], l.id>>
      BY <1>1, <2>1
    <3> QED BY <3>1
  <2> QED BY <2>1
<1>2. carries \subseteq Stories \X Ids(labels) <=>
        \A link \in carries : Pair(link) /\ link[1] \in Stories /\ link[2] \in Ids(labels)
  BY DEF Pair
<1> QED BY <1>1, <1>2 DEF LabelsOK, LabelsInUse, Consistent, Used, Stories

LEMMA LabelsSplitNext ==
  LabelsOK' <=> /\ Consistent(labels', carries', story')
                /\ \A l \in labels' : Used(l, carries') /\ l.project \in projects'
<1>1. (LabelsOK <=> /\ Consistent(labels, carries, story)
                    /\ \A l \in labels : Used(l, carries) /\ l.project \in projects)'
  BY LabelsSplit, PTL
<1> QED BY <1>1 DEF Consistent, Used, Ids, LabelRow, Pair

LEMMA DeleteUnusedStep ==
  ASSUME NEW rows, NEW links, NEW st, Consistent(rows, links, st),
         NEW ps, \A l \in rows : l.project \in ps \/ Used(l, links)
  PROVE  /\ Consistent(DeleteUnusedLabels(rows, links, ps), links, st)
         /\ \A l \in DeleteUnusedLabels(rows, links, ps) : l \in rows /\ Used(l, links)
<1> DEFINE kept == DeleteUnusedLabels(rows, links, ps)
<1>1. \A l \in kept : l \in rows /\ Used(l, links)
  BY DEF DeleteUnusedLabels, Used
<1>2. \A l \in rows : Used(l, links) => l \in kept
  BY DEF DeleteUnusedLabels, Used
<1> HIDE DEF kept
<1>3. ASSUME NEW link \in links
      PROVE  Pair(link) /\ link[1] \in DOMAIN st /\ link[2] \in Ids(kept)
  <2>1. Pair(link) /\ link[1] \in DOMAIN st /\ link[2] \in Ids(rows)
    BY DEF Consistent
  <2>2. PICK l \in rows : link[2] = l.id
    BY <2>1 DEF Ids
  <2>3. l \in kept
    BY <1>2, <2>2 DEF Used
  <2> QED BY <2>1, <2>2, <2>3 DEF Ids
<1>4. Consistent(kept, links, st)
  BY <1>1, <1>3 DEF Consistent
<1> QED BY <1>1, <1>4 DEF kept

\* A row is replaced by one of the same id in the same project.
LEMMA ReplaceStep ==
  ASSUME NEW rows, NEW links, NEW st, Consistent(rows, links, st), NEW l \in rows,
         NEW m \in LabelRow, m.id = l.id, m.project = l.project,
         \A x \in rows : x.project = m.project /\ x.name = m.name => x = l
  PROVE  /\ Consistent((rows \ {l}) \cup {m}, links, st)
         /\ \A x \in rows : Used(x, links) => x = l \/ x \in (rows \ {l}) \cup {m}
<1> DEFINE new == (rows \ {l}) \cup {m}
<1>1. Ids(new) = Ids(rows)
  <2>1. \A x \in rows : \E y \in new : y.id = x.id
    OBVIOUS
  <2>2. \A y \in new : \E x \in rows : x.id = y.id
    OBVIOUS
  <2> HIDE DEF new
  <2> QED BY <2>1, <2>2 DEF Ids
<1>2. \A x \in new : x = m \/ (x \in rows /\ x # l)
  OBVIOUS
<1>3. new \subseteq LabelRow
  BY DEF Consistent
<1> HIDE DEF new
<1>4. \A x \in rows : x.id = m.id => x = l
  BY DEF Consistent
<1>5. \A x, y \in new : x.id = y.id \/ (x.project = y.project /\ x.name = y.name) => x = y
  BY <1>2, <1>4 DEF Consistent
<1>6. \A link \in links : \A x \in new : x.id = link[2] => x.project = st[link[1]].project
  BY <1>2 DEF Consistent
<1>7. Consistent(new, links, st)
  BY <1>1, <1>3, <1>5, <1>6 DEF Consistent
<1> QED BY <1>7 DEF new

\* New rows have ids and names nobody has.
LEMMA AddRowsStep ==
  ASSUME NEW rows, NEW links, NEW st, Consistent(rows, links, st),
         NEW new \in SUBSET LabelRow,
         \A l \in rows, m \in new : l.id # m.id /\ ~(l.project = m.project /\ l.name = m.name),
         \A l, m \in new : l.id = m.id \/ (l.project = m.project /\ l.name = m.name) => l = m
  PROVE  Consistent(rows \cup new, links, st)
<1> DEFINE all == rows \cup new
<1>1. all \subseteq LabelRow
  BY DEF Consistent
<1>2. \A l, m \in all : l.id = m.id \/ (l.project = m.project /\ l.name = m.name) => l = m
  BY DEF Consistent
<1>3. ASSUME NEW link \in links
      PROVE  /\ Pair(link) /\ link[1] \in DOMAIN st /\ link[2] \in Ids(all)
             /\ \A l \in all : l.id = link[2] => l.project = st[link[1]].project
  <2>1. Pair(link) /\ link[1] \in DOMAIN st /\ link[2] \in Ids(rows)
    BY DEF Consistent
  <2>2. PICK l \in rows : l.id = link[2]
    BY <2>1 DEF Ids
  <2>3. \A m \in all : m.id = link[2] => m = l
    BY <1>2, <2>2
  <2> QED BY <2>1, <2>2, <2>3 DEF Ids, Consistent
<1> QED BY <1>1, <1>2, <1>3 DEF Consistent

LEMMA SetLabelsStep ==
  ASSUME StoriesOK, LabelsOK, StoriesOK',
         NEW s \in Stories', NEW p \in Project, NEW names \in SUBSET Name,
         setLabels(s, p, names), projects' = projects, p \in projects,
         Stories \subseteq Stories', story'[s].project = p,
         \A t \in Stories : story'[t].project = story[t].project
  PROVE  LabelsOK'
<1> DEFINE missing == names \ {l.name : l \in Named(labels, p, names)}
           others == {link \in carries : link[1] # s}
<1>1. PICK id \in Injection(missing, Label \ Ids(labels)) :
        LET new == {[id |-> id[n], project |-> p, name |-> n, epic |-> FALSE] : n \in missing}
            rows == labels \cup new
            links == others \cup {<<s, l.id>> : l \in Named(rows, p, names)}
        IN  /\ labels' = DeleteUnusedLabels(rows, links, {p})
            /\ carries' = links
  BY Zenon DEF setLabels
<1> DEFINE new == {[id |-> id[n], project |-> p, name |-> n, epic |-> FALSE] : n \in missing}
           rows == labels \cup new
           given == {<<s, l.id>> : l \in Named(rows, p, names)}
           links == others \cup given
<1>2. Consistent(labels, carries, story) /\ \A l \in labels : Used(l, carries) /\ l.project \in projects
  BY LabelsSplit
<1>3. /\ \A n \in missing : id[n] \in Label /\ id[n] \notin Ids(labels)
      /\ \A n, k \in missing : id[n] = id[k] => n = k
  BY <1>1 DEF Injection, IsInjective
<1>4. \A l \in labels : l.project = p => l.name \notin missing
  BY DEF Named
<1>5. missing \subseteq Name
  OBVIOUS
<1> HIDE DEF missing
<1>6. new \in SUBSET LabelRow /\ \A m \in new : m.project = p
  <2>1. ASSUME NEW n \in missing
        PROVE  [id |-> id[n], project |-> p, name |-> n, epic |-> FALSE] \in LabelRow
    BY <1>3, <1>5 DEF LabelRow
  <2> QED BY <2>1
<1>7. \A l \in labels, m \in new : l.id # m.id /\ ~(l.project = m.project /\ l.name = m.name)
  BY <1>3, <1>4 DEF Ids
<1>8. ASSUME NEW l \in new, NEW m \in new,
             l.id = m.id \/ (l.project = m.project /\ l.name = m.name)
      PROVE  l = m
  <2>1. PICK n \in missing : l = [id |-> id[n], project |-> p, name |-> n, epic |-> FALSE]
    OBVIOUS
  <2>2. PICK k \in missing : m = [id |-> id[k], project |-> p, name |-> k, epic |-> FALSE]
    OBVIOUS
  <2> QED BY <1>3, <1>8, <2>1, <2>2
<1> HIDE DEF new
<1>9. Consistent(labels, carries, story')
  <2>1. \A link \in carries : link[1] \in Stories /\ link[1] \in DOMAIN story'
    BY <1>2 DEF Consistent, Stories
  <2> QED BY <1>2, <2>1 DEF Consistent
<1>10. Consistent(rows, carries, story')
  BY <1>6, <1>7, <1>8, <1>9, AddRowsStep
<1> HIDE DEF rows
<1>11. \A link \in given : link[1] = s /\ \E l \in rows : l.project = p /\ l.id = link[2]
  BY DEF Named
<1>12. \A link \in links : link \in carries \/ link \in given
  OBVIOUS
<1>13. ASSUME NEW link \in given
       PROVE  /\ Pair(link) /\ link[1] \in DOMAIN story' /\ link[2] \in Ids(rows)
              /\ \A l \in rows : l.id = link[2] => l.project = story'[link[1]].project
  <2>1. PICK m \in Named(rows, p, names) : link = <<s, m.id>>
    OBVIOUS
  <2>2. m \in rows /\ m.project = p
    BY DEF Named
  <2>3. \A l \in rows : l.id = m.id => l = m
    BY <1>10, <2>2 DEF Consistent
  <2>4. Pair(link) /\ link[1] = s /\ link[2] = m.id
    BY <2>1 DEF Pair
  <2>5. s \in DOMAIN story'
    BY DEF Stories
  <2> QED BY <2>2, <2>3, <2>4, <2>5 DEF Ids
<1>14. Consistent(rows, links, story')
  BY <1>10, <1>12, <1>13 DEF Consistent
<1>15. ASSUME NEW l \in rows, l.project # p
       PROVE  Used(l, links)
  <2>1. l \in labels
    BY <1>6, <1>15 DEF rows
  <2>2. CASE l.epic
    BY <2>2 DEF Used
  <2>3. CASE ~l.epic
    <3>1. PICK link \in carries : link[2] = l.id
      BY <1>2, <2>1, <2>3 DEF Used
    <3>2. link[1] \in Stories /\ l.project = story[link[1]].project
      BY <1>2, <2>1, <3>1 DEF Consistent, Stories
    <3>3. link[1] # s
      BY <1>15, <3>2
    <3>4. link \in links
      BY <3>3
    <3> QED BY <3>1, <3>4 DEF Used
  <2> QED BY <2>2, <2>3
<1> HIDE DEF links
<1>16. labels' = DeleteUnusedLabels(rows, links, {p}) /\ carries' = links
  BY <1>1 DEF links, rows, new
<1>17. /\ Consistent(labels', carries', story')
       /\ \A l \in labels' : l \in rows /\ Used(l, carries')
  BY <1>14, <1>15, <1>16, DeleteUnusedStep
<1>18. \A l \in rows : l.project \in projects'
  BY <1>2, <1>6 DEF rows
<1>19. \A l \in labels' : Used(l, carries') /\ l.project \in projects'
  BY <1>17, <1>18
<1> QED BY <1>17, <1>19, LabelsSplitNext

LEMMA DropKeepsLabels ==
  ASSUME StoriesOK, LabelsOK, NEW gone, DropStories(gone), NEW rows,
         rows \subseteq labels, \A l \in rows : l.project \in projects',
         \A link \in carries', l \in labels : link[2] = l.id => l \in rows
  PROVE  Consistent(rows, carries', story')
<1>1. Consistent(labels, carries, story)
  BY LabelsSplit
<1>2. /\ Stories' = Stories \ gone
      /\ \A s \in Stories' : story'[s] = story[s]
  BY DropStoriesStep
<1>3. \A link \in carries' : link \in carries /\ link[1] \notin gone
  BY DEF DropStories
<1>4. ASSUME NEW link \in carries'
      PROVE  /\ Pair(link) /\ link[1] \in DOMAIN story' /\ link[2] \in Ids(rows)
             /\ \A l \in rows : l.id = link[2] => l.project = story'[link[1]].project
  <2>1. Pair(link) /\ link[1] \in Stories /\ link[2] \in Ids(labels)
    BY <1>1, <1>3 DEF Consistent, Stories
  <2>2. link[1] \in Stories'
    BY <1>2, <1>3, <2>1
  <2>3. link[2] \in Ids(rows)
    BY <2>1 DEF Ids
  <2> QED BY <1>1, <1>2, <1>3, <2>1, <2>2, <2>3 DEF Consistent, Stories
<1> QED BY <1>1, <1>4 DEF Consistent

LEMMA LabelsStep ==
  ASSUME IInv, Next
  PROVE  LabelsOK'
<1>0. StoriesOK /\ LabelsOK /\ StoriesOK'
  BY StoriesStep DEF IInv
<1>c. Consistent(labels, carries, story) /\ \A l \in labels : Used(l, carries) /\ l.project \in projects
  BY <1>0, LabelsSplit
<1>1. ASSUME NEW s \in Story, NEW p \in Project, NEW names \in SUBSET Name, CreateStory(s, p, names)
      PROVE  LabelsOK'
  <2>1. setLabels(s, p, names) /\ projects' = projects /\ p \in projects
    BY <1>1 DEF CreateStory
  <2> QED BY <1>0, <1>1, <2>1, CreateStoryStep, SetLabelsStep
<1>2. ASSUME NEW s \in Story, NEW names \in SUBSET Name, Relabel(s, names)
      PROVE  LabelsOK'
  <2> DEFINE p == story[s].project
  <2>1. /\ s \in Stories /\ setLabels(s, p, names)
        /\ projects' = projects /\ story' = story /\ Stories' = Stories
    BY <1>2 DEF Relabel, Live, Stories
  <2>2. p \in projects /\ p \in Project
    BY <1>0, <2>1 DEF StoriesOK
  <2> HIDE DEF p
  <2>3. story'[s].project = p
    BY <2>1 DEF p
  <2> QED BY <1>0, <2>1, <2>2, <2>3, SetLabelsStep
<1>3. ASSUME NEW p \in Project, NEW n \in Name, CreateEpic(p, n)
      PROVE  LabelsOK'
  <2>0. p \in projects /\ carries' = carries /\ story' = story /\ projects' = projects
    BY <1>3 DEF CreateEpic
  <2>1. CASE Named(labels, p, {n}) # {}
    <3>1. PICK l \in Named(labels, p, {n}) : labels' = (labels \ {l}) \cup {[l EXCEPT !.epic = TRUE]}
      BY <1>3, <2>1 DEF CreateEpic
    <3> DEFINE m == [l EXCEPT !.epic = TRUE]
    <3>2. l \in labels /\ l \in LabelRow
      BY <1>c DEF Named, Consistent
    <3>3. m \in LabelRow /\ m.id = l.id /\ m.project = l.project /\ m.name = l.name /\ m.epic
      BY <3>2 DEF LabelRow
    <3>4. labels' = (labels \ {l}) \cup {m}
      BY <3>1
    <3> HIDE DEF m
    <3>n. \A x \in labels : x.project = m.project /\ x.name = m.name => x = l
      BY <1>c, <3>2, <3>3 DEF Consistent
    <3>5. Consistent(labels', carries, story)
      BY <1>c, <3>2, <3>3, <3>4, <3>n, ReplaceStep
    <3>6. \A x \in labels' : Used(x, carries) /\ x.project \in projects
      BY <1>c, <3>2, <3>3, <3>4 DEF Used
    <3> QED BY <2>0, <3>5, <3>6, LabelsSplitNext
  <2>2. CASE Named(labels, p, {n}) = {}
    <3>1. PICK id \in Label \ Ids(labels) :
            labels' = labels \cup {[id |-> id, project |-> p, name |-> n, epic |-> TRUE]}
      BY <1>3, <2>2 DEF CreateEpic
    <3> DEFINE m == [id |-> id, project |-> p, name |-> n, epic |-> TRUE]
    <3>2. m \in LabelRow /\ m.id = id /\ m.project = p /\ m.name = n /\ m.epic
      BY DEF LabelRow
    <3>3. labels' = labels \cup {m}
      BY <3>1
    <3> HIDE DEF m
    <3>4. \A l \in labels : l.id # m.id /\ ~(l.project = m.project /\ l.name = m.name)
      BY <2>2, <3>2 DEF Ids, Named
    <3>5. Consistent(labels', carries, story)
      <4> DEFINE new == {m}
      <4>1. new \in SUBSET LabelRow
        BY <3>2
      <4>2. /\ \A l \in labels, x \in new : l.id # x.id /\ ~(l.project = x.project /\ l.name = x.name)
            /\ \A l, x \in new : l = x
        BY <3>4
      <4>3. labels' = labels \cup new
        BY <3>3
      <4> HIDE DEF new
      <4> QED BY <1>c, <4>1, <4>2, <4>3, AddRowsStep
    <3>6. \A x \in labels' : Used(x, carries) /\ x.project \in projects
      BY <1>c, <2>0, <3>2, <3>3 DEF Used
    <3> QED BY <2>0, <3>5, <3>6, LabelsSplitNext
  <2> QED BY <2>1, <2>2
<1>4. ASSUME NEW l \in labels, NEW n \in Name, UpdateEpic(l, n)
      PROVE  LabelsOK'
  <2> DEFINE m == [l EXCEPT !.name = n]
  <2>0. carries' = carries /\ story' = story /\ projects' = projects
    BY <1>4 DEF UpdateEpic
  <2>1. labels' = (labels \ {l}) \cup {m}
    BY <1>4 DEF UpdateEpic
  <2>2. l \in LabelRow /\ l.epic
    BY <1>4, <1>c DEF UpdateEpic, Consistent
  <2>3. m \in LabelRow /\ m.id = l.id /\ m.project = l.project /\ m.name = n /\ m.epic
    BY <2>2 DEF LabelRow
  <2> HIDE DEF m
  <2>4. \A x \in labels : x.project = m.project /\ x.name = m.name => x = l
    BY <1>4, <1>c, <2>3 DEF UpdateEpic, Named, Consistent
  <2>5. Consistent(labels', carries, story)
    BY <1>c, <2>1, <2>3, <2>4, ReplaceStep
  <2>6. \A x \in labels' : Used(x, carries) /\ x.project \in projects
    BY <1>c, <2>1, <2>3 DEF Used
  <2> QED BY <2>0, <2>5, <2>6, LabelsSplitNext
<1>5. ASSUME NEW l \in labels, DemoteEpic(l)
      PROVE  LabelsOK'
  <2> DEFINE m == [l EXCEPT !.epic = FALSE]
             rows == (labels \ {l}) \cup {m}
  <2>0. carries' = carries /\ story' = story /\ projects' = projects
    BY <1>5 DEF DemoteEpic
  <2>1. labels' = DeleteUnusedLabels(rows, carries, {l.project})
    BY <1>5 DEF DemoteEpic
  <2>2. l \in LabelRow
    BY <1>c DEF Consistent
  <2>3. m \in LabelRow /\ m.id = l.id /\ m.project = l.project /\ m.name = l.name
    BY <2>2 DEF LabelRow
  <2> HIDE DEF m
  <2>4. \A x \in labels : x.project = m.project /\ x.name = m.name => x = l
    BY <1>c, <2>3 DEF Consistent
  <2>5. Consistent(rows, carries, story)
    BY <1>c, <2>3, <2>4, ReplaceStep
  <2>6. \A x \in rows : x = m \/ x \in labels
    OBVIOUS
  <2> HIDE DEF rows
  <2>7. \A x \in rows : x.project \in {l.project} \/ Used(x, carries)
    BY <1>c, <2>3, <2>6
  <2>8. /\ Consistent(labels', carries, story)
        /\ \A x \in labels' : x \in rows /\ Used(x, carries)
    BY <2>1, <2>5, <2>7, DeleteUnusedStep
  <2>9. \A x \in labels' : Used(x, carries) /\ x.project \in projects
    BY <1>c, <2>3, <2>6, <2>8
  <2> QED BY <2>0, <2>8, <2>9, LabelsSplitNext
<1>6. ASSUME NEW s, Delete(s) \/ Restore(s)
      PROVE  LabelsOK'
  <2>1. PICK trashed \in BOOLEAN : SetTrashed(s, trashed)
    BY <1>6 DEF Delete, Restore
  <2>2. labels' = labels /\ carries' = carries /\ projects' = projects
    BY <2>1 DEF SetTrashed
  <2>3. Stories' = Stories /\ \A t \in Stories : story'[t].project = story[t].project
    BY <1>0, <2>1, SetTrashedStep
  <2>4. Consistent(labels, carries, story')
    BY <1>c, <2>3 DEF Consistent, Stories
  <2> QED BY <1>c, <2>2, <2>4, LabelsSplitNext
<1>7. ASSUME NEW old, Purge(old)
      PROVE  LabelsOK'
  <2>1. /\ DropStories(old) /\ projects' = projects
        /\ labels' = DeleteUnusedLabels(labels, carries', projects)
    BY <1>7 DEF Purge
  <2>2. Consistent(labels, carries', story')
    BY <1>0, <1>c, <2>1, DropKeepsLabels
  <2>3. /\ Consistent(labels', carries', story')
        /\ \A l \in labels' : l \in labels /\ Used(l, carries')
    BY <1>c, <2>1, <2>2, DeleteUnusedStep
  <2> QED BY <1>c, <2>1, <2>3, LabelsSplitNext
<1>8. ASSUME NEW p \in Project, CreateProject(p)
      PROVE  LabelsOK'
  <2>1. labels' = labels /\ carries' = carries /\ story' = story /\ projects \subseteq projects'
    BY <1>8 DEF CreateProject
  <2> QED BY <1>c, <2>1, LabelsSplitNext
<1>9. ASSUME NEW p \in Project, DeleteProject(p)
      PROVE  LabelsOK'
  <2> DEFINE gone == {s \in Stories : story[s].project = p}
             rows == {l \in labels : l.project # p}
  <2>1. DropStories(gone) /\ projects' = projects \ {p} /\ labels' = rows
    BY <1>9 DEF DeleteProject
  <2>2. carries' = {link \in carries : link[1] \notin gone}
    BY <2>1 DEF DropStories
  <2>3. \A link \in carries : link[1] \in Stories
    BY <1>c DEF Consistent, Stories
  <2>4. \A link \in carries, l \in labels :
          link[2] = l.id => (link[1] \in gone <=> l.project = p)
    BY <1>c, <2>3 DEF Consistent
  <2>5. \A l \in rows : l \in labels /\ l.project \in projects' /\ l.project # p
    BY <1>c, <2>1
  <2>6. \A link \in carries', l \in labels : link[2] = l.id => l \in rows
    BY <2>2, <2>4
  <2> HIDE DEF gone, rows
  <2>7. Consistent(rows, carries', story')
    BY <1>0, <2>1, <2>5, <2>6, DropKeepsLabels
  <2>8. ASSUME NEW l \in rows
        PROVE  Used(l, carries')
    <3>1. Used(l, carries)
      BY <1>c, <2>5
    <3> QED BY <2>2, <2>4, <2>5, <3>1 DEF Used
  <2> QED BY <2>1, <2>5, <2>7, <2>8, LabelsSplitNext
<1>10. CASE UNCHANGED <<projects, story, labels, carries>>
  BY <1>c, <1>10, LabelsSplitNext
<1> QED BY <1>1, <1>2, <1>3, <1>4, <1>5, <1>6, <1>7, <1>8, <1>9, <1>10
       DEF Next, AddTask, DeleteTask, MoveTask, AddComment, DeleteComment, CreateComment,
           DropComment, SaveFilter, DeleteFilter

-----------------------------------------------------------------------------
(* Checklists *)

\* A finite set of numbers that is not empty has a greatest one: among the sets
\* without, one would be the smallest, and one element less would be smaller.
LEMMA FiniteMax ==
  ASSUME NEW S \in SUBSET Nat, IsFiniteSet(S), S # {}
  PROVE  \E n \in S : \A m \in S : m <= n
<1> DEFINE Bad == {T \in SUBSET S : T # {} /\ ~ \E n \in T : \A m \in T : m <= n}
<1> SUFFICES Bad = {}
  OBVIOUS
<1> SUFFICES ASSUME Bad # {} PROVE FALSE
  OBVIOUS
<1>1. Bad \subseteq FiniteSubsetsOf(S)
  BY FS_Subset DEF FiniteSubsetsOf
<1>2. IsWellFoundedOn(StrictSubsetOrdering(S), FiniteSubsetsOf(S))
  BY FS_StrictSubsetOrderingWellFounded
<1>3. PICK T \in Bad : \A U \in Bad : <<U, T>> \notin StrictSubsetOrdering(S)
  <2> HIDE DEF Bad
  <2> QED BY <1>1, <1>2, WFMin
<1>4. PICK a \in T : TRUE
  OBVIOUS
<1>5. T \ {a} \notin Bad
  <2>1. <<T \ {a}, T>> \in StrictSubsetOrdering(S)
    BY <1>4 DEF StrictSubsetOrdering
  <2> QED BY <1>3, <2>1
<1>6. CASE T \ {a} = {}
  <2>1. \A m \in T : m <= a
    BY <1>4, <1>6
  <2> QED BY <1>4, <2>1
<1>7. CASE T \ {a} # {}
  <2>1. PICK n \in T \ {a} : \A m \in T \ {a} : m <= n
    BY <1>5, <1>7
  <2>2. n \in Nat /\ a \in Nat /\ T \subseteq Nat
    BY <1>4, <2>1
  <2>3. CASE a <= n
    BY <2>1, <2>3
  <2>4. CASE n <= a
    <3>1. \A m \in T : m <= a
      BY <2>1, <2>2, <2>4
    <3> QED BY <1>4, <3>1
  <2> QED BY <2>2, <2>3, <2>4
<1> QED BY <1>6, <1>7

LEMMA ImageFinite ==
  ASSUME NEW S, IsFiniteSet(S), NEW f, f = [x \in S |-> f[x]]
  PROVE  IsFiniteSet({f[x] : x \in S})
<1> DEFINE T == {f[x] : x \in S}
<1>1. f \in Surjection(S, T)
  <2>1. f \in [S -> T]
    OBVIOUS
  <2> QED BY <2>1 DEF Surjection
<1> QED BY <1>1, FS_Surjection

LEMMA LastPosition ==
  ASSUME TasksOK, NEW s
  PROVE  /\ MaxTaskPosition(s) \in Nat
         /\ \A t \in TasksOf(s) : t.position <= MaxTaskPosition(s)
<1> DEFINE P == {t.position : t \in TasksOf(s)}
<1>1. IsFiniteSet(TasksOf(s))
  BY FS_Subset DEF TasksOK, TasksOf
<1>2. \A t \in TasksOf(s) : t.position \in Nat
  BY DEF TasksOK, TasksOf, TaskRow
<1>3. IsFiniteSet(P) /\ P \in SUBSET Nat
  <2> DEFINE f == [t \in TasksOf(s) |-> t.position]
  <2>1. IsFiniteSet({f[t] : t \in TasksOf(s)})
    BY <1>1, ImageFinite
  <2>2. P = {f[t] : t \in TasksOf(s)}
    OBVIOUS
  <2> QED BY <1>2, <2>1, <2>2
<1>4. CASE TasksOf(s) = {}
  BY <1>4 DEF MaxTaskPosition
<1>5. CASE TasksOf(s) # {}
  <2>1. P # {}
    BY <1>5
  <2>2. PICK n \in P : \A m \in P : m <= n
    BY <1>3, <2>1, FiniteMax
  <2>3. n \in P /\ \A t \in TasksOf(s) : t.position <= n
    BY <2>2
  <2>4. MaxTaskPosition(s) \in P /\ \A t \in TasksOf(s) : t.position <= MaxTaskPosition(s)
    BY <1>5, <2>3 DEF MaxTaskPosition
  <2> QED BY <1>3, <2>4
<1> QED BY <1>4, <1>5

LEMMA BeforeOrder ==
  ASSUME NEW x \in TaskRow, NEW y \in TaskRow, NEW z \in TaskRow
  PROVE  /\ ~Before(x, x)
         /\ Before(x, y) /\ Before(y, z) => Before(x, z)
         /\ x.id # y.id => Before(x, y) \/ Before(y, x)
<1>1. \A w \in TaskRow : w.id \in Nat /\ w.position \in Nat
  BY DetailsAssumption DEF TaskRow
<1>2. /\ x.id \in Nat /\ y.id \in Nat /\ z.id \in Nat
      /\ x.position \in Nat /\ y.position \in Nat /\ z.position \in Nat
  BY <1>1
<1> QED BY <1>2 DEF Before

\* The order among some tasks, by how many of them come before each.
LEMMA RankOrder ==
  ASSUME NEW S, S \subseteq TaskRow, IsFiniteSet(S), \A x, y \in S : x.id = y.id => x = y,
         NEW x \in S, NEW y \in S
  PROVE  LET rank(z) == Cardinality({w \in S : Before(w, z)})
         IN  /\ rank(x) \in Nat
             /\ Before(x, y) <=> rank(x) < rank(y)
<1> DEFINE under(z) == {w \in S : Before(w, z)}
           rank(z) == Cardinality(under(z))
<1>1. \A z \in S : IsFiniteSet(under(z)) /\ rank(z) \in Nat
  BY FS_Subset, FS_CardinalityType
<1>2. ASSUME NEW a \in S, NEW b \in S, Before(a, b)
      PROVE  rank(a) < rank(b)
  <2>1. under(a) \subseteq under(b)
    BY <1>2, BeforeOrder
  <2>2. a \in under(b) /\ a \notin under(a)
    BY <1>2, BeforeOrder
  <2> HIDE DEF under
  <2>3. /\ rank(a) <= rank(b)
        /\ rank(a) = rank(b) => under(a) = under(b)
    BY <1>1, <2>1, FS_Subset
  <2> QED BY <1>1, <2>2, <2>3
<1>3. Before(x, y) \/ Before(y, x) \/ x = y
  BY BeforeOrder
<1>4. rank(x) \in Nat /\ rank(y) \in Nat
  BY <1>1
<1> HIDE DEF rank
<1>5. Before(x, y) <=> rank(x) < rank(y)
  BY <1>2, <1>3, <1>4, BeforeOrder
<1> QED BY <1>4, <1>5 DEF rank

\* What MoveTask leaves: the moved task, the others of its list in their order,
\* and all other lists as they were.
LEMMA MoveTaskStep ==
  ASSUME TasksOK, NEW t \in tasks, NEW index \in Nat, MoveTask(t, index)
  PROVE  \E n \in Nat, place \in [TasksOf(t.story) \ {t} -> Nat] :
           /\ tasks' = {x \in tasks : x.story # t.story}
                       \cup {[x EXCEPT !.position = place[x]] : x \in TasksOf(t.story) \ {t}}
                       \cup {[t EXCEPT !.position = n]}
           /\ \A x, y \in TasksOf(t.story) \ {t} : Before(x, y) <=> place[x] < place[y]
<1> DEFINE others == TasksOf(t.story) \ {t}
           at == IF index > Cardinality(others) THEN Cardinality(others) ELSE index
           rank(x) == Cardinality({y \in others : Before(y, x)})
           place(x) == IF rank(x) < at THEN rank(x) + 1 ELSE rank(x) + 2
           p == [x \in others |-> place(x)]
<1>1. /\ IsFiniteSet(others) /\ others \subseteq TaskRow
      /\ \A x, y \in others : x.id = y.id => x = y
  BY FS_Subset DEF TasksOK, TasksOf
<1>2. at \in Nat
  BY <1>1, FS_CardinalityType
<1>3. tasks' = {x \in tasks : x.story # t.story}
               \cup {[x EXCEPT !.position = place(x)] : x \in others}
               \cup {[t EXCEPT !.position = at + 1]}
  BY DEF MoveTask
<1>4. {[x EXCEPT !.position = place(x)] : x \in others}
        = {[x EXCEPT !.position = p[x]] : x \in others}
  <2> HIDE DEF others, place
  <2> QED OBVIOUS
<1> HIDE DEF others, at
<1>5. ASSUME NEW x \in others, NEW y \in others
      PROVE  /\ rank(x) \in Nat /\ rank(y) \in Nat
             /\ Before(x, y) <=> rank(x) < rank(y)
  BY <1>1, RankOrder
<1> HIDE DEF rank
<1>6. \A x \in others : p[x] \in Nat
  BY <1>2, <1>5
<1>7. \A x, y \in others : Before(x, y) <=> p[x] < p[y]
  BY <1>2, <1>5
<1>8. p \in [others -> Nat]
  BY <1>6
<1> HIDE DEF p
<1>9. /\ at + 1 \in Nat
      /\ tasks' = {x \in tasks : x.story # t.story}
                  \cup {[x EXCEPT !.position = p[x]] : x \in others}
                  \cup {[t EXCEPT !.position = at + 1]}
  BY <1>2, <1>3, <1>4
<1> QED BY <1>7, <1>8, <1>9 DEF others

\* What TasksKeepTheirOrder says of a step.
OrderKept ==
  \A s \in Stories :
    /\ \E moved \in Task : \A t, x \in TasksOf(s) : \A u, y \in TasksOf(s)' :
         t.id = u.id /\ x.id = y.id /\ moved \notin {t.id, x.id} =>
           (Before(t, x) <=> Before(u, y))
    /\ \A u, y \in TasksOf(s)' :
         u.id \notin Ids(tasks) /\ y.id \in Ids(tasks) => Before(y, u)

LEMMA FewerTasks ==
  ASSUME TasksOK, tasks' \subseteq tasks, tasks' # tasks
  PROVE  OrderKept
<1>1. PICK t \in tasks : t \notin tasks'
  OBVIOUS
<1>2. t.id \in Task
  BY DEF TasksOK, TaskRow
<1>3. \A s : TasksOf(s)' \subseteq TasksOf(s) /\ TasksOf(s) \subseteq tasks
  BY DEF TasksOf
<1> QED BY <1>2, <1>3 DEF OrderKept, TasksOK, Ids

LEMMA AddTaskStep ==
  ASSUME TasksOK, NEW s \in Story, NEW id \in Task, AddTask(s, id)
  PROVE  OrderKept /\ TasksOK'
<1> DEFINE row == [id |-> id, story |-> s, position |-> MaxTaskPosition(s) + 1]
<1>1. /\ tasks' = tasks \cup {row} /\ id \notin Ids(tasks)
      /\ s \in Stories /\ Stories' = Stories
  BY DEF AddTask, Live, Stories
<1>2. /\ MaxTaskPosition(s) \in Nat
      /\ \A t \in TasksOf(s) : t.position <= MaxTaskPosition(s)
  BY LastPosition
<1>3. row \in TaskRow /\ row.id = id /\ row.story = s /\ row.position = MaxTaskPosition(s) + 1
  BY <1>2 DEF TaskRow
<1> HIDE DEF row
<1>4. \A t \in tasks : t.id # id /\ t.id \in Ids(tasks) /\ t \in TaskRow
  BY <1>1 DEF Ids, TasksOK
<1>5. TasksOK'
  BY <1>1, <1>3, <1>4, FS_AddElement DEF TasksOK
<1>6. \A q : /\ \A u \in TasksOf(q)' : u = row \/ u \in TasksOf(q)
             /\ TasksOf(q) \subseteq tasks
             /\ row \in TasksOf(q)' => q = s
  BY <1>1, <1>3 DEF TasksOf
<1>7. \A t \in TasksOf(s) : Before(t, row)
  BY <1>2, <1>3, <1>4, <1>6 DEF Before, TaskRow
<1>8. ASSUME NEW q \in Stories, NEW t \in TasksOf(q), NEW x \in TasksOf(q),
             NEW u \in TasksOf(q)', NEW y \in TasksOf(q)', t.id = u.id, x.id = y.id
      PROVE  Before(t, x) <=> Before(u, y)
  <2>1. t = u /\ x = y
    BY <1>3, <1>4, <1>6, <1>8 DEF TasksOK
  <2> QED BY <2>1
<1>9. ASSUME NEW q \in Stories, NEW u \in TasksOf(q)', NEW y \in TasksOf(q)',
             u.id \notin Ids(tasks), y.id \in Ids(tasks)
      PROVE  Before(y, u)
  <2>1. u = row /\ q = s /\ y \in TasksOf(s)
    BY <1>1, <1>3, <1>4, <1>6, <1>9
  <2> QED BY <1>7, <2>1
<1> QED BY <1>5, <1>8, <1>9 DEF OrderKept

LEMMA MoveTaskOrder ==
  ASSUME TasksOK, NEW t \in tasks, NEW index \in Nat, MoveTask(t, index)
  PROVE  OrderKept /\ TasksOK'
<1> DEFINE others == TasksOf(t.story) \ {t}
<1>1. PICK n \in Nat, place \in [others -> Nat] :
        /\ tasks' = {x \in tasks : x.story # t.story}
                    \cup {[x EXCEPT !.position = place[x]] : x \in others}
                    \cup {[t EXCEPT !.position = n]}
        /\ \A x, y \in others : Before(x, y) <=> place[x] < place[y]
  BY MoveTaskStep
<1> DEFINE moved == [t EXCEPT !.position = n]
           new(x) == [x EXCEPT !.position = place[x]]
<1>2. Stories' = Stories
  BY DEF MoveTask, Stories
<1>3. /\ tasks \subseteq TaskRow /\ IsFiniteSet(tasks)
      /\ \A x, y \in tasks : x.id = y.id => x = y
      /\ \A x \in tasks : x.story \in Stories
  BY DEF TasksOK
<1>4. \A x \in others : x \in tasks /\ x.story = t.story /\ x # t /\ x \in TaskRow
  BY <1>3 DEF TasksOf
<1>5. moved \in TaskRow /\ moved.id = t.id /\ moved.story = t.story
  BY <1>3 DEF TaskRow
<1>6. \A x \in others : /\ new(x) \in TaskRow /\ new(x).id = x.id /\ new(x).story = t.story
                        /\ new(x).position = place[x]
  BY <1>4 DEF TaskRow
<1>7. tasks' = {x \in tasks : x.story # t.story} \cup {new(x) : x \in others} \cup {moved}
  BY <1>1
<1> HIDE DEF moved, new
<1>8. ASSUME NEW u \in tasks'
      PROVE  \/ u \in tasks /\ u.story # t.story
             \/ \E x \in others : u = new(x)
             \/ u = moved
  BY <1>7
<1>9. \A u \in tasks' : /\ u \in TaskRow /\ u.story \in Stories
                        /\ \E x \in tasks : x.id = u.id /\ x.story = u.story
  BY <1>3, <1>4, <1>5, <1>6, <1>8
<1>10. ASSUME NEW u \in tasks', NEW y \in tasks', u.id = y.id
       PROVE  u = y
  <2>1. CASE u \in tasks /\ u.story # t.story
    BY <1>3, <1>4, <1>5, <1>6, <1>8, <1>10, <2>1
  <2>2. CASE u = moved
    BY <1>3, <1>4, <1>5, <1>6, <1>8, <1>10, <2>2
  <2>3. ASSUME NEW x \in others, u = new(x)
        PROVE  u = y
    <3>1. u.id = x.id /\ y.id = x.id /\ x \in tasks /\ x # t
      BY <1>4, <1>6, <1>10, <2>3
    <3>2. CASE \E z \in others : y = new(z)
      BY <1>3, <1>4, <1>6, <2>3, <3>1, <3>2
    <3>3. CASE y = moved
      BY <1>3, <1>5, <3>1, <3>3
    <3>4. CASE y \in tasks /\ y.story # t.story
      BY <1>3, <1>4, <3>1, <3>4
    <3> QED BY <1>8, <3>2, <3>3, <3>4
  <2> QED BY <1>8, <2>1, <2>2, <2>3
<1>11. IsFiniteSet(tasks')
  <2> DEFINE f == [x \in others |-> new(x)]
  <2>1. IsFiniteSet(others) /\ IsFiniteSet({x \in tasks : x.story # t.story})
    <3>1. others \subseteq tasks
      BY <1>4
    <3> QED BY <1>3, <3>1, FS_Subset
  <2>2. IsFiniteSet({f[x] : x \in others})
    <3> HIDE DEF others
    <3>1. f = [x \in others |-> f[x]]
      OBVIOUS
    <3> HIDE DEF f
    <3> QED BY <2>1, <3>1, ImageFinite
  <2>3. {f[x] : x \in others} = {new(x) : x \in others}
    OBVIOUS
  <2> HIDE DEF f, others
  <2>4. IsFiniteSet({x \in tasks : x.story # t.story} \cup {new(x) : x \in others})
    BY <2>1, <2>2, <2>3, FS_Union
  <2> QED BY <1>7, <2>4, FS_AddElement
<1>12. TasksOK'
  BY <1>2, <1>9, <1>10, <1>11 DEF TasksOK
<1>13. t.id \in Task
  BY <1>3 DEF TaskRow
<1>14. \A u \in tasks' : u.id \in Ids(tasks)
  BY <1>9 DEF Ids
<1>15. ASSUME NEW s \in Stories, NEW a \in TasksOf(s), NEW u \in TasksOf(s)', a.id = u.id, a.id # t.id
       PROVE  IF s = t.story THEN a \in others /\ u = new(a) ELSE u = a
  <2>1. a \in tasks /\ a.story = s /\ u \in tasks' /\ u.story = s
    BY DEF TasksOf
  <2>2. CASE s = t.story
    <3>1. a \in others
      BY <1>15, <2>1, <2>2 DEF TasksOf
    <3>2. PICK x \in others : u = new(x)
      BY <1>5, <1>8, <1>15, <2>1, <2>2
    <3>3. x = a
      BY <1>3, <1>4, <1>6, <1>15, <2>1, <3>2
    <3> QED BY <2>2, <3>1, <3>2, <3>3
  <2>3. CASE s # t.story
    <3>1. u \in tasks
      BY <1>5, <1>6, <1>8, <2>1, <2>3
    <3> QED BY <1>3, <1>15, <2>1, <2>3, <3>1
  <2> QED BY <2>2, <2>3
<1>16. ASSUME NEW s \in Stories, NEW a \in TasksOf(s), NEW b \in TasksOf(s),
              NEW u \in TasksOf(s)', NEW v \in TasksOf(s)',
              a.id = u.id, b.id = v.id, t.id \notin {a.id, b.id}
       PROVE  Before(a, b) <=> Before(u, v)
  <2>1. CASE s # t.story
    BY <1>15, <1>16, <2>1
  <2>2. CASE s = t.story
    <3>1. a \in others /\ b \in others /\ u = new(a) /\ v = new(b)
      BY <1>15, <1>16, <2>2
    <3>2. Before(a, b) <=> place[a] < place[b]
      BY <1>1, <3>1
    <3>3. Before(b, a) <=> place[b] < place[a]
      BY <1>1, <3>1
    <3>4. a \in TaskRow /\ b \in TaskRow /\ (a.id = b.id => a = b)
      BY <1>3, <1>4, <3>1
    <3>5. /\ u.id = a.id /\ v.id = b.id /\ u.position = place[a] /\ v.position = place[b]
          /\ place[a] \in Nat /\ place[b] \in Nat
      BY <1>6, <3>1
    <3>6. a.id # b.id => Before(a, b) \/ Before(b, a)
      BY <3>4, BeforeOrder
    <3>7. a = b => ~Before(a, b) /\ ~Before(u, v)
      BY <3>1, <3>4, <1>6, BeforeOrder
    <3>8. CASE a # b
      <4>1. place[a] # place[b]
        BY <3>2, <3>3, <3>4, <3>5, <3>6, <3>8
      <4>2. Before(u, v) <=> place[a] < place[b]
        BY <3>5, <4>1 DEF Before
      <4> QED BY <3>2, <4>2
    <3> QED BY <3>7, <3>8
  <2> QED BY <2>1, <2>2
<1>17. \A s : \A u \in TasksOf(s)' : u \in tasks'
  BY DEF TasksOf
<1> QED BY <1>12, <1>13, <1>14, <1>16, <1>17 DEF OrderKept

LEMMA TasksStep ==
  ASSUME IInv, Next
  PROVE  TasksOK' /\ (tasks' # tasks => OrderKept)
<1>0. StoriesOK /\ TasksOK
  BY DEF IInv
<1>1. ASSUME NEW s \in Story, NEW id \in Task, AddTask(s, id)
      PROVE  TasksOK' /\ OrderKept
  BY <1>0, <1>1, AddTaskStep
<1>2. ASSUME NEW t \in tasks, NEW index \in 0..MaxPosition, MoveTask(t, index)
      PROVE  TasksOK' /\ OrderKept
  <2>1. index \in Nat
    BY DetailsAssumption
  <2> QED BY <1>0, <1>2, <2>1, MoveTaskOrder
<1>3. ASSUME NEW t \in tasks, DeleteTask(t)
      PROVE  TasksOK' /\ (tasks' # tasks => OrderKept)
  <2>1. tasks' = tasks \ {t} /\ Stories' = Stories
    BY <1>3 DEF DeleteTask, Stories
  <2>2. TasksOK'
    BY <1>0, <2>1, FS_RemoveElement DEF TasksOK
  <2> QED BY <1>0, <2>1, <2>2, FewerTasks
<1>4. ASSUME NEW gone, DropStories(gone)
      PROVE  TasksOK' /\ (tasks' # tasks => OrderKept)
  <2>1. tasks' = {t \in tasks : t.story \notin gone} /\ Stories' = Stories \ gone
    BY <1>0, <1>4, DropStoriesStep DEF DropStories
  <2>2. tasks' \subseteq tasks /\ \A t \in tasks' : t.story \notin gone
    BY <2>1
  <2>3. IsFiniteSet(tasks')
    BY <1>0, <2>2, FS_Subset DEF TasksOK
  <2>4. TasksOK'
    BY <1>0, <2>1, <2>2, <2>3 DEF TasksOK
  <2> QED BY <1>0, <2>2, <2>4, FewerTasks
<1>5. ASSUME tasks' = tasks, Stories \subseteq Stories'
      PROVE  TasksOK' /\ tasks' = tasks
  BY <1>0, <1>5 DEF TasksOK
<1>6. ASSUME NEW s \in Story, NEW p \in Project, NEW names, CreateStory(s, p, names)
      PROVE  tasks' = tasks /\ Stories \subseteq Stories'
  <2>1. tasks' = tasks
    BY <1>6 DEF CreateStory
  <2>2. Stories \subseteq Stories'
    BY <1>0, <1>6, CreateStoryStep
  <2> QED BY <2>1, <2>2
<1>7. ASSUME NEW s, Delete(s) \/ Restore(s)
      PROVE  tasks' = tasks /\ Stories \subseteq Stories'
  <2>1. PICK trashed \in BOOLEAN : SetTrashed(s, trashed)
    BY <1>7 DEF Delete, Restore
  <2>2. tasks' = tasks
    BY <2>1 DEF SetTrashed
  <2>3. Stories \subseteq Stories'
    BY <1>0, <2>1, SetTrashedStep
  <2> QED BY <2>2, <2>3
<1>8. ASSUME UNCHANGED <<story, tasks>>
      PROVE  tasks' = tasks /\ Stories \subseteq Stories'
  BY <1>8 DEF Stories
<1>9. ASSUME NEW old, Purge(old)
      PROVE  DropStories(old)
  BY <1>9 DEF Purge
<1>10. ASSUME NEW p, DeleteProject(p)
       PROVE  DropStories({s \in Stories : story[s].project = p})
  BY <1>10 DEF DeleteProject
<1>11. \/ \E s \in Story, id \in Task : AddTask(s, id)
       \/ \E t \in tasks : DeleteTask(t) \/ \E index \in 0..MaxPosition : MoveTask(t, index)
       \/ \E old \in SUBSET Stories : Purge(old)
       \/ \E p \in Project : DeleteProject(p)
       \/ \E s \in Story, p \in Project, names \in SUBSET Name : CreateStory(s, p, names)
       \/ \E s \in Story : Delete(s) \/ Restore(s)
       \/ UNCHANGED <<story, tasks>>
  BY DEF Next, Relabel, CreateEpic, UpdateEpic, DemoteEpic, AddComment, DeleteComment,
         CreateComment, DropComment, SaveFilter, DeleteFilter, CreateProject
<1> QED BY <1>1, <1>2, <1>3, <1>4, <1>5, <1>6, <1>7, <1>8, <1>9, <1>10, <1>11

-----------------------------------------------------------------------------
(* Comments, filters and requests *)

LEMMA CommentsStep ==
  ASSUME IInv, Next
  PROVE  CommentsOK' /\ RequestsOK'
<1>0. StoriesOK /\ CommentsOK /\ RequestsOK
  BY DEF IInv
<1>1. ASSUME NEW r \in Request, CreateComment(r)
      PROVE  CommentsOK' /\ RequestsOK'
  <2>1. Stories' = Stories /\ request[r] \in RequestRow /\ request[r].at = "add"
    BY <1>0, <1>1 DEF CreateComment, Stories, RequestsOK
  <2>2. RequestsOK'
    BY <1>0, <1>1 DEF CreateComment, RequestsOK, RequestRow, Idle
  <2>3. CASE request[r].story \in Stories
    <3>1. PICK id \in Comment \ Ids(comments) :
            comments' = comments \cup
              {[id |-> id, story |-> request[r].story, user |-> request[r].user]}
      BY <1>1, <2>3 DEF CreateComment
    <3>2. request[r].user \in User
      BY <1>0, <2>1 DEF RequestsOK
    <3>3. [id |-> id, story |-> request[r].story, user |-> request[r].user] \in CommentRow
      BY <1>0, <2>3, <3>2 DEF StoriesOK, CommentRow
    <3> QED BY <1>0, <2>1, <2>2, <2>3, <3>1, <3>3 DEF CommentsOK
  <2>4. CASE request[r].story \notin Stories
    BY <1>0, <1>1, <2>1, <2>2, <2>4 DEF CreateComment, CommentsOK
  <2> QED BY <2>3, <2>4
<1>2. ASSUME NEW r \in Request, DropComment(r)
      PROVE  CommentsOK' /\ RequestsOK'
  <2>1. Stories' = Stories /\ comments' \subseteq comments
    BY <1>2 DEF DropComment, Stories
  <2>2. RequestsOK'
    BY <1>0, <1>2 DEF DropComment, RequestsOK, RequestRow, Idle
  <2> QED BY <1>0, <2>1, <2>2 DEF CommentsOK
<1>3. ASSUME NEW r \in Request, NEW u \in User, NEW s \in Story, AddComment(r, s, u)
      PROVE  CommentsOK' /\ RequestsOK'
  <2>1. Stories' = Stories /\ comments' = comments
    BY <1>3 DEF AddComment, Stories
  <2>2. [Idle EXCEPT !.at = "add", !.story = s, !.user = u] \in RequestRow
    BY DEF Idle, RequestRow
  <2>3. RequestsOK'
    BY <1>0, <1>3, <2>2 DEF AddComment, RequestsOK
  <2> QED BY <1>0, <2>1, <2>3 DEF CommentsOK
<1>4. ASSUME NEW r \in Request, NEW u \in User, NEW c \in comments, DeleteComment(r, c, u)
      PROVE  CommentsOK' /\ RequestsOK'
  <2>1. Stories' = Stories /\ comments' = comments
    BY <1>4 DEF DeleteComment, Stories
  <2>2. c.id \in Comment
    BY <1>0 DEF CommentsOK, CommentRow
  <2>3. [Idle EXCEPT !.at = "delete", !.comment = c.id, !.user = u] \in RequestRow
    BY <2>2 DEF Idle, RequestRow
  <2>4. RequestsOK'
    BY <1>0, <1>4, <2>3 DEF DeleteComment, RequestsOK
  <2> QED BY <1>0, <2>1, <2>4 DEF CommentsOK
<1>5. ASSUME NEW gone, DropStories(gone), request' = request
      PROVE  CommentsOK' /\ RequestsOK'
  <2>1. comments' = {c \in comments : c.story \notin gone} /\ Stories' = Stories \ gone
    BY <1>0, <1>5, DropStoriesStep DEF DropStories
  <2> QED BY <1>0, <1>5, <2>1 DEF CommentsOK, RequestsOK
<1>6. ASSUME comments' = comments, request' = request, Stories \subseteq Stories'
      PROVE  CommentsOK' /\ RequestsOK'
  BY <1>0, <1>6 DEF CommentsOK, RequestsOK
<1>7. ASSUME NEW s \in Story, NEW p \in Project, NEW names, CreateStory(s, p, names)
      PROVE  comments' = comments /\ request' = request /\ Stories \subseteq Stories'
  <2>1. comments' = comments /\ request' = request
    BY <1>7 DEF CreateStory
  <2>2. Stories \subseteq Stories'
    BY <1>0, <1>7, CreateStoryStep
  <2> QED BY <2>1, <2>2
<1>8. ASSUME NEW s, Delete(s) \/ Restore(s)
      PROVE  comments' = comments /\ request' = request /\ Stories \subseteq Stories'
  <2>1. PICK trashed \in BOOLEAN : SetTrashed(s, trashed)
    BY <1>8 DEF Delete, Restore
  <2>2. comments' = comments /\ request' = request
    BY <2>1 DEF SetTrashed
  <2>3. Stories \subseteq Stories'
    BY <1>0, <2>1, SetTrashedStep
  <2> QED BY <2>2, <2>3
<1>9. ASSUME UNCHANGED <<story, comments, request>>
      PROVE  comments' = comments /\ request' = request /\ Stories \subseteq Stories'
  BY <1>9 DEF Stories
<1>10. ASSUME NEW old, Purge(old)
       PROVE  DropStories(old) /\ request' = request
  BY <1>10 DEF Purge
<1>11. ASSUME NEW p, DeleteProject(p)
       PROVE  DropStories({s \in Stories : story[s].project = p}) /\ request' = request
  BY <1>11 DEF DeleteProject
<1>12. \/ \E r \in Request :
            \/ \E u \in User, s \in Story : AddComment(r, s, u)
            \/ \E u \in User, c \in comments : DeleteComment(r, c, u)
            \/ CreateComment(r) \/ DropComment(r)
       \/ \E old \in SUBSET Stories : Purge(old)
       \/ \E p \in Project : DeleteProject(p)
       \/ \E s \in Story, p \in Project, names \in SUBSET Name : CreateStory(s, p, names)
       \/ \E s \in Story : Delete(s) \/ Restore(s)
       \/ UNCHANGED <<story, comments, request>>
  BY DEF Next, Relabel, CreateEpic, UpdateEpic, DemoteEpic, AddTask, DeleteTask, MoveTask,
         SaveFilter, DeleteFilter, CreateProject
<1> QED BY <1>1, <1>2, <1>3, <1>4, <1>5, <1>6, <1>7, <1>8, <1>9, <1>10, <1>11, <1>12

LEMMA FewerFilters ==
  ASSUME FiltersOK, NEW F, F \subseteq filters
  PROVE  /\ IsFiniteSet(F)
         /\ \A u \in User, p \in Project :
              Cardinality({f \in F : f.user = u /\ f.project = p}) <= FilterLimit
<1>1. IsFiniteSet(F)
  BY FS_Subset DEF FiltersOK
<1>2. ASSUME NEW u \in User, NEW p \in Project
      PROVE  Cardinality({f \in F : f.user = u /\ f.project = p}) <= FilterLimit
  <2> DEFINE A == {f \in F : f.user = u /\ f.project = p}
  <2>1. A \subseteq FiltersOf(u, p) /\ FiltersOf(u, p) \subseteq filters
    BY DEF FiltersOf
  <2>2. IsFiniteSet(FiltersOf(u, p))
    BY <2>1, FS_Subset DEF FiltersOK
  <2> HIDE DEF A
  <2>3. IsFiniteSet(A) /\ Cardinality(A) <= Cardinality(FiltersOf(u, p))
    BY <2>1, <2>2, FS_Subset
  <2>4. Cardinality(A) \in Nat /\ Cardinality(FiltersOf(u, p)) \in Nat /\ FilterLimit \in Nat
    BY <2>2, <2>3, FS_CardinalityType, DetailsAssumption
  <2>5. Cardinality(A) <= FilterLimit
    BY <2>3, <2>4 DEF FiltersOK
  <2> QED BY <2>5 DEF A
<1> QED BY <1>1, <1>2

LEMMA SaveFilterStep ==
  ASSUME FiltersOK, NEW u \in User, NEW p \in Project, NEW n \in Name, SaveFilter(u, p, n)
  PROVE  FiltersOK'
<1> DEFINE row == [user |-> u, project |-> p, name |-> n]
<1>1. /\ projects' = projects /\ p \in projects
      /\ Cardinality(FiltersOf(u, p)) < FilterLimit
      /\ filters' = filters \cup {row}
  BY DEF SaveFilter, FiltersOf
<1>2. row \in FilterRow /\ row.user = u /\ row.project = p
  BY DEF FilterRow
<1> HIDE DEF row
<1>3. IsFiniteSet(filters')
  BY <1>1, FS_AddElement DEF FiltersOK
<1>4. ASSUME NEW v \in User, NEW q \in Project
      PROVE  Cardinality(FiltersOf(v, q)') <= FilterLimit
  <2>1. IsFiniteSet(FiltersOf(v, q))
    BY FS_Subset DEF FiltersOK, FiltersOf
  <2>2. CASE v = u /\ q = p
    <3>1. FiltersOf(v, q)' = FiltersOf(v, q) \cup {row}
      BY <1>1, <1>2, <2>2 DEF FiltersOf
    <3>2. Cardinality(FiltersOf(v, q) \cup {row}) <= Cardinality(FiltersOf(v, q)) + 1
      <4>1. Cardinality(FiltersOf(v, q)) \in Nat
        BY <2>1, FS_CardinalityType
      <4>2. Cardinality(FiltersOf(v, q) \cup {row}) =
              IF row \in FiltersOf(v, q) THEN Cardinality(FiltersOf(v, q))
              ELSE Cardinality(FiltersOf(v, q)) + 1
        BY <2>1, FS_AddElement
      <4> QED BY <4>1, <4>2
    <3>3. Cardinality(FiltersOf(v, q)) \in Nat /\ Cardinality(FiltersOf(v, q) \cup {row}) \in Nat
      BY <2>1, FS_CardinalityType, FS_AddElement
    <3> QED BY <1>1, <2>2, <3>1, <3>2, <3>3, DetailsAssumption
  <2>3. CASE ~(v = u /\ q = p)
    <3>1. FiltersOf(v, q)' = FiltersOf(v, q)
      BY <1>1, <1>2, <2>3 DEF FiltersOf
    <3> QED BY <3>1 DEF FiltersOK
  <2> QED BY <2>2, <2>3
<1>5. filters' \subseteq FilterRow /\ \A f \in filters' : f.project \in projects'
  BY <1>1, <1>2 DEF FiltersOK
<1> QED BY <1>3, <1>4, <1>5 DEF FiltersOK

LEMMA FiltersStep ==
  ASSUME IInv, Next
  PROVE  FiltersOK'
<1>0. FiltersOK
  BY DEF IInv
<1>1. ASSUME NEW u \in User, NEW p \in Project, NEW n \in Name, SaveFilter(u, p, n)
      PROVE  FiltersOK'
  BY <1>0, <1>1, SaveFilterStep
<1>2. ASSUME filters' \subseteq filters, \A f \in filters' : f.project \in projects'
      PROVE  FiltersOK'
  <2>1. /\ IsFiniteSet(filters')
        /\ \A u \in User, p \in Project : Cardinality(FiltersOf(u, p)') <= FilterLimit
    BY <1>0, <1>2, FewerFilters DEF FiltersOf
  <2> QED BY <1>0, <1>2, <2>1 DEF FiltersOK
<1>3. ASSUME NEW u, NEW f, DeleteFilter(u, f)
      PROVE  filters' \subseteq filters /\ projects' = projects
  BY <1>3 DEF DeleteFilter
<1>4. ASSUME NEW p, CreateProject(p)
      PROVE  filters' = filters /\ projects \subseteq projects'
  BY <1>4 DEF CreateProject
<1>5. ASSUME NEW p, DeleteProject(p)
      PROVE  filters' = {f \in filters : f.project # p} /\ projects' = projects \ {p}
  BY <1>5 DEF DeleteProject
<1>6. \A f \in filters : f.project \in projects
  BY <1>0 DEF FiltersOK
<1>7. \/ \E u \in User, p \in Project, n \in Name : SaveFilter(u, p, n)
      \/ \E u \in User, f \in filters : DeleteFilter(u, f)
      \/ \E p \in Project : CreateProject(p) \/ DeleteProject(p)
      \/ UNCHANGED <<projects, filters>>
  BY DEF Next, Relabel, CreateStory, CreateEpic, UpdateEpic, DemoteEpic, AddTask, DeleteTask,
         MoveTask, AddComment, DeleteComment, CreateComment, DropComment, Delete, Restore,
         SetTrashed, Purge
<1> QED BY <1>1, <1>2, <1>3, <1>4, <1>5, <1>6, <1>7

-----------------------------------------------------------------------------

LEMMA InitInv ==
  Init => IInv
<1> SUFFICES ASSUME Init PROVE IInv
  OBVIOUS
<1>1. Stories = {} /\ story = <<>>
  BY DEF Init, Stories
<1>2. StoriesOK
  BY <1>1 DEF Init, StoriesOK
<1>3. LabelsOK
  BY <1>1 DEF Init, LabelsOK, LabelsInUse
<1>4. TasksOK /\ CommentsOK
  BY FS_EmptySet DEF Init, TasksOK, CommentsOK
<1>5. FiltersOK
  <2>1. \A u \in User, p \in Project : FiltersOf(u, p) = {}
    BY DEF Init, FiltersOf
  <2>2. IsFiniteSet({}) /\ 0 <= FilterLimit /\ Cardinality({}) = 0
    BY FS_EmptySet, DetailsAssumption
  <2> QED BY <2>1, <2>2 DEF Init, FiltersOK
<1>6. RequestsOK
  BY DEF Init, RequestsOK, RequestRow, Idle
<1> QED BY <1>2, <1>3, <1>4, <1>5, <1>6 DEF IInv

LEMMA StepInv ==
  ASSUME IInv, [Next]_vars
  PROVE  IInv'
<1>1. CASE Next
  BY <1>1, StoriesStep, LabelsStep, TasksStep, CommentsStep, FiltersStep DEF IInv
<1>2. CASE UNCHANGED vars
  BY <1>2 DEF vars, IInv, StoriesOK, Stories, LabelsOK, LabelsInUse, Ids, LabelRow, TasksOK,
       CommentsOK, FiltersOK, FiltersOf, RequestsOK
<1> QED BY <1>1, <1>2

THEOREM Inductive ==
  Spec => []IInv
<1>1. Init => IInv
  BY InitInv
<1>2. IInv /\ [Next]_vars => IInv'
  BY StepInv
<1> QED BY <1>1, <1>2, PTL DEF Spec

\* No label, task, comment or filter outlives the story or project it hangs on,
\* and nobody saves more filters than the limit, whatever is purged or deleted
\* between the statements of a request about a comment.
THEOREM NothingDangles ==
  Spec => []TypeOK
<1>1. IInv => TypeOK
  BY Consequences
<1> QED BY <1>1, Inductive, PTL

\* Every plain label is on some story of its project, and no two have a name.
THEOREM LabelsAreUsed ==
  Spec => []LabelsInUse
<1>1. IInv => LabelsInUse
  BY Consequences
<1> QED BY <1>1, Inductive, PTL

\* Moving, adding and deleting tasks never reorders the others.
THEOREM ChecklistKeepsOrder ==
  Spec => TasksKeepTheirOrder
<1>1. ASSUME IInv, [Next]_vars
      PROVE  [OrderKept]_tasks
  BY <1>1, TasksStep DEF vars
<1>2. ASSUME IInv, [Next]_vars
      PROVE  [\A s \in Stories :
                /\ \E moved \in Task : \A t, x \in TasksOf(s) : \A u, y \in TasksOf(s)' :
                     t.id = u.id /\ x.id = y.id /\ moved \notin {t.id, x.id} =>
                       (Before(t, x) <=> Before(u, y))
                /\ \A u, y \in TasksOf(s)' :
                     u.id \notin Ids(tasks) /\ y.id \in Ids(tasks) => Before(y, u)]_tasks
  BY <1>1, <1>2 DEF OrderKept
<1> QED BY <1>2, Inductive, PTL DEF Spec, TasksKeepTheirOrder

-----------------------------------------------------------------------------
(* Planning: midnights *)

\* Every non-empty set of natural numbers has a least one.
LEMMA LeastOf ==
  ASSUME NEW T \in SUBSET Nat, T # {}
  PROVE  \E x \in T : \A y \in T : x <= y
<1>1. PICK x \in T : \A y \in T : <<y, x>> \notin OpToRel(<, Nat)
  BY NatLessThanWellFounded, WFMin, Zenon
<1>2. \A y \in T : ~(y < x)
  BY <1>1, Zenon DEF OpToRel
<1>3. QED
  BY <1>2

\* A multiple is no less.
LEMMA Multiply ==
  ASSUME NEW a \in Nat, NEW b \in Nat, a >= 1
  PROVE  a * b >= b /\ a * b \in Nat
<1>1. (a - 1) * b \in Nat
  OBVIOUS
<1>2. a * b = (a - 1) * b + b
  OBVIOUS
<1>3. QED
  BY <1>1, <1>2

\* A time zone may have any finite number of days that are short or long.
IsZone(z) == /\ IsFiniteSet(z.short) /\ z.short \subseteq Int
             /\ IsFiniteSet(z.long) /\ z.long \subseteq Int

\* The days of a finite set before a day: at most one more with each day.
LEMMA EarlierGrow ==
  ASSUME NEW S, IsFiniteSet(S), S \subseteq Int, NEW d \in Int, NEW e \in Int, d <= e
  PROVE  LET A == Cardinality({x \in S : x < d})
             B == Cardinality({x \in S : x < e})
         IN  A \in Nat /\ B \in Nat /\ A <= B /\ B <= A + (e - d)
<1> DEFINE SA == {x \in S : x < d}
           SB == {x \in S : x < e}
           SD == {x \in S : d <= x /\ x < e}
<1>0. \A x \in S : x \in Int
  OBVIOUS
<1>2. SB = SA \cup SD /\ SA \cap SD = {}
  <2>1. \A x \in S : /\ x < e <=> x < d \/ (d <= x /\ x < e)
                     /\ ~(x < d /\ d <= x)
    BY <1>0
  <2>2. QED
    BY <2>1, Zenon
<1>1. IsFiniteSet(SA) /\ IsFiniteSet(SB) /\ IsFiniteSet(SD) /\ SA \subseteq SB
  <2>1. SA \subseteq S /\ SB \subseteq S /\ SD \subseteq S
    OBVIOUS
  <2>2. QED
    BY <1>2, <2>1, FS_Subset
<1>3. Cardinality(SB) = Cardinality(SA) + Cardinality(SD) - Cardinality(SA \cap SD)
  BY <1>1, <1>2, FS_Union
<1>4. Cardinality(SA \cap SD) = 0
  BY <1>2, FS_EmptySet
<1>5. Cardinality(SD) <= e - d
  <2>1. SD \subseteq d..(e - 1)
    <3>1. \A x \in S : d <= x /\ x < e => x \in d..(e - 1)
      BY <1>0
    <3>2. QED
      BY <3>1, Zenon
  <2>2. IsFiniteSet(d..(e - 1)) /\ Cardinality(d..(e - 1)) = e - d
    <3>1. e - 1 \in Int
      OBVIOUS
    <3>2. /\ IsFiniteSet(d..(e - 1))
          /\ Cardinality(d..(e - 1)) = IF d > e - 1 THEN 0 ELSE (e - 1) - d + 1
      BY <3>1, FS_Interval
    <3>3. QED
      BY <3>2
  <2>3. QED
    BY <2>1, <2>2, FS_Subset
<1>6. Cardinality(SA) \in Nat /\ Cardinality(SB) \in Nat /\ Cardinality(SD) \in Nat
  BY <1>1, FS_CardinalityType
<1> HIDE DEF SA, SB, SD
<1>7. QED
  BY <1>3, <1>4, <1>5, <1>6 DEF SA, SB

\* A day takes some time, whatever the clocks do.
LEMMA MidnightsGrow ==
  ASSUME NEW z, IsZone(z), NEW d \in Int, NEW e \in Int, d <= e
  PROVE  /\ Midnight(z, d) \in Int /\ Midnight(z, e) \in Int
         /\ Midnight(z, d) + (e - d) <= Midnight(z, e)
<1> DEFINE A == Cardinality({x \in z.short : x < d})
           B == Cardinality({x \in z.short : x < e})
           C == Cardinality({x \in z.long : x < d})
           E == Cardinality({x \in z.long : x < e})
           k == e - d
<1>1. A \in Nat /\ B \in Nat /\ B <= A + k
  BY EarlierGrow DEF IsZone
<1>2. C \in Nat /\ E \in Nat /\ C <= E
  BY EarlierGrow DEF IsZone
<1>3. Midnight(z, d) = d * DayLength - A + C /\ Midnight(z, e) = e * DayLength - B + E
  BY DEF Midnight
<1> HIDE DEF A, B, C, E
<1>4. DayLength \in Nat /\ DayLength >= 2
  BY PlanningAssumption
<1>5. k \in Nat /\ e = d + k
  OBVIOUS
<1>6. e * DayLength = d * DayLength + k * DayLength
  BY <1>4, <1>5
<1>7. k * DayLength >= k + k
  <2>1. (DayLength - 1) * k >= k
    BY <1>4, <1>5, Multiply
  <2>2. k * DayLength = (DayLength - 1) * k + k
    BY <1>4, <1>5
  <2>3. (DayLength - 1) * k \in Int
    BY <1>4, <1>5
  <2>4. QED
    BY <1>5, <2>1, <2>2, <2>3
<1> HIDE DEF k
<1>8. d * DayLength \in Int /\ e * DayLength \in Int /\ k * DayLength \in Int
  BY <1>4, <1>5
<1>9. QED
  BY <1>1, <1>2, <1>3, <1>5, <1>6, <1>7, <1>8 DEF k

-----------------------------------------------------------------------------
(* Planning: iterations *)

\* The settings of a project whose day of creation is known.
IsSettings(s) ==
  /\ IsZone(s.zone) /\ s.length \in Int /\ s.weekday \in Int /\ s.anchor \in Int
  /\ \E d \in Days : Midnight(s.zone, d) <= s.anchor /\ s.anchor < Midnight(s.zone, d + 1)

\* Iteration 1 begins on the day of creation or up to a week before.
LEMMA OriginBeforeAnchor ==
  ASSUME NEW s, IsSettings(s)
  PROVE  /\ origin(s) \in Int
         /\ Midnight(s.zone, origin(s)) <= s.anchor
         /\ s.anchor < Midnight(s.zone, origin(s) + WeekLength)
<1> DEFINE a    == DayOf(s.zone, s.anchor)
           back == ((a % WeekLength) - s.weekday + WeekLength) % WeekLength
<1>1. /\ a \in Days
      /\ Midnight(s.zone, a) <= s.anchor /\ s.anchor < Midnight(s.zone, a + 1)
  BY DEF IsSettings, DayOf
<1>2. origin(s) = a - back
  BY DEF origin
<1> HIDE DEF a
<1>3. a \in Int /\ WeekLength \in Nat \ {0}
  BY <1>1, PlanningAssumption
<1>4. s.weekday \in Int /\ IsZone(s.zone)
  BY DEF IsSettings
<1>5. a % WeekLength \in Int
  BY <1>3
<1>6. back \in 0..(WeekLength - 1)
  BY <1>3, <1>4, <1>5
<1> HIDE DEF back
<1>7. /\ origin(s) \in Int /\ origin(s) <= a
      /\ a + 1 \in Int /\ origin(s) + WeekLength \in Int /\ a + 1 <= origin(s) + WeekLength
  BY <1>2, <1>3, <1>6
<1>8. Midnight(s.zone, origin(s)) + (a - origin(s)) <= Midnight(s.zone, a)
      /\ Midnight(s.zone, origin(s)) \in Int /\ Midnight(s.zone, a) \in Int
  BY <1>3, <1>4, <1>7, MidnightsGrow
<1> DEFINE b == a + 1
           w == origin(s) + WeekLength
<1>9. /\ Midnight(s.zone, b) \in Int /\ Midnight(s.zone, w) \in Int
      /\ Midnight(s.zone, b) + (w - b) <= Midnight(s.zone, w) /\ w - b >= 0
  <2>1. b \in Int /\ w \in Int /\ b <= w
    BY <1>7
  <2> HIDE DEF b, w
  <2>2. QED
    BY <1>4, <2>1, MidnightsGrow
<1>10. s.anchor \in Int
  BY DEF IsSettings
<1>11. QED
  BY <1>1, <1>3, <1>7, <1>8, <1>9, <1>10

LEMMA LengthPositive ==
  ASSUME NEW s, IsSettings(s)
  PROVE  length(s) \in Nat /\ length(s) >= 1
BY PlanningAssumption DEF length, IsSettings

\* Iterations follow each other without a gap, and each takes some time.
LEMMA IterationsFollow ==
  ASSUME NEW s, IsSettings(s), NEW n \in Int, NEW m \in Int, n <= m
  PROVE  /\ Number(s, n).number = n
         /\ Number(s, n).start \in Int /\ Number(s, m).start \in Int
         /\ Number(s, n).start + (m - n) <= Number(s, m).start
         /\ Number(s, n).end = Number(s, n + 1).start
<1> DEFINE o == origin(s)
           l == length(s)
<1>1. o \in Int /\ l \in Nat /\ l >= 1 /\ IsZone(s.zone)
  BY OriginBeforeAnchor, LengthPositive DEF IsSettings
<1>2. /\ Number(s, n).start = Midnight(s.zone, o + (n - 1) * l)
      /\ Number(s, m).start = Midnight(s.zone, o + (m - 1) * l)
      /\ Number(s, n).end = Midnight(s.zone, o + n * l)
      /\ Number(s, n + 1).start = Midnight(s.zone, o + ((n + 1) - 1) * l)
      /\ Number(s, n).number = n
  BY DEF Number
<1> HIDE DEF o, l
<1>3. (m - n) * l >= m - n
  <2>1. m - n \in Nat
    OBVIOUS
  <2>2. l * (m - n) >= m - n
    BY <1>1, <2>1, Multiply
  <2>3. QED
    BY <1>1, <2>1, <2>2
<1>4. (m - 1) * l = (n - 1) * l + (m - n) * l
  BY <1>1
<1>5. (n - 1) * l \in Int /\ (m - 1) * l \in Int /\ (m - n) * l \in Int
  BY <1>1
<1>6. /\ o + (n - 1) * l \in Int /\ o + (m - 1) * l \in Int
      /\ o + (n - 1) * l <= o + (m - 1) * l
      /\ (o + (m - 1) * l) - (o + (n - 1) * l) >= m - n
  BY <1>1, <1>3, <1>4, <1>5
<1>7. /\ Midnight(s.zone, o + (n - 1) * l) \in Int
      /\ Midnight(s.zone, o + (m - 1) * l) \in Int
      /\ Midnight(s.zone, o + (n - 1) * l) + ((o + (m - 1) * l) - (o + (n - 1) * l))
           <= Midnight(s.zone, o + (m - 1) * l)
  BY <1>1, <1>6, MidnightsGrow
<1>8. (n + 1) - 1 = n
  OBVIOUS
<1>9. QED
  BY <1>2, <1>5, <1>6, <1>7, <1>8

\* Every time from the first iteration on is in one.
LEMMA SomeIteration ==
  ASSUME NEW s, IsSettings(s), NEW t \in Int, t >= Number(s, 1).start
  PROVE  \E n \in Nat \ {0} : Number(s, n).start <= t /\ t < Number(s, n).end
<1> DEFINE Later == {k \in Nat : t < Number(s, k + 1).start}
<1>1. Number(s, 1).start \in Int
  BY IterationsFollow
<1>2. t - Number(s, 1).start + 1 \in Later
  <2> DEFINE k == t - Number(s, 1).start + 1
  <2>1. k \in Nat /\ k + 1 \in Int /\ 1 <= k + 1
    BY <1>1
  <2> HIDE DEF k
  <2>2. Number(s, 1).start + (k + 1 - 1) <= Number(s, k + 1).start /\ Number(s, k + 1).start \in Int
    BY <2>1, IterationsFollow
  <2>3. Number(s, 1).start + k > t
    BY <1>1 DEF k
  <2>4. t < Number(s, k + 1).start
    BY <1>1, <2>1, <2>2, <2>3
  <2>5. QED
    BY <2>1, <2>4 DEF k
<1>3. PICK k \in Later : \A j \in Later : k <= j
  <2> HIDE DEF Later
  <2>1. Later \in SUBSET Nat
    BY DEF Later
  <2>2. QED
    BY <1>2, <2>1, LeastOf
<1>4. k \in Nat /\ t < Number(s, k + 1).start
  OBVIOUS
<1>5. k # 0
  BY <1>1, <1>4
<1>6. k - 1 \notin Later /\ k - 1 \in Nat /\ (k - 1) + 1 = k
  <2>1. k - 1 \in Nat /\ (k - 1) + 1 = k /\ ~(k <= k - 1)
    BY <1>4, <1>5
  <2>2. QED
    BY <1>3, <2>1
<1>7. Number(s, k).start <= t
  <2>1. ~(t < Number(s, k).start)
    BY <1>6
  <2>2. Number(s, k).start \in Int
    BY <1>4, IterationsFollow
  <2>3. QED
    BY <2>1, <2>2
<1>8. Number(s, k).end = Number(s, k + 1).start
  BY <1>4, IterationsFollow
<1>9. QED
  BY <1>4, <1>5, <1>7, <1>8

-----------------------------------------------------------------------------
(* Planning: the iteration of a time *)

\* Stepping, from any number, ends at the iteration the time is in.
LEMMA SteppingEnds ==
  ASSUME NEW s, IsSettings(s), NEW t \in Int,
         NEW N \in Int, Number(s, N).start <= t, t < Number(s, N).end,
         NEW step,
         step = [n \in Int |-> LET it == Number(s, n)
                               IN  IF t < it.start THEN step[n - 1]
                                   ELSE IF t >= it.end THEN step[n + 1]
                                   ELSE it],
         NEW n \in Int
  PROVE  step[n] = Number(s, N)
<1>1. \A k \in Int : /\ Number(s, k).start \in Int
                     /\ Number(s, k).end = Number(s, k + 1).start /\ Number(s, k + 1).start \in Int
  <2> TAKE k \in Int
  <2>1. k + 1 \in Int
    OBVIOUS
  <2>2. QED
    BY <2>1, IterationsFollow
<1>2. \A k \in Int : step[k] = IF t < Number(s, k).start THEN step[k - 1]
                               ELSE IF t >= Number(s, k).end THEN step[k + 1]
                               ELSE Number(s, k)
  OBVIOUS
<1>3. step[N] = Number(s, N)
  BY <1>1, <1>2
<1>4. \A k \in Int : k > N => t < Number(s, k).start
  <2> SUFFICES ASSUME NEW k \in Int, k > N PROVE t < Number(s, k).start
    OBVIOUS
  <2>1. N + 1 \in Int /\ N + 1 <= k
    OBVIOUS
  <2>2. Number(s, N + 1).start + (k - (N + 1)) <= Number(s, k).start
    BY <2>1, IterationsFollow
  <2>3. QED
    BY <1>1, <2>1, <2>2
<1>5. \A k \in Int : k < N => t >= Number(s, k).end /\ ~(t < Number(s, k).start)
  <2> SUFFICES ASSUME NEW k \in Int, k < N
               PROVE  t >= Number(s, k).end /\ ~(t < Number(s, k).start)
    OBVIOUS
  <2>1. k + 1 \in Int /\ k + 1 <= N /\ k <= k + 1
    OBVIOUS
  <2>2. Number(s, k + 1).start + (N - (k + 1)) <= Number(s, N).start
    BY <2>1, IterationsFollow
  <2>3. Number(s, k).start + (k + 1 - k) <= Number(s, k + 1).start
    BY <2>1, IterationsFollow
  <2>4. QED
    BY <1>1, <2>1, <2>2, <2>3
<1> DEFINE Over  == {k \in Nat : step[N + k] # Number(s, N)}
           Under == {k \in Nat : step[N - k] # Number(s, N)}
<1>6. Over = {}
  <2> SUFFICES ASSUME Over # {} PROVE FALSE
    OBVIOUS
  <2>1. PICK k \in Over : \A j \in Over : k <= j
    <3> HIDE DEF Over
    <3>1. Over \in SUBSET Nat
      BY DEF Over
    <3>2. QED
      BY <3>1, LeastOf
  <2>2. k \in Nat /\ k # 0 /\ step[N + k] # Number(s, N)
    BY <1>3
  <2>3. k - 1 \in Nat /\ ~(k <= k - 1) /\ N + (k - 1) = (N + k) - 1 /\ N + k > N /\ N + k \in Int
    BY <2>2
  <2>4. step[(N + k) - 1] = Number(s, N)
    BY <2>1, <2>3
  <2>5. step[N + k] = step[(N + k) - 1]
    BY <1>2, <1>4, <2>3
  <2>6. QED
    BY <2>2, <2>4, <2>5
<1>7. Under = {}
  <2> SUFFICES ASSUME Under # {} PROVE FALSE
    OBVIOUS
  <2>1. PICK k \in Under : \A j \in Under : k <= j
    <3> HIDE DEF Under
    <3>1. Under \in SUBSET Nat
      BY DEF Under
    <3>2. QED
      BY <3>1, LeastOf
  <2>2. k \in Nat /\ k # 0 /\ step[N - k] # Number(s, N)
    BY <1>3
  <2>3. k - 1 \in Nat /\ ~(k <= k - 1) /\ N - (k - 1) = (N - k) + 1 /\ N - k < N /\ N - k \in Int
    BY <2>2
  <2>4. step[(N - k) + 1] = Number(s, N)
    BY <2>1, <2>3
  <2>5. step[N - k] = step[(N - k) + 1]
    BY <1>2, <1>5, <2>3
  <2>6. QED
    BY <2>2, <2>4, <2>5
<1>8. CASE n >= N
  <2>1. n - N \in Nat /\ N + (n - N) = n
    BY <1>8
  <2>2. n - N \notin Over
    BY <1>6
  <2>3. QED
    BY <2>1, <2>2
<1>9. CASE n < N
  <2>1. N - n \in Nat /\ N - (N - n) = n
    BY <1>9
  <2>2. N - n \notin Under
    BY <1>7
  <2>3. QED
    BY <2>1, <2>2
<1>10. QED
  BY <1>8, <1>9

\* At: the guess may be wrong by any number of iterations.
LEMMA AtIs ==
  ASSUME NEW s, IsSettings(s), NEW t \in Int, t >= Number(s, 1).start,
         NEW N \in Int, Number(s, N).start <= t, t < Number(s, N).end
  PROVE  At(s, t) = Number(s, N)
<1> DEFINE o     == Midnight(s.zone, origin(s))
           body(f) == [n \in Int |-> LET it == Number(s, n)
                                     IN  IF t < it.start THEN f[n - 1]
                                         ELSE IF t >= it.end THEN f[n + 1]
                                         ELSE it]
           step == CHOOSE f : f = body(f)
           guess == ((t - o) \div (length(s) * DayLength)) + 1
<1>1. At(s, t) = IF t < o THEN Number(s, 1) ELSE step[guess]
  BY DEF At
<1>2. origin(s) \in Int /\ o \in Int /\ o = Number(s, 1).start
  <2>1. origin(s) \in Int
    BY OriginBeforeAnchor
  <2>2. origin(s) + (1 - 1) * length(s) = origin(s)
    BY <2>1, LengthPositive
  <2>3. Number(s, 1).start = o
    BY <2>2 DEF Number
  <2>4. Number(s, 1).start \in Int
    BY IterationsFollow
  <2>5. QED
    BY <2>1, <2>3, <2>4
<1>3. guess \in Int
  <2>1. length(s) * DayLength \in Nat \ {0}
    <3>1. DayLength \in Nat /\ DayLength > 1
      BY PlanningAssumption
    <3>2. length(s) * DayLength >= DayLength /\ length(s) * DayLength \in Nat
      BY <3>1, LengthPositive, Multiply
    <3>3. QED
      BY <3>1, <3>2
  <2>2. QED
    BY <1>2, <2>1
<1>4. \E f : f = body(f)
  <2> DEFINE f == [n \in Int |-> Number(s, N)]
  <2>1. ASSUME NEW n \in Int
        PROVE  f[n] = body(f)[n]
    <3>1. n - 1 \in Int /\ n + 1 \in Int
      OBVIOUS
    <3>2. CASE t < Number(s, n).start \/ t >= Number(s, n).end
      BY <3>1, <3>2
    <3>3. CASE ~(t < Number(s, n).start) /\ ~(t >= Number(s, n).end)
      <4>1. n = N
        <5>1. /\ N + 1 \in Int /\ n + 1 \in Int
              /\ Number(s, N).end = Number(s, N + 1).start /\ Number(s, N + 1).start \in Int
              /\ Number(s, n).end = Number(s, n + 1).start /\ Number(s, n + 1).start \in Int
              /\ Number(s, n).start \in Int /\ Number(s, N).start \in Int
          BY <3>1, IterationsFollow
        <5>2. CASE n < N
          <6>1. Number(s, n + 1).start + (N - (n + 1)) <= Number(s, N).start
            BY <3>1, <5>2, IterationsFollow
          <6>2. QED
            BY <3>3, <5>1, <5>2, <6>1
        <5>3. CASE n > N
          <6>1. Number(s, N + 1).start + (n - (N + 1)) <= Number(s, n).start
            BY <5>1, <5>3, IterationsFollow
          <6>2. QED
            BY <3>3, <5>1, <5>3, <6>1
        <5>4. QED
          BY <5>2, <5>3
      <4>2. QED
        BY <3>3, <4>1
    <3>4. QED
      BY <3>2, <3>3
  <2>2. f = body(f)
    BY <2>1
  <2>3. QED
    BY <2>2
<1>5. step = body(step)
  <2> HIDE DEF body
  <2>1. QED
    BY <1>4
<1> HIDE DEF guess, step
<1>6. step[guess] = Number(s, N)
  BY <1>3, <1>5, SteppingEnds
<1>7. QED
  BY <1>1, <1>2, <1>6

\* What At answers, for any time and any settings.
LEMMA AtFinds ==
  ASSUME NEW s, IsSettings(s), NEW t \in Int
  PROVE  LET it == At(s, t)
         IN  /\ it.number \in Nat \ {0}
             /\ it = Number(s, it.number)
             /\ it.start \in Int /\ it.end \in Int
             /\ t < it.end
             /\ t >= it.start \/ it.number = 1
             /\ t >= Number(s, 1).start => t >= it.start
<1>1. \A n \in Int : /\ Number(s, n).number = n
                     /\ Number(s, n).start \in Int /\ Number(s, n).end \in Int
                     /\ Number(s, n).start < Number(s, n).end
  <2> TAKE n \in Int
  <2>1. n + 1 \in Int /\ n <= n + 1 /\ (n + 1) - n = 1
    OBVIOUS
  <2>2. /\ Number(s, n).number = n
        /\ Number(s, n).start \in Int /\ Number(s, n + 1).start \in Int
        /\ Number(s, n).start + ((n + 1) - n) <= Number(s, n + 1).start
        /\ Number(s, n).end = Number(s, n + 1).start
    BY <2>1, IterationsFollow
  <2>3. QED
    BY <2>1, <2>2
<1>2. CASE t >= Number(s, 1).start
  <2>1. PICK n \in Nat \ {0} : Number(s, n).start <= t /\ t < Number(s, n).end
    BY <1>2, SomeIteration
  <2>2. n \in Int
    BY <2>1
  <2>3. At(s, t) = Number(s, n)
    BY <1>2, <2>1, <2>2, AtIs
  <2>4. QED
    BY <1>1, <2>1, <2>2, <2>3
<1>3. CASE ~(t >= Number(s, 1).start)
  <2>1. Number(s, 1).start \in Int /\ Number(s, 1).end \in Int
        /\ Number(s, 1).start < Number(s, 1).end /\ Number(s, 1).number = 1
    BY <1>1
  <2>2. Midnight(s.zone, origin(s)) = Number(s, 1).start
    <3>1. origin(s) + (1 - 1) * length(s) = origin(s)
      BY OriginBeforeAnchor, LengthPositive
    <3>2. QED
      BY <3>1 DEF Number
  <2>3. t < Midnight(s.zone, origin(s))
    BY <1>3, <2>1, <2>2
  <2>4. At(s, t) = Number(s, 1)
    BY <2>3 DEF At
  <2>5. QED
    BY <1>3, <2>1, <2>4
<1>4. QED
  BY <1>2, <1>3

\* At most one clock change: the projects of PlanningNext.
LEMMA ChangesOnce ==
  ASSUME NEW S \in {{}} \cup {{d} : d \in Days}, NEW e \in Int
  PROVE  /\ IsFiniteSet(S) /\ S \subseteq Int /\ S \subseteq Nat
         /\ Cardinality({x \in S : x < e}) \in 0..1
         /\ e <= 0 => Cardinality({x \in S : x < e}) = 0
<1> DEFINE E == {x \in S : x < e}
<1>1. S = {} \/ \E d \in Nat : S = {d}
  BY PlanningAssumption
<1>2. IsFiniteSet(S) /\ Cardinality(S) \in 0..1
  <2>1. CASE S = {}
    BY <2>1, FS_EmptySet
  <2>2. CASE \E d \in Nat : S = {d}
    <3>1. PICK d : S = {d}
      BY <2>2
    <3>2. IsFiniteSet(S) /\ Cardinality(S) = 1
      BY <3>1, FS_Singleton
    <3>3. QED
      BY <3>2
  <2>3. QED
    BY <1>1, <2>1, <2>2
<1>3. E \subseteq S
  OBVIOUS
<1>4. S \subseteq Nat
  BY <1>1
<1>5. IsFiniteSet(E) /\ Cardinality(E) <= Cardinality(S) /\ Cardinality(E) \in Nat
  <2> HIDE DEF E
  <2>1. QED
    BY <1>2, <1>3, FS_Subset, FS_CardinalityType
<1>6. e <= 0 => E = {}
  <2>1. \A x \in S : e <= 0 => ~(x < e)
    BY <1>4
  <2>2. QED
    BY <2>1
<1>7. Cardinality(E) \in 0..1
  BY <1>2, <1>5
<1>8. e <= 0 => Cardinality(E) = 0
  BY <1>6, FS_EmptySet
<1>9. QED
  BY <1>2, <1>4, <1>7, <1>8

\* Days reach as far as any creation.
LEMMA ScheduleIsSettings ==
  ASSUME NEW s \in Schedule
  PROVE  IsSettings(s) /\ s.anchor \in Nat
<1> DEFINE z == s.zone
           S(d) == Cardinality({x \in z.short : x < d})
           L(d) == Cardinality({x \in z.long : x < d})
           D == DayLength
           W == WeekLength
<1>1. /\ s.length \in Int /\ s.weekday \in Int
      /\ z.short \in {{}} \cup {{d} : d \in Days} /\ z.long \in {{}} \cup {{d} : d \in Days}
      /\ s.anchor \in {(W + d) * D + 1 : d \in 0..1}
  <2>1. WeekLength \in Nat
    BY PlanningAssumption
  <2>2. QED
    BY <2>1 DEF Schedule, Zone
<1>2. IsZone(z)
  BY <1>1, ChangesOnce DEF IsZone
<1>3. \A d \in Int : S(d) \in 0..1 /\ L(d) \in 0..1 /\ (d <= 0 => S(d) = 0 /\ L(d) = 0)
  BY <1>1, ChangesOnce
<1>4. \A d \in Int : Midnight(z, d) = d * D - S(d) + L(d)
  BY DEF Midnight
<1>5. D \in Nat /\ D >= 2 /\ W \in Nat /\ W >= 1
  BY PlanningAssumption
<1> HIDE DEF S, L, D, W
<1>6. PICK i \in 0..1 : s.anchor = (W + i) * D + 1
  BY <1>1
<1>7. s.anchor \in Nat /\ s.anchor <= W * D + D + 1
  <2>1. W * D \in Nat
    BY <1>5
  <2>2. (W + 0) * D = W * D /\ (W + 1) * D = W * D + D
    BY <1>5
  <2>3. i = 0 \/ i = 1
    OBVIOUS
  <2>4. QED
    BY <1>5, <1>6, <2>1, <2>2, <2>3
<1>8. Midnight(z, W + 2 + 1) > s.anchor
  <2>1. (W + 2 + 1) * D = W * D + D + D + D /\ W * D \in Nat /\ W + 2 + 1 \in Int
    BY <1>5
  <2>2. Midnight(z, W + 2 + 1) = (W + 2 + 1) * D - S(W + 2 + 1) + L(W + 2 + 1)
    BY <1>4, <2>1
  <2>3. S(W + 2 + 1) \in 0..1 /\ L(W + 2 + 1) \in 0..1
    BY <1>3, <2>1
  <2>4. QED
    BY <1>5, <1>7, <2>1, <2>2, <2>3
<1>9. \E d \in Days : Midnight(z, d) <= s.anchor /\ s.anchor < Midnight(z, d + 1)
  <2> DEFINE Later == {d \in Nat : s.anchor < Midnight(z, d + 1)}
  <2>1. W + 2 \in Later
    BY <1>5, <1>8
  <2>2. PICK d \in Later : \A e \in Later : d <= e
    <3>1. Later \in SUBSET Nat
      OBVIOUS
    <3> HIDE DEF Later
    <3>2. QED
      BY <2>1, <3>1, LeastOf
  <2>3. d \in Nat /\ d <= W + 2 /\ s.anchor < Midnight(z, d + 1)
    BY <2>1, <2>2
  <2>4. d \in Days
    BY <1>5, <2>3, PlanningAssumption DEF W
  <2>5. CASE d = 0
    <3>1. Midnight(z, 0) = 0
      <4>1. Midnight(z, 0) = 0 * D - S(0) + L(0) /\ S(0) = 0 /\ L(0) = 0
        BY <1>3, <1>4
      <4>2. QED
        BY <1>5, <4>1
    <3>2. QED
      BY <1>7, <2>3, <2>4, <2>5, <3>1
  <2>6. CASE d # 0
    <3>1. d - 1 \in Nat /\ ~(d <= d - 1) /\ (d - 1) + 1 = d
      BY <2>3, <2>6
    <3>2. ~(s.anchor < Midnight(z, d))
      BY <2>2, <3>1
    <3>3. Midnight(z, d) \in Int
      BY <1>2, <2>3, MidnightsGrow
    <3>4. QED
      BY <1>7, <2>3, <2>4, <3>2, <3>3
  <2>7. QED
    BY <2>5, <2>6
<1>10. QED
  BY <1>1, <1>2, <1>7, <1>9 DEF IsSettings

-----------------------------------------------------------------------------
(* Planning: the history *)

\* Whatever was accepted since the project began: the iteration of each story is
\* the one At finds, and history and lists hold it accordingly.
LEMMA HistoryIs ==
  ASSUME NEW s, IsSettings(s), s.anchor \in Nat,
         NEW now \in Nat, s.anchor <= now,
         NEW rows, \A r \in rows : r.at \in Nat /\ s.anchor <= r.at /\ r.at <= now
  PROVE  LET current == At(s, now)
             history == Iterations(s, rows, now)
         IN  /\ \A r \in rows : Cardinality({n \in DOMAIN history : r \in history[n]}) = 1
             /\ \A n \in DOMAIN history : history[n] = During(s, rows, n)
             /\ ListDone(s, rows, now) = UNION {history[n] : n \in 1..(current.number - 1)}
             /\ ListActive(s, rows, now) = history[current.number]
<1> DEFINE c       == At(s, now).number
           N(r)    == At(s, r.at).number
           history == Iterations(s, rows, now)
<1>1. Number(s, 1).start \in Int /\ Number(s, 1).start <= s.anchor
  <2>1. origin(s) + (1 - 1) * length(s) = origin(s)
    BY OriginBeforeAnchor, LengthPositive
  <2>2. QED
    BY <2>1, OriginBeforeAnchor, IterationsFollow DEF Number
<1>2. /\ c \in Nat \ {0} /\ At(s, now) = Number(s, c)
      /\ Number(s, c).start \in Int /\ Number(s, c).end \in Int
      /\ Number(s, c).start <= now /\ now < Number(s, c).end
  <2>1. now \in Int /\ now >= Number(s, 1).start
    BY <1>1
  <2>2. QED
    BY <2>1, AtFinds
<1>3. \A r \in rows :
        /\ N(r) \in Nat \ {0} /\ At(s, r.at) = Number(s, N(r))
        /\ Number(s, N(r)).start \in Int /\ Number(s, N(r)).end \in Int
        /\ Number(s, N(r)).start <= r.at /\ r.at < Number(s, N(r)).end
  <2> TAKE r \in rows
  <2>1. r.at \in Int /\ r.at >= Number(s, 1).start
    BY <1>1
  <2>2. QED
    BY <2>1, AtFinds
<1>4. \A r \in rows, n \in Nat \ {0} :
        Number(s, n).start <= r.at /\ r.at < Number(s, n).end <=> N(r) = n
  <2> TAKE r \in rows, n \in Nat \ {0}
  <2>1. ASSUME Number(s, n).start <= r.at, r.at < Number(s, n).end
        PROVE  N(r) = n
    <3>1. r.at \in Int /\ r.at >= Number(s, 1).start /\ n \in Int
      BY <1>1
    <3>2. At(s, r.at) = Number(s, n)
      BY <2>1, <3>1, AtIs
    <3>3. QED
      BY <3>1, <3>2 DEF Number
  <2>2. QED
    BY <1>3, <2>1
<1>5. \A n, m \in Nat \ {0} : n < m =>
        /\ Number(s, n).end \in Int /\ Number(s, m).start \in Int
        /\ Number(s, n).end <= Number(s, m).start
  <2> SUFFICES ASSUME NEW n \in Nat \ {0}, NEW m \in Nat \ {0}, n < m
               PROVE  /\ Number(s, n).end \in Int /\ Number(s, m).start \in Int
                      /\ Number(s, n).end <= Number(s, m).start
    OBVIOUS
  <2>1. n \in Int /\ n + 1 \in Int /\ m \in Int /\ n + 1 <= m /\ n <= n + 1 /\ m - (n + 1) >= 0
    OBVIOUS
  <2>2. Number(s, n).end = Number(s, n + 1).start
    BY <2>1, IterationsFollow
  <2>3. /\ Number(s, n + 1).start \in Int /\ Number(s, m).start \in Int
        /\ Number(s, n + 1).start + (m - (n + 1)) <= Number(s, m).start
    BY <2>1, IterationsFollow
  <2>4. QED
    BY <2>1, <2>2, <2>3
<1> HIDE DEF N, c
<1>6. \A r \in rows : /\ N(r) <= c
                      /\ N(r) < c => r.at < Number(s, c).start
                      /\ N(r) = c => r.at >= Number(s, c).start
  <2> TAKE r \in rows
  <2>1. r.at \in Nat /\ r.at <= now
    OBVIOUS
  <2>2. ~(c < N(r))
    BY <1>2, <1>3, <1>5, <2>1
  <2>3. N(r) < c => r.at < Number(s, c).start
    BY <1>2, <1>3, <1>5, <2>1
  <2>4. N(r) = c => r.at >= Number(s, c).start
    BY <1>2, <1>3, <2>1
  <2>5. QED
    BY <1>2, <1>3, <2>2, <2>3, <2>4
<1>7. DOMAIN history = 1..c
  BY DEF Iterations, c
<1>8. \A n \in 1..c : history[n] = {r \in rows : N(r) = n}
  <2> TAKE n \in 1..c
  <2>1. history[n] = {r \in ListAcceptedStories(rows, Number(s, 1).start, Number(s, c).end) : N(r) = n}
    BY <1>2 DEF Iterations, Bucket, N, c
  <2>2. \A r \in rows : Number(s, 1).start <= r.at /\ r.at < Number(s, c).end
    BY <1>1, <1>2
  <2>3. ListAcceptedStories(rows, Number(s, 1).start, Number(s, c).end) = rows
    BY <2>2 DEF ListAcceptedStories
  <2>4. QED
    BY <2>1, <2>3
<1> HIDE DEF history
<1>9. \A r \in rows : Cardinality({n \in DOMAIN history : r \in history[n]}) = 1
  <2> TAKE r \in rows
  <2>1. N(r) \in 1..c
    BY <1>2, <1>3, <1>6
  <2>2. {n \in DOMAIN history : r \in history[n]} = {N(r)}
    BY <1>7, <1>8, <2>1
  <2>3. QED
    BY <2>2, FS_Singleton
<1>10. \A n \in DOMAIN history : history[n] = During(s, rows, n)
  <2> TAKE n \in DOMAIN history
  <2>1. n \in Nat \ {0} /\ n \in 1..c
    BY <1>2, <1>7
  <2>2. \A r \in rows : Number(s, n).start <= r.at /\ r.at < Number(s, n).end <=> N(r) = n
    BY <1>4, <2>1
  <2>3. QED
    BY <1>8, <2>1, <2>2 DEF During
<1>11. ListDone(s, rows, now) = UNION {history[n] : n \in 1..(c - 1)}
  <2>1. ListDone(s, rows, now) = {r \in rows : 0 <= r.at /\ r.at < Number(s, c).start}
    BY <1>2 DEF ListDone, ListAcceptedStories
  <2>2. \A r \in rows : /\ 0 <= r.at /\ r.at < Number(s, c).start <=> N(r) \in 1..(c - 1)
    BY <1>2, <1>3, <1>6
  <2>3. \A n \in 1..(c - 1) : history[n] = {r \in rows : N(r) = n}
    BY <1>2, <1>8
  <2>4. \A r : r \in ListDone(s, rows, now) <=> \E n \in 1..(c - 1) : r \in history[n]
    BY <2>1, <2>2, <2>3
  <2>5. QED
    BY <2>4
<1>12. ListActive(s, rows, now) = history[c]
  <2>1. ListActive(s, rows, now) = {r \in rows : r.at >= Number(s, c).start}
    BY <1>2 DEF ListActive
  <2>2. \A r \in rows : r.at >= Number(s, c).start <=> N(r) = c
    BY <1>2, <1>3, <1>6
  <2>3. c \in 1..c
    BY <1>2
  <2>4. QED
    BY <1>8, <2>1, <2>2, <2>3
<1>13. QED
  BY <1>9, <1>10, <1>11, <1>12 DEF c, history

\* At finds the iteration of every time, and the history and the lists of the
\* board hold each acceptance in the same one; for days and weeks of any length.
THEOREM IterationsAgreeCorrect == PlanningSpec => []IterationsAgree
<1>1. PlanningInit => asked \subseteq Schedule
  BY DEF PlanningInit
<1>2. asked \subseteq Schedule /\ [PlanningNext]_asked => (asked \subseteq Schedule)'
  BY DEF PlanningNext, Ask, Answer
<1>3. ASSUME asked \subseteq Schedule
      PROVE  IterationsAgree
  <2>1. \A t \in Times : t \in Nat
    BY DEF Times
  <2>2. ASSUME NEW s \in asked, NEW t \in Times
        PROVE  LET it == At(s, t)
               IN  /\ it = Number(s, it.number)
                   /\ it.number >= 1
                   /\ t < it.end
                   /\ t >= it.start \/ it.number = 1
                   /\ Number(s, 1).start <= s.anchor
                   /\ s.anchor < Midnight(s.zone, origin(s) + WeekLength)
    <3>1. IsSettings(s) /\ t \in Int
      BY <1>3, <2>1, ScheduleIsSettings
    <3>2. origin(s) + (1 - 1) * length(s) = origin(s)
      BY <3>1, OriginBeforeAnchor, LengthPositive
    <3>3. Number(s, 1).start = Midnight(s.zone, origin(s))
      BY <3>2 DEF Number
    <3>4. QED
      BY <3>1, <3>3, AtFinds, OriginBeforeAnchor
  <2>3. ASSUME NEW s \in asked, NEW now \in Times, now >= s.anchor,
               NEW p \in Points, NEW at \in Times, s.anchor <= at, at <= now
        PROVE  LET rows == Accepted(s, at, p)
                   current == At(s, now)
                   history == Iterations(s, rows, now)
               IN  /\ \A r \in rows : Cardinality({n \in DOMAIN history : r \in history[n]}) = 1
                   /\ \A n \in DOMAIN history : history[n] = During(s, rows, n)
                   /\ ListDone(s, rows, now) = UNION {history[n] : n \in 1..(current.number - 1)}
                   /\ ListActive(s, rows, now) = history[current.number]
    <3>1. /\ IsSettings(s) /\ s.anchor \in Nat /\ now \in Nat /\ at \in Nat
          /\ s.anchor <= now
      BY <1>3, <2>1, <2>3, ScheduleIsSettings
    <3>2. \A r \in Accepted(s, at, p) : r.at \in Nat /\ s.anchor <= r.at /\ r.at <= now
      BY <2>3, <3>1 DEF Accepted
    <3>3. QED
      BY <3>1, <3>2, HistoryIs
  <2>4. AtFindsTheIteration
    BY <2>2 DEF AtFindsTheIteration
  <2>5. HistoryAddsUp
    BY <2>3 DEF HistoryAddsUp
  <2>6. QED
    BY <2>4, <2>5 DEF IterationsAgree
<1>4. QED
  BY <1>1, <1>2, <1>3, PTL DEF PlanningSpec

-----------------------------------------------------------------------------
(* Planning: sums *)

Some(S) == CHOOSE x \in S : TRUE

\* F has the sums of w over the sets in U, by taking element for element.
AddsUp(F, w, U) ==
  \A S \in U : F[S] = IF S = {} THEN 0 ELSE w[Some(S)] + F[S \ {Some(S)}]

\* Those over the finite set T, of whole numbers.
Sums(F, w, T) ==
  IsFiniteSet(T) /\ (\A x \in T : w[x] \in Int) /\ AddsUp(F, w, SUBSET T)

Smaller(T, n) == {S \in SUBSET T : Cardinality(S) <= n}

\* Fewer elements after one is taken.
LEMMA OneFewer ==
  ASSUME NEW T, IsFiniteSet(T), NEW S \in SUBSET T, NEW x \in S
  PROVE  /\ IsFiniteSet(S) /\ S \ {x} \in SUBSET T
         /\ Cardinality(S) \in Nat \ {0} /\ Cardinality(S \ {x}) = Cardinality(S) - 1
<1>1. IsFiniteSet(S)
  BY FS_Subset
<1>2. Cardinality(S) \in Nat /\ (Cardinality(S) = 0 <=> S = {})
  BY <1>1, FS_CardinalityType, FS_EmptySet
<1>3. Cardinality(S \ {x}) = Cardinality(S) - 1
  BY <1>1, FS_RemoveElement
<1>4. QED
  BY <1>1, <1>2, <1>3

\* Every finite set has a sum.
LEMMA SumsExist ==
  ASSUME NEW T, IsFiniteSet(T), NEW w
  PROVE  \E F : F = [S \in SUBSET T |-> F[S]] /\ AddsUp(F, w, SUBSET T)
<1> DEFINE Upto(n) == \E F : AddsUp(F, w, Smaller(T, n))
           Bad == {n \in Nat : ~Upto(n)}
<1>1. Upto(0)
  <2> DEFINE F == [S \in SUBSET T |-> 0]
  <2>1. \A S \in Smaller(T, 0) : S = {}
    <3> TAKE S \in Smaller(T, 0)
    <3>1. IsFiniteSet(S) /\ Cardinality(S) <= 0
      BY FS_Subset DEF Smaller
    <3>2. Cardinality(S) \in Nat /\ (Cardinality(S) = 0 <=> S = {})
      BY <3>1, FS_CardinalityType, FS_EmptySet
    <3>3. QED
      BY <3>1, <3>2
  <2>2. AddsUp(F, w, Smaller(T, 0))
    BY <2>1 DEF AddsUp, Smaller
  <2>3. QED
    BY <2>2
<1>2. ASSUME NEW n \in Nat, Upto(n)
      PROVE  Upto(n + 1)
  <2>1. PICK F : AddsUp(F, w, Smaller(T, n))
    BY <1>2
  <2> DEFINE G == [S \in SUBSET T |-> IF S = {} THEN 0 ELSE w[Some(S)] + F[S \ {Some(S)}]]
  <2>2. \A S \in Smaller(T, n) : G[S] = F[S]
    BY <2>1 DEF AddsUp, Smaller
  <2>3. ASSUME NEW S \in Smaller(T, n + 1), S # {}
        PROVE  S \ {Some(S)} \in Smaller(T, n)
    <3>1. Some(S) \in S /\ S \in SUBSET T /\ Cardinality(S) <= n + 1
      BY <2>3 DEF Some, Smaller
    <3>2. /\ S \ {Some(S)} \in SUBSET T /\ Cardinality(S) \in Nat
          /\ Cardinality(S \ {Some(S)}) = Cardinality(S) - 1
      BY <3>1, OneFewer
    <3>3. Cardinality(S \ {Some(S)}) <= n
      BY <3>1, <3>2
    <3>4. QED
      BY <3>2, <3>3 DEF Smaller
  <2>4. \A S \in Smaller(T, n + 1) : G[S] = IF S = {} THEN 0 ELSE w[Some(S)] + F[S \ {Some(S)}]
    BY DEF Smaller
  <2> HIDE DEF G
  <2>5. AddsUp(G, w, Smaller(T, n + 1))
    BY <2>2, <2>3, <2>4, Zenon DEF AddsUp
  <2>6. QED
    BY <2>5
<1> HIDE DEF Upto
<1>3. Bad = {}
  <2> SUFFICES ASSUME Bad # {} PROVE FALSE
    OBVIOUS
  <2>1. PICK n \in Bad : \A m \in Bad : n <= m
    <3> HIDE DEF Bad
    <3>1. Bad \in SUBSET Nat
      BY DEF Bad
    <3>2. QED
      BY <3>1, LeastOf
  <2>2. n \in Nat /\ n # 0 /\ ~Upto(n)
    BY <1>1
  <2>3. n - 1 \in Nat /\ ~(n <= n - 1) /\ (n - 1) + 1 = n
    BY <2>2
  <2>4. Upto(n - 1)
    BY <2>1, <2>3
  <2>5. QED
    BY <1>2, <2>2, <2>3, <2>4
<1>4. Cardinality(T) \in Nat /\ Smaller(T, Cardinality(T)) = SUBSET T
  BY FS_Subset, FS_CardinalityType DEF Smaller
<1>5. PICK F : AddsUp(F, w, SUBSET T)
  <2>1. Upto(Cardinality(T))
    BY <1>3, <1>4
  <2>2. \E F : AddsUp(F, w, Smaller(T, Cardinality(T)))
    BY <2>1 DEF Upto
  <2>3. QED
    BY <1>4, <2>2
<1> DEFINE G == [S \in SUBSET T |-> F[S]]
<1>6. \A S \in SUBSET T : G[S] = F[S] /\ S \ {Some(S)} \in SUBSET T
  OBVIOUS
<1>7. G = [S \in SUBSET T |-> G[S]]
  OBVIOUS
<1> HIDE DEF G
<1>8. AddsUp(G, w, SUBSET T)
  BY <1>5, <1>6, Zenon DEF AddsUp
<1>9. QED
  BY <1>7, <1>8

\* It does not matter which element is taken.
LEMMA TakeAny ==
  ASSUME NEW T, NEW w, NEW F, Sums(F, w, T)
  PROVE  /\ F[{}] = 0
         /\ \A S \in SUBSET T : F[S] \in Int /\ \A x \in S : F[S] = w[x] + F[S \ {x}]
<1> DEFINE Good(S) == F[S] \in Int /\ \A x \in S : F[S] = w[x] + F[S \ {x}]
           Bad     == {n \in Nat : \E S \in SUBSET T : Cardinality(S) = n /\ ~Good(S)}
<1>0. IsFiniteSet(T) /\ (\A x \in T : w[x] \in Int) /\ AddsUp(F, w, SUBSET T)
  BY DEF Sums
<1>1. F[{}] = 0 /\ Good({})
  BY <1>0 DEF AddsUp
<1>2. Bad = {}
  <2> SUFFICES ASSUME Bad # {} PROVE FALSE
    OBVIOUS
  <2>1. PICK n \in Bad : \A m \in Bad : n <= m
    <3> HIDE DEF Bad
    <3>1. Bad \in SUBSET Nat
      BY DEF Bad
    <3>2. QED
      BY <3>1, LeastOf
  <2>2. PICK S \in SUBSET T : Cardinality(S) = n /\ ~Good(S)
    OBVIOUS
  <2> HIDE DEF Good
  <2>3. ASSUME NEW R \in SUBSET S, NEW x \in R
        PROVE  R \ {x} \in SUBSET T /\ Good(R \ {x})
    <3>1. R \in SUBSET T /\ R \subseteq S /\ IsFiniteSet(S)
      BY <1>0, FS_Subset
    <3>2. /\ R \ {x} \in SUBSET T /\ Cardinality(R) \in Nat
          /\ Cardinality(R \ {x}) = Cardinality(R) - 1
      BY <1>0, <3>1, OneFewer
    <3>3. Cardinality(R) <= Cardinality(S) /\ Cardinality(R \ {x}) \in Nat
      <4>1. IsFiniteSet(R \ {x})
        BY <1>0, <3>2, FS_Subset
      <4>2. QED
        BY <3>1, <4>1, FS_Subset, FS_CardinalityType
    <3>4. ~(n <= Cardinality(R \ {x}))
      BY <2>2, <3>2, <3>3
    <3>5. Cardinality(R \ {x}) \notin Bad
      BY <2>1, <3>4
    <3>6. QED
      BY <3>2, <3>3, <3>5
  <2>4. S # {}
    BY <1>1, <2>2
  <2> DEFINE y == Some(S)
  <2>5. y \in S /\ F[S] = w[y] + F[S \ {y}]
    BY <1>0, <2>4 DEF Some, AddsUp
  <2> HIDE DEF y
  <2>6. w[y] \in Int /\ F[S \ {y}] \in Int
    BY <1>0, <2>3, <2>5 DEF Good
  <2>7. ASSUME NEW x \in S
        PROVE  F[S] = w[x] + F[S \ {x}]
    <3>1. CASE x = y
      BY <2>5, <3>1
    <3>2. CASE x # y
      <4>1. x \in S \ {y} /\ y \in S \ {x} /\ (S \ {y}) \ {x} = (S \ {x}) \ {y}
        BY <2>5, <3>2
      <4>2. F[S \ {y}] = w[x] + F[(S \ {y}) \ {x}]
        <5>1. S \in SUBSET S
          OBVIOUS
        <5>2. Good(S \ {y})
          BY <2>3, <2>5, <5>1
        <5>3. QED
          BY <4>1, <5>2 DEF Good
      <4>3. F[S \ {x}] = w[y] + F[(S \ {x}) \ {y}]
        <5>1. S \in SUBSET S
          OBVIOUS
        <5>2. Good(S \ {x})
          BY <2>3, <5>1
        <5>3. QED
          BY <4>1, <5>2 DEF Good
      <4>4. F[(S \ {y}) \ {x}] \in Int
        <5>1. S \ {y} \in SUBSET S
          OBVIOUS
        <5>2. QED
          BY <2>3, <4>1, <5>1 DEF Good
      <4>5. w[x] \in Int
        BY <1>0
      <4>6. F[(S \ {x}) \ {y}] = F[(S \ {y}) \ {x}]
        BY <4>1
      <4>7. QED
        BY <2>5, <2>6, <4>2, <4>3, <4>4, <4>5, <4>6
    <3>3. QED
      BY <3>1, <3>2
  <2>8. F[S] \in Int
    BY <2>5, <2>6
  <2>9. QED
    BY <2>2, <2>7, <2>8 DEF Good
<1>3. ASSUME NEW S \in SUBSET T
      PROVE  Good(S)
  <2>1. Cardinality(S) \in Nat
    BY <1>0, FS_Subset, FS_CardinalityType
  <2>2. QED
    BY <1>2, <2>1
<1>4. QED
  BY <1>1, <1>3

\* Sums of the same weights are the same, however far they reach.
LEMMA SumsAgree ==
  ASSUME NEW T, NEW V \in SUBSET T, NEW w, NEW v, \A x \in V : v[x] = w[x],
         NEW F, Sums(F, w, T), NEW G, AddsUp(G, v, SUBSET V)
  PROVE  \A S \in SUBSET V : G[S] = F[S]
<1> DEFINE Bad == {n \in Nat : \E S \in SUBSET V : Cardinality(S) = n /\ G[S] # F[S]}
<1>1. IsFiniteSet(V) /\ Sums(G, v, V)
  <2>1. IsFiniteSet(V)
    BY FS_Subset DEF Sums
  <2>2. \A x \in V : v[x] \in Int
    BY DEF Sums
  <2>3. QED
    BY <2>1, <2>2 DEF Sums
<1>2. F[{}] = 0 /\ \A S \in SUBSET T : \A x \in S : F[S] = w[x] + F[S \ {x}]
  BY TakeAny
<1>3. G[{}] = 0 /\ \A S \in SUBSET V : \A x \in S : G[S] = v[x] + G[S \ {x}]
  BY <1>1, TakeAny
<1>4. Bad = {}
  <2> SUFFICES ASSUME Bad # {} PROVE FALSE
    OBVIOUS
  <2>1. PICK n \in Bad : \A m \in Bad : n <= m
    <3> HIDE DEF Bad
    <3>1. Bad \in SUBSET Nat
      BY DEF Bad
    <3>2. QED
      BY <3>1, LeastOf
  <2>2. PICK S \in SUBSET V : Cardinality(S) = n /\ G[S] # F[S]
    OBVIOUS
  <2>3. PICK x : x \in S
    BY <1>2, <1>3, <2>2
  <2>4. /\ S \ {x} \in SUBSET V /\ Cardinality(S) \in Nat \ {0}
        /\ Cardinality(S \ {x}) = Cardinality(S) - 1
    BY <1>1, <2>3, OneFewer
  <2>5. Cardinality(S \ {x}) \in Nat /\ ~(n <= Cardinality(S \ {x}))
    BY <2>2, <2>4
  <2>6. G[S \ {x}] = F[S \ {x}]
    BY <2>1, <2>4, <2>5
  <2>7. x \in V /\ S \in SUBSET T
    BY <2>3
  <2>8. QED
    BY <1>2, <1>3, <2>2, <2>3, <2>6, <2>7
<1>5. ASSUME NEW S \in SUBSET V
      PROVE  G[S] = F[S]
  <2>1. Cardinality(S) \in Nat
    BY <1>1, FS_Subset, FS_CardinalityType
  <2>2. QED
    BY <1>4, <2>1
<1>6. QED
  BY <1>5

\* A set in two parts.
LEMMA SumOfParts ==
  ASSUME NEW T, NEW w, NEW F, Sums(F, w, T),
         NEW A \in SUBSET T, NEW B \in SUBSET T, A \cap B = {}
  PROVE  F[A \cup B] = F[A] + F[B]
<1> DEFINE Bad == {n \in Nat : \E S \in SUBSET B : /\ Cardinality(S) = n
                                                   /\ F[A \cup S] # F[A] + F[S]}
<1>1. /\ F[{}] = 0
      /\ \A S \in SUBSET T : F[S] \in Int /\ \A x \in S : F[S] = w[x] + F[S \ {x}]
  BY TakeAny
<1>2. IsFiniteSet(B) /\ \A x \in T : w[x] \in Int
  BY FS_Subset DEF Sums
<1>3. Bad = {}
  <2> SUFFICES ASSUME Bad # {} PROVE FALSE
    OBVIOUS
  <2>1. PICK n \in Bad : \A m \in Bad : n <= m
    <3> HIDE DEF Bad
    <3>1. Bad \in SUBSET Nat
      BY DEF Bad
    <3>2. QED
      BY <3>1, LeastOf
  <2>2. PICK S \in SUBSET B : Cardinality(S) = n /\ F[A \cup S] # F[A] + F[S]
    OBVIOUS
  <2>3. S # {}
    <3>1. F[A] \in Int
      BY <1>1
    <3>2. A \cup {} = A
      OBVIOUS
    <3>3. F[A \cup {}] = F[A] + F[{}]
      BY <1>1, <3>1, <3>2
    <3>4. QED
      BY <2>2, <3>3, Zenon
  <2>4. PICK x : x \in S
    BY <2>3
  <2>5. /\ S \ {x} \in SUBSET B /\ Cardinality(S) \in Nat \ {0}
        /\ Cardinality(S \ {x}) = Cardinality(S) - 1
    BY <1>2, <2>4, OneFewer
  <2>6. Cardinality(S \ {x}) \in Nat /\ ~(n <= Cardinality(S \ {x}))
    BY <2>2, <2>5
  <2>7. F[A \cup (S \ {x})] = F[A] + F[S \ {x}]
    BY <2>1, <2>5, <2>6
  <2>8. (A \cup S) \ {x} = A \cup (S \ {x}) /\ x \in A \cup S /\ A \cup S \in SUBSET T
        /\ S \in SUBSET T /\ S \ {x} \in SUBSET T /\ x \in T
    BY <2>4
  <2>9. F[A \cup S] = w[x] + F[A \cup (S \ {x})] /\ F[S] = w[x] + F[S \ {x}]
    BY <1>1, <2>4, <2>8
  <2>10. w[x] \in Int /\ F[A] \in Int /\ F[S \ {x}] \in Int
    BY <1>1, <1>2, <2>8
  <2>11. QED
    BY <2>2, <2>7, <2>9, <2>10
<1>4. Cardinality(B) \in Nat
  BY <1>2, FS_CardinalityType
<1>5. QED
  BY <1>3, <1>4

SumOf(w, S) == MapThenSumSet(LAMBDA x : w[x], S)

LEMMA SumIs ==
  ASSUME NEW T, NEW w, NEW F, Sums(F, w, T),
         NEW S \in SUBSET T
  PROVE  SumOf(w, S) = F[S]
<1> DEFINE body(f) == [R \in SUBSET S |->
                         IF R = {} THEN 0
                         ELSE LET x == CHOOSE x \in R : TRUE
                              IN  w[x] + f[R \ {x}]]
           G == CHOOSE f : f = body(f)
<1>1. SumOf(w, S) = G[S]
  BY DEF SumOf, MapThenSumSet, MapThenFoldSet
<1>2. \E f : f = body(f)
  <2>1. IsFiniteSet(S)
    BY FS_Subset DEF Sums
  <2>2. PICK f : f = [R \in SUBSET S |-> f[R]] /\ AddsUp(f, w, SUBSET S)
    BY <2>1, SumsExist
  <2>3. f = body(f)
    BY <2>2 DEF AddsUp, Some
  <2>4. QED
    BY <2>3
<1>3. G = body(G)
  <2> HIDE DEF body
  <2>1. QED
    BY <1>2
<1> HIDE DEF G
<1>4. AddsUp(G, w, SUBSET S)
  BY <1>3 DEF AddsUp, Some
<1>5. G[S] = F[S]
  BY <1>4, SumsAgree
<1>6. QED
  BY <1>1, <1>5

\* The parts of T with these sums in F do not overlap.
Parts(part, p, F, U, T) ==
  /\ \A n \in U : part[n] \in SUBSET T /\ p[n] = F[part[n]]
  /\ \A m, n \in U : m # n => part[m] \cap part[n] = {}

Together(part, U) == UNION {part[n] : n \in U}

\* A set in any number of parts.
LEMMA SumOfSums ==
  ASSUME NEW T, NEW w, NEW F, Sums(F, w, T),
         NEW U, NEW p, NEW G, Sums(G, p, U),
         NEW part, Parts(part, p, F, U, T)
  PROVE  G[U] = F[Together(part, U)]
<1> DEFINE All(K) == Together(part, K)
           Bad == {n \in Nat : \E K \in SUBSET U : Cardinality(K) = n /\ G[K] # F[All(K)]}
<1>1. /\ F[{}] = 0 /\ G[{}] = 0
      /\ \A S \in SUBSET U : G[S] \in Int /\ \A x \in S : G[S] = p[x] + G[S \ {x}]
      /\ \A S \in SUBSET T : F[S] \in Int
  <2>1. F[{}] = 0 /\ \A S \in SUBSET T : F[S] \in Int
    BY TakeAny
  <2>2. G[{}] = 0
        /\ \A S \in SUBSET U : G[S] \in Int /\ \A x \in S : G[S] = p[x] + G[S \ {x}]
    BY TakeAny
  <2>3. QED
    BY <2>1, <2>2
<1>2. IsFiniteSet(U)
  BY DEF Sums
<1>3. Bad = {}
  <2> SUFFICES ASSUME Bad # {} PROVE FALSE
    OBVIOUS
  <2>1. PICK n \in Bad : \A m \in Bad : n <= m
    <3> HIDE DEF Bad
    <3>1. Bad \in SUBSET Nat
      BY DEF Bad
    <3>2. QED
      BY <3>1, LeastOf
  <2>2. PICK K \in SUBSET U : Cardinality(K) = n /\ G[K] # F[All(K)]
    OBVIOUS
  <2>3. K # {}
    <3>1. All({}) = {}
      BY DEF Together
    <3>2. G[{}] = F[All({})]
      BY <1>1, <3>1
    <3>3. QED
      BY <2>2, <3>2, Zenon
  <2>4. PICK x : x \in K
    BY <2>3
  <2>5. /\ K \ {x} \in SUBSET U /\ Cardinality(K) \in Nat \ {0}
        /\ Cardinality(K \ {x}) = Cardinality(K) - 1
    BY <1>2, <2>4, OneFewer
  <2>6. Cardinality(K \ {x}) \in Nat /\ ~(n <= Cardinality(K \ {x}))
    BY <2>2, <2>5
  <2>7. G[K \ {x}] = F[All(K \ {x})]
    BY <2>1, <2>5, <2>6
  <2>8. /\ All(K) = part[x] \cup All(K \ {x}) /\ part[x] \cap All(K \ {x}) = {}
        /\ part[x] \in SUBSET T /\ All(K \ {x}) \in SUBSET T
    BY <2>4 DEF Parts, Together
  <2> HIDE DEF All
  <2>9. F[All(K)] = F[part[x]] + F[All(K \ {x})]
    <3>1. \A A, B \in SUBSET T : A \cap B = {} => F[A \cup B] = F[A] + F[B]
      BY SumOfParts
    <3>2. QED
      BY <2>8, <3>1
  <2>10. G[K] = p[x] + G[K \ {x}] /\ p[x] = F[part[x]]
    BY <1>1, <2>4 DEF Parts
  <2>11. QED
    BY <2>2, <2>7, <2>9, <2>10
<1>4. Cardinality(U) \in Nat
  BY <1>2, FS_CardinalityType
<1>5. QED
  BY <1>3, <1>4

\* A sum by a map whose values are the weights.
LEMMA TotalIs ==
  ASSUME NEW rows, IsFiniteSet(rows), \A r \in rows : r.points \in Int
  PROVE  \E F : /\ Sums(F, [r \in rows |-> r.points], rows)
                /\ \A S \in SUBSET rows : MapThenSumSet(LAMBDA r : r.points, S) = F[S]
<1> DEFINE w == [r \in rows |-> r.points]
<1>1. \A x \in rows : w[x] \in Int /\ w[x] = x.points
  OBVIOUS
<1> HIDE DEF w
<1>2. PICK F : AddsUp(F, w, SUBSET rows)
  BY SumsExist
<1>3. Sums(F, w, rows)
  BY <1>1, <1>2 DEF Sums
<1>4. ASSUME NEW S \in SUBSET rows
      PROVE  MapThenSumSet(LAMBDA r : r.points, S) = F[S]
  <2> DEFINE body(f) == [R \in SUBSET S |->
                           IF R = {} THEN 0
                           ELSE LET x == CHOOSE x \in R : TRUE
                                IN  x.points + f[R \ {x}]]
             G == CHOOSE f : f = body(f)
  <2>1. MapThenSumSet(LAMBDA r : r.points, S) = G[S]
    BY DEF MapThenSumSet, MapThenFoldSet
  <2>2. \A R \in SUBSET S : R # {} => Some(R) \in S /\ w[Some(R)] = Some(R).points
    BY <1>1 DEF Some
  <2>3. \E f : f = body(f)
    <3>1. IsFiniteSet(S)
      BY FS_Subset
    <3>2. PICK f : f = [R \in SUBSET S |-> f[R]] /\ AddsUp(f, w, SUBSET S)
      BY <3>1, SumsExist
    <3>3. \A R \in SUBSET S : f[R] = IF R = {} THEN 0 ELSE Some(R).points + f[R \ {Some(R)}]
      BY <2>2, <3>2 DEF AddsUp
    <3>4. f = body(f)
      BY <3>2, <3>3 DEF Some
    <3>5. QED
      BY <3>4
  <2>4. G = body(G)
    <3> HIDE DEF body
    <3>1. QED
      BY <2>3
  <2> HIDE DEF G
  <2>5. AddsUp(G, w, SUBSET S)
    <3>1. \A R \in SUBSET S : G[R] = IF R = {} THEN 0 ELSE Some(R).points + G[R \ {Some(R)}]
      BY <2>4 DEF Some
    <3>2. QED
      BY <2>2, <3>1 DEF AddsUp
  <2>6. G[S] = F[S]
    BY <1>3, <2>5, SumsAgree
  <2>7. QED
    BY <2>1, <2>6
<1>5. QED
  BY <1>3, <1>4 DEF w

-----------------------------------------------------------------------------
(* Planning: the velocity *)

\* The iteration At finds is the one whose days the time is in.
LEMMA FallsInto ==
  ASSUME NEW s, IsSettings(s), NEW t \in Int, t >= Number(s, 1).start
  PROVE  /\ At(s, t).number \in Nat \ {0} /\ At(s, t) = Number(s, At(s, t).number)
         /\ \A n \in Nat \ {0} :
              At(s, t).number = n <=> Number(s, n).start <= t /\ t < Number(s, n).end
<1>1. /\ At(s, t).number \in Nat \ {0} /\ At(s, t) = Number(s, At(s, t).number)
      /\ At(s, t).start <= t /\ t < At(s, t).end
  BY AtFinds
<1>2. ASSUME NEW n \in Nat \ {0}, Number(s, n).start <= t, t < Number(s, n).end
      PROVE  At(s, t).number = n
  <2>1. n \in Int
    OBVIOUS
  <2>2. At(s, t) = Number(s, n)
    BY <1>2, <2>1, AtIs
  <2>3. QED
    BY <2>2 DEF Number
<1>3. QED
  BY <1>1, <1>2

\* Whole iterations lie between two others.
LEMMA IterationsOrdered ==
  ASSUME NEW s, IsSettings(s), NEW n \in Int, NEW m \in Int, n < m
  PROVE  /\ Number(s, n).start \in Int /\ Number(s, n).end \in Int /\ Number(s, m).start \in Int
         /\ Number(s, n).start < Number(s, n).end
         /\ Number(s, n).end <= Number(s, m).start
<1>1. n + 1 \in Int /\ n + 1 <= m /\ n <= n + 1 /\ n <= m /\ (n + 1) - n = 1 /\ m - (n + 1) >= 0
  OBVIOUS
<1>2. /\ Number(s, n).start \in Int /\ Number(s, n + 1).start \in Int
      /\ Number(s, n).start + ((n + 1) - n) <= Number(s, n + 1).start
      /\ Number(s, n).end = Number(s, n + 1).start
  BY <1>1, IterationsFollow
<1>3. /\ Number(s, m).start \in Int
      /\ Number(s, n + 1).start + (m - (n + 1)) <= Number(s, m).start
  BY <1>1, IterationsFollow
<1>4. QED
  BY <1>1, <1>2, <1>3

\* Acceptances of a project until now.
IsAccepted(s, rows, now) ==
  /\ IsSettings(s) /\ s.anchor \in Nat /\ now \in Nat /\ s.anchor <= now
  /\ IsFiniteSet(rows)
  /\ \A r \in rows : /\ r.at \in Nat /\ s.anchor <= r.at /\ r.at <= now
                     /\ r.points \in Int

\* What was accepted in different iterations is different.
LEMMA DuringApart ==
  ASSUME NEW s, NEW rows, NEW now, IsAccepted(s, rows, now),
         NEW m \in Int, NEW n \in Int, m # n
  PROVE  During(s, rows, m) \cap During(s, rows, n) = {}
<1>1. IsSettings(s) /\ \A r \in rows : r.at \in Int
  BY DEF IsAccepted
<1>2. ASSUME NEW i \in Int, NEW j \in Int, i < j
      PROVE  During(s, rows, i) \cap During(s, rows, j) = {}
  <2>1. Number(s, i).end <= Number(s, j).start /\ Number(s, i).end \in Int /\ Number(s, j).start \in Int
    BY <1>1, <1>2, IterationsOrdered
  <2>2. \A r \in rows : ~(r.at < Number(s, i).end /\ Number(s, j).start <= r.at)
    BY <1>1, <2>1
  <2>3. QED
    BY <2>2 DEF During
<1>3. CASE m < n
  BY <1>2, <1>3
<1>4. CASE n < m
  BY <1>2, <1>4
<1>5. QED
  BY <1>3, <1>4

\* A bucket of the velocity is what was accepted in its iteration.
LEMMA BucketIs ==
  ASSUME NEW s, NEW rows, NEW now, IsAccepted(s, rows, now),
         NEW f \in Nat \ {0}, NEW c \in Nat, NEW n \in f..(c - 1)
  PROVE  Bucket(s, rows, Number(s, f).start, Number(s, c).start, n) = During(s, rows, n)
<1>1. IsSettings(s) /\ Number(s, 1).start <= s.anchor /\ Number(s, 1).start \in Int /\ s.anchor \in Nat
  <2>1. IsSettings(s) /\ s.anchor \in Nat
    BY DEF IsAccepted
  <2>2. origin(s) + (1 - 1) * length(s) = origin(s)
    BY <2>1, OriginBeforeAnchor, LengthPositive
  <2>3. QED
    BY <2>1, <2>2, OriginBeforeAnchor, IterationsFollow DEF Number
<1>2. n \in Nat \ {0} /\ f <= n /\ n < c /\ n \in Int /\ f \in Int /\ c \in Int
  OBVIOUS
<1>3. Number(s, n).end <= Number(s, c).start /\ Number(s, n).end \in Int /\ Number(s, c).start \in Int
  BY <1>1, <1>2, IterationsOrdered
<1>4. Number(s, f).start <= Number(s, n).start /\ Number(s, f).start \in Int /\ Number(s, n).start \in Int
  <2>1. Number(s, f).start + (n - f) <= Number(s, n).start
        /\ Number(s, f).start \in Int /\ Number(s, n).start \in Int
    BY <1>1, <1>2, IterationsFollow
  <2>2. QED
    BY <1>2, <2>1
<1>5. \A r \in rows :
        (Number(s, f).start <= r.at /\ r.at < Number(s, c).start) /\ At(s, r.at).number = n
          <=> Number(s, n).start <= r.at /\ r.at < Number(s, n).end
  <2> TAKE r \in rows
  <2>1. r.at \in Int /\ r.at >= Number(s, 1).start
    BY <1>1 DEF IsAccepted
  <2>2. At(s, r.at).number = n <=> Number(s, n).start <= r.at /\ r.at < Number(s, n).end
    BY <1>1, <1>2, <2>1, FallsInto
  <2>3. QED
    BY <1>3, <1>4, <2>1, <2>2
<1>6. QED
  BY <1>5, Zenon DEF Bucket, ListAcceptedStories, During

\* The velocity is the mean over the completed iterations of the window.
LEMMA VelocityIs ==
  ASSUME NEW s, NEW rows, NEW now, IsAccepted(s, rows, now), NEW window \in Nat \ {0}
  PROVE  LET current == At(s, now)
             counted == {n \in 1..(current.number - 1) : n >= current.number - window}
         IN  Velocity(s, rows, window, now) =
               IF counted = {} THEN DefaultVelocity
               ELSE TotalPoints(UNION {During(s, rows, n) : n \in counted})
                      \div Cardinality(counted)
<1> DEFINE c       == At(s, now).number
           counted == {n \in 1..(c - 1) : n >= c - window}
           first   == IF c - window > 1 THEN c - window ELSE 1
           points  == [n \in first..(c - 1) |->
                         TotalPoints(Bucket(s, rows, Number(s, first).start, At(s, now).start, n))]
<1>1. Velocity(s, rows, window, now) =
        IF first >= c THEN DefaultVelocity
        ELSE MapThenSumSet(LAMBDA n : points[n], DOMAIN points) \div Cardinality(DOMAIN points)
  BY DEF Velocity
<1>2. c \in Nat \ {0} /\ At(s, now).start = Number(s, c).start
  <2>1. IsSettings(s) /\ now \in Int
    BY DEF IsAccepted
  <2>2. QED
    BY <2>1, AtFinds
<1> HIDE DEF c
<1>3. first \in Nat \ {0} /\ counted = first..(c - 1) /\ (first >= c <=> counted = {})
  <2>1. first \in Nat \ {0} /\ \A n \in Int : n \in first..(c - 1) <=> n \in 1..(c - 1) /\ n >= c - window
    BY <1>2
  <2>2. \A n \in counted : n \in Int
    BY <1>2
  <2>3. \A n \in first..(c - 1) : n \in Int
    BY <1>2
  <2>4. counted = first..(c - 1)
    BY <2>1, <2>2, <2>3, Zenon
  <2>5. first >= c <=> first..(c - 1) = {}
    BY <1>2, <2>1
  <2>6. QED
    BY <2>1, <2>4, <2>5
<1> HIDE DEF first, counted
<1>4. \A n \in first..(c - 1) : points[n] = TotalPoints(During(s, rows, n))
  BY <1>2, <1>3, BucketIs
<1>5. DOMAIN points = counted
  BY <1>3
<1> HIDE DEF points
<1>6. CASE counted = {}
  BY <1>1, <1>3, <1>6 DEF c, counted
<1>7. CASE counted # {}
  <2>1. PICK F : /\ Sums(F, [r \in rows |-> r.points], rows)
                 /\ \A S \in SUBSET rows : MapThenSumSet(LAMBDA r : r.points, S) = F[S]
    BY TotalIs DEF IsAccepted
  <2>2. \A S \in SUBSET rows : TotalPoints(S) = F[S]
    BY <2>1 DEF TotalPoints
  <2>3. \A S \in SUBSET rows : F[S] \in Int
    BY <2>1, TakeAny
  <2> DEFINE part == [n \in counted |-> During(s, rows, n)]
  <2>4. Parts(part, points, F, counted, rows)
    <3>1. \A n \in counted : part[n] \in SUBSET rows /\ points[n] = F[part[n]]
      BY <1>3, <1>4, <2>2 DEF During
    <3>2. \A m, n \in counted : m # n => part[m] \cap part[n] = {}
      <4>1. \A n \in counted : n \in Int
        BY <1>2, <1>3
      <4>2. QED
        BY <4>1, DuringApart
    <3> HIDE DEF part
    <3>3. QED
      BY <3>1, <3>2 DEF Parts
  <2>5. \A n \in counted : points[n] \in Int
    BY <2>3, <2>4 DEF Parts
  <2>6. IsFiniteSet(counted)
    BY <1>2, <1>3, FS_Interval
  <2>7. PICK G : AddsUp(G, points, SUBSET counted)
    BY <2>6, SumsExist
  <2>8. Sums(G, points, counted)
    BY <2>5, <2>6, <2>7 DEF Sums
  <2>9. MapThenSumSet(LAMBDA n : points[n], counted) = G[counted]
    <3>1. SumOf(points, counted) = G[counted]
      BY <2>8, SumIs
    <3>2. QED
      BY <3>1 DEF SumOf
  <2>10. G[counted] = F[Together(part, counted)]
    <3> HIDE DEF part
    <3>1. QED
      BY <2>1, <2>4, <2>8, SumOfSums
  <2>11. /\ Together(part, counted) = UNION {During(s, rows, n) : n \in counted}
         /\ UNION {During(s, rows, n) : n \in counted} \in SUBSET rows
    BY DEF During, Together
  <2>12. MapThenSumSet(LAMBDA n : points[n], counted)
           = TotalPoints(UNION {During(s, rows, n) : n \in counted})
    BY <2>2, <2>9, <2>10, <2>11
  <2>13. QED
    BY <1>1, <1>3, <1>5, <1>7, <2>12 DEF c, counted
<1>8. QED
  BY <1>6, <1>7

-----------------------------------------------------------------------------
(* Planning: the projection *)

\* From a value of V, the step to number n leads to another.
StaysIn(step, V, N) == \A x \in V, n \in 1..N : step[<<x, n>>] \in V

\* f is what the steps lead to from v on.
Recurs(f, v, step, V, N) ==
  f \in [0..N -> V] /\ f[0] = v /\ \A n \in 1..N : f[n] = step[<<f[n - 1], n>>]

LEMMA RecursionHas ==
  ASSUME NEW N \in Nat, NEW V, NEW v \in V, NEW step, StaysIn(step, V, N)
  PROVE  \E f : Recurs(f, v, step, V, N)
<1> DEFINE Upto(m) == \E f \in [0..m -> V] :
                        f[0] = v /\ \A n \in 1..m : f[n] = step[<<f[n - 1], n>>]
           Bad == {m \in Nat : m <= N /\ ~Upto(m)}
<1>1. Upto(0)
  <2> DEFINE f == [n \in 0..0 |-> v]
  <2>1. f \in [0..0 -> V] /\ f[0] = v /\ 1..0 = {}
    OBVIOUS
  <2>2. QED
    BY <2>1
<1>2. ASSUME NEW m \in Nat, m + 1 <= N, Upto(m)
      PROVE  Upto(m + 1)
  <2>1. PICK f \in [0..m -> V] : f[0] = v /\ \A n \in 1..m : f[n] = step[<<f[n - 1], n>>]
    BY <1>2
  <2> DEFINE new == step[<<f[m], m + 1>>]
             g   == [n \in 0..(m + 1) |-> IF n = m + 1 THEN new ELSE f[n]]
  <2>2. new \in V
    BY <1>2, <2>1 DEF StaysIn
  <2> HIDE DEF new
  <2>3. g \in [0..(m + 1) -> V]
    BY <2>1, <2>2
  <2>4. g[m + 1] = new /\ \A n \in 0..m : g[n] = f[n]
    OBVIOUS
  <2> HIDE DEF g
  <2>5. ASSUME NEW n \in 1..(m + 1)
        PROVE  g[n] = step[<<g[n - 1], n>>]
    <3>1. CASE n = m + 1
      <4>1. n - 1 = m /\ m \in 0..m
        BY <3>1
      <4>2. QED
        BY <2>4, <3>1, <4>1 DEF new
    <3>2. CASE n # m + 1
      <4>1. n \in 1..m /\ n \in 0..m /\ n - 1 \in 0..m
        BY <3>2
      <4>2. QED
        BY <2>1, <2>4, <4>1
    <3>3. QED
      BY <3>1, <3>2
  <2>6. g[0] = v
    BY <2>1, <2>4
  <2>7. QED
    BY <2>3, <2>5, <2>6
<1> HIDE DEF Upto
<1>3. Bad = {}
  <2> SUFFICES ASSUME Bad # {} PROVE FALSE
    OBVIOUS
  <2>1. PICK m \in Bad : \A k \in Bad : m <= k
    <3> HIDE DEF Bad
    <3>1. Bad \in SUBSET Nat
      BY DEF Bad
    <3>2. QED
      BY <3>1, LeastOf
  <2>2. m \in Nat /\ m <= N /\ m # 0 /\ ~Upto(m)
    BY <1>1
  <2>3. m - 1 \in Nat /\ ~(m <= m - 1) /\ (m - 1) + 1 = m /\ m - 1 <= N
    BY <2>2
  <2>4. Upto(m - 1)
    BY <2>1, <2>3
  <2>5. QED
    BY <1>2, <2>2, <2>3, <2>4
<1>4. Upto(N)
  BY <1>3
<1>5. QED
  BY <1>4, Zenon DEF Upto, Recurs

PlanRow == [number : Int, startAt : Int, points : Int, stories : Seq(Nat)]

Capacity(velocity) == IF velocity < 1 THEN 1 ELSE velocity

Opens(done, pts, capacity) ==
  LET points == IF done = <<>> THEN 0 ELSE done[Len(done)].points
  IN  done = <<>> \/ (pts > 0 /\ points > 0 /\ points + pts > capacity)

\* The rows of projectBacklog after one more story, the nth.
Taken(done, n, pts, capacity, current, len) ==
  LET marked == IF Opens(done, pts, capacity)
                THEN Append(done, NextMarker(done, current, len)) ELSE done
  IN  [marked EXCEPT ![Len(marked)].points = @ + pts,
                     ![Len(marked)].stories = Append(@, n)]

\* A new row for the story, or the last row with it.
AddsStory(done, n, pts, capacity, current, len, plan) ==
  LET l == Len(done)
  IN  /\ plan \in Seq(PlanRow)
      /\ Opens(done, pts, capacity) =>
           /\ Len(plan) = l + 1 /\ \A k \in 1..l : plan[k] = done[k]
           /\ plan[l + 1].number = current.number + (l + 1)
           /\ plan[l + 1].startAt = ProjectedStart(current, len, l + 1)
           /\ plan[l + 1].points = pts /\ plan[l + 1].stories = <<n>>
      /\ ~Opens(done, pts, capacity) =>
           /\ Len(plan) = l /\ l \in Nat \ {0} /\ \A k \in 1..(l - 1) : plan[k] = done[k]
           /\ plan[l].number = done[l].number /\ plan[l].startAt = done[l].startAt
           /\ plan[l].points = done[l].points + pts
           /\ plan[l].stories = Append(done[l].stories, n)

LEMMA TakenIs ==
  ASSUME NEW done \in Seq(PlanRow), NEW n \in Nat, NEW pts \in Nat, NEW capacity \in Nat,
         NEW current, current.number \in Int, current.end \in Int, NEW len \in Nat
  PROVE  AddsStory(done, n, pts, capacity, current, len,
                   Taken(done, n, pts, capacity, current, len))
<1> DEFINE opens == Opens(done, pts, capacity)
           plan == Taken(done, n, pts, capacity, current, len)
           l == Len(done)
           marker == NextMarker(done, current, len)
           marked == IF opens THEN Append(done, marker) ELSE done
           m == Len(marked)
           row == marked[m]
           last == [number |-> row.number, startAt |-> row.startAt,
                    points |-> row.points + pts, stories |-> Append(row.stories, n)]
<1>1. l \in Nat /\ DOMAIN done = 1..l /\ (l = 0 => opens)
  <2>1. l \in Nat /\ DOMAIN done = 1..l /\ (done # <<>> => l \in Nat \ {0})
    BY LenProperties, EmptySeq
  <2>2. done = <<>> => opens
    BY DEF Opens
  <2>3. QED
    BY <2>1, <2>2
<1> HIDE DEF opens
<1>2. marker \in PlanRow /\ marker.number = current.number + (l + 1)
      /\ marker.startAt = ProjectedStart(current, len, l + 1)
      /\ marker.points = 0 /\ marker.stories = <<>>
  <2>1. DayLength \in Nat /\ l + 1 - 1 \in Int
    BY <1>1, PlanningAssumption
  <2>2. (l + 1 - 1) * len \in Int
    BY <2>1
  <2>3. ((l + 1 - 1) * len) * DayLength \in Int
    BY <2>1, <2>2
  <2>4. ProjectedStart(current, len, l + 1) \in Int
    BY <2>3 DEF ProjectedStart
  <2>5. <<>> \in Seq(Nat)
    OBVIOUS
  <2>6. current.number + l + 1 \in Int /\ current.number + l + 1 = current.number + (l + 1)
    BY <1>1
  <2>7. marker = [number |-> current.number + l + 1,
                  startAt |-> ProjectedStart(current, len, l + 1), points |-> 0, stories |-> <<>>]
    BY DEF NextMarker
  <2> HIDE DEF marker
  <2>8. QED
    BY <2>4, <2>5, <2>6, <2>7 DEF PlanRow
<1> HIDE DEF marker
<1>3. /\ marked \in Seq(PlanRow) /\ m \in Nat \ {0} /\ DOMAIN marked = 1..m
      /\ opens => m = l + 1 /\ row = marker /\ \A k \in 1..l : marked[k] = done[k]
      /\ ~opens => marked = done /\ m = l
  <2>1. CASE opens
    <3>1. marked = Append(done, marker)
      BY <2>1
    <3>2. /\ marked \in Seq(PlanRow) /\ m = l + 1 /\ marked[l + 1] = marker
          /\ \A k \in 1..l : marked[k] = done[k]
      BY <1>2, <3>1, AppendProperties
    <3>3. DOMAIN marked = 1..m
      BY <3>2, LenProperties
    <3>4. QED
      BY <1>1, <2>1, <3>2, <3>3
  <2>2. CASE ~opens
    BY <1>1, <2>2
  <2>3. QED
    BY <2>1, <2>2
<1>4. plan = [marked EXCEPT ![m].points = @ + pts, ![m].stories = Append(@, n)]
  BY DEF Taken, marker, opens
<1> HIDE DEF plan
<1> HIDE DEF marked, m
<1>5. row \in PlanRow
  BY <1>3, ElementOfSeq
<1> HIDE DEF row
<1>6. last \in PlanRow
  <2>1. Append(row.stories, n) \in Seq(Nat)
    BY <1>5 DEF PlanRow
  <2>2. QED
    BY <1>5, <2>1 DEF PlanRow
<1>7. plan = [marked EXCEPT ![m] = last]
  <2>1. m \in DOMAIN marked
    BY <1>3
  <2> DEFINE mid == [row EXCEPT !.points = row.points + pts]
  <2>2. mid = [number |-> row.number, startAt |-> row.startAt,
               points |-> row.points + pts, stories |-> row.stories]
    <3>1. PICK a, b, c, d : row = [number |-> a, startAt |-> b, points |-> c, stories |-> d]
      <4>1. row = [number |-> row.number, startAt |-> row.startAt,
                   points |-> row.points, stories |-> row.stories]
        BY <1>5 DEF PlanRow
      <4>2. QED
        BY <4>1
    <3>2. mid = [number |-> a, startAt |-> b, points |-> row.points + pts, stories |-> d]
      BY <3>1
    <3>3. row.number = a /\ row.startAt = b /\ row.stories = d
      BY <3>1
    <3> HIDE DEF mid
    <3>4. QED
      BY <3>2, <3>3
  <2> HIDE DEF mid
  <2>3. mid.stories = row.stories /\ [mid EXCEPT !.stories = Append(mid.stories, n)] = last
    <3>1. mid.stories = row.stories
      BY <2>2
    <3> DEFINE more == Append(row.stories, n)
               p == row.points + pts
    <3>2. last = [number |-> row.number, startAt |-> row.startAt, points |-> p, stories |-> more]
      BY DEF last
    <3>3. mid = [number |-> row.number, startAt |-> row.startAt, points |-> p, stories |-> row.stories]
      BY <2>2
    <3> HIDE DEF more, p
    <3>4. [mid EXCEPT !.stories = more]
            = [number |-> row.number, startAt |-> row.startAt, points |-> p, stories |-> more]
      BY <3>3
    <3>5. QED
      BY <3>1, <3>2, <3>4 DEF more
  <2> DEFINE first == [marked EXCEPT ![m] = mid]
  <2>4. plan = [first EXCEPT ![m].stories = Append(@, n)]
    BY <1>4 DEF mid, row
  <2>5. first[m] = mid /\ DOMAIN first = DOMAIN marked /\ \A k \in DOMAIN marked : k # m => first[k] = marked[k]
    BY <2>1
  <2> HIDE DEF first
  <2>6. plan = [first EXCEPT ![m] = [mid EXCEPT !.stories = Append(mid.stories, n)]]
    BY <2>4, <2>5
  <2>7. plan = [first EXCEPT ![m] = last]
    BY <2>3, <2>6
  <2>8. [first EXCEPT ![m] = last] = [marked EXCEPT ![m] = last]
    BY DEF first
  <2>9. QED
    BY <2>7, <2>8
<1> HIDE DEF last
<1>8. plan \in Seq(PlanRow) /\ Len(plan) = m /\ plan[m] = last
      /\ \A k \in 1..m : k # m => plan[k] = marked[k]
  BY <1>3, <1>6, <1>7, ExceptSeq
<1>9. ASSUME opens
      PROVE  /\ Len(plan) = l + 1 /\ \A k \in 1..l : plan[k] = done[k]
             /\ plan[l + 1].number = current.number + (l + 1)
             /\ plan[l + 1].startAt = ProjectedStart(current, len, l + 1)
             /\ plan[l + 1].points = pts /\ plan[l + 1].stories = <<n>>
  <2>1. \A k \in 1..l : plan[k] = done[k]
    BY <1>1, <1>3, <1>8, <1>9
  <2>2. Append(<<>>, n) = <<n>>
    OBVIOUS
  <2>3. plan[l + 1] = last /\ last.number = marker.number /\ last.startAt = marker.startAt
        /\ last.points = 0 + pts /\ last.stories = Append(<<>>, n)
    BY <1>2, <1>3, <1>8, <1>9 DEF last
  <2>4. QED
    BY <1>2, <1>3, <1>8, <1>9, <2>1, <2>2, <2>3
<1>10. ASSUME ~opens
       PROVE  /\ Len(plan) = l /\ l \in Nat \ {0} /\ \A k \in 1..(l - 1) : plan[k] = done[k]
              /\ plan[l].number = done[l].number /\ plan[l].startAt = done[l].startAt
              /\ plan[l].points = done[l].points + pts
              /\ plan[l].stories = Append(done[l].stories, n)
  <2>1. \A k \in 1..(l - 1) : plan[k] = done[k]
    BY <1>1, <1>3, <1>8, <1>10
  <2>2. row = done[l] /\ Len(plan) = l /\ l \in Nat \ {0} /\ plan[l] = last
    BY <1>1, <1>3, <1>8, <1>10 DEF row
  <2>3. /\ last.number = row.number /\ last.startAt = row.startAt
        /\ last.points = row.points + pts /\ last.stories = Append(row.stories, n)
    BY DEF last
  <2>4. QED
    BY <1>8, <1>10, <2>1, <2>2, <2>3
<1> HIDE DEF l
<1>11. QED
  BY <1>8, <1>9, <1>10 DEF AddsStory, opens, plan, l

\* A sum of numbers from one on is at least their number.
LEMMA SumAtLeast ==
  ASSUME NEW T, NEW w, NEW F, Sums(F, w, T),
         NEW V \in SUBSET T, \A x \in V : w[x] >= 1
  PROVE  F[V] >= Cardinality(V) /\ Cardinality(V) \in Nat /\ F[V] \in Int
<1> DEFINE Bad == {n \in Nat : \E S \in SUBSET V : Cardinality(S) = n /\ ~(F[S] >= n)}
<1>1. /\ F[{}] = 0
      /\ \A S \in SUBSET T : F[S] \in Int /\ \A x \in S : F[S] = w[x] + F[S \ {x}]
  BY TakeAny
<1>2. IsFiniteSet(V) /\ \A x \in T : w[x] \in Int
  BY FS_Subset DEF Sums
<1>3. Bad = {}
  <2> SUFFICES ASSUME Bad # {} PROVE FALSE
    OBVIOUS
  <2>1. PICK n \in Bad : \A m \in Bad : n <= m
    <3> HIDE DEF Bad
    <3>1. Bad \in SUBSET Nat
      BY DEF Bad
    <3>2. QED
      BY <3>1, LeastOf
  <2>2. PICK S \in SUBSET V : Cardinality(S) = n /\ ~(F[S] >= n)
    OBVIOUS
  <2>3. n \in Nat
    OBVIOUS
  <2>4. S # {}
    <3>1. SUFFICES ASSUME S = {} PROVE FALSE
      OBVIOUS
    <3>2. Cardinality(S) = 0 /\ F[S] = 0
      BY <1>1, <3>1, FS_EmptySet
    <3>3. QED
      BY <2>2, <3>2
  <2>5. PICK x : x \in S
    BY <2>4
  <2>6. /\ S \ {x} \in SUBSET V /\ Cardinality(S) \in Nat \ {0}
        /\ Cardinality(S \ {x}) = Cardinality(S) - 1
    BY <1>2, <2>5, OneFewer
  <2>7. n - 1 \in Nat /\ ~(n <= n - 1) /\ Cardinality(S \ {x}) = n - 1
    BY <2>2, <2>3, <2>6
  <2>8. F[S \ {x}] >= n - 1
    BY <2>1, <2>6, <2>7
  <2>9. S \in SUBSET T /\ S \ {x} \in SUBSET T /\ x \in T /\ x \in V
    BY <2>5
  <2>10. F[S] = w[x] + F[S \ {x}] /\ F[S \ {x}] \in Int /\ w[x] \in Int /\ w[x] >= 1
    BY <1>1, <1>2, <2>5, <2>9
  <2>11. QED
    BY <2>2, <2>3, <2>8, <2>10
<1>4. Cardinality(V) \in Nat /\ F[V] \in Int
  BY <1>1, <1>2, FS_CardinalityType
<1>5. QED
  BY <1>3, <1>4

Pointed(b, row) == {i \in DOMAIN b : b[i] > 0 /\ \E j \in DOMAIN row.stories : row.stories[j] = i}

Places(b) == 1..Len(b)

Begins(row) == row.stories[1]
Ends(row) == row.stories[Len(row.stories)]

\* A row holds consecutive stories of the backlog b, and their points.
RowHolds(b, F, capacity, row) ==
  /\ row \in PlanRow /\ Len(row.stories) >= 1
  /\ \A j \in 1..Len(row.stories) : row.stories[j] = Begins(row) + j - 1
  /\ row.points = F[Pointed(b, row)]
  /\ row.points <= capacity \/ Cardinality(Pointed(b, row)) <= 1

\* The first story of a row.
LEMMA RowBegins ==
  ASSUME NEW b \in Seq(Nat), NEW F, Sums(F, b, Places(b)), NEW capacity \in Nat,
         NEW n \in 1..Len(b),
         NEW row \in PlanRow, row.points = b[n], row.stories = <<n>>
  PROVE  RowHolds(b, F, capacity, row) /\ Begins(row) = n /\ Ends(row) = n
<1>1. Len(row.stories) = 1 /\ row.stories[1] = n /\ DOMAIN row.stories = 1..1
  OBVIOUS
<1>2. DOMAIN b = Places(b) /\ b[n] \in Nat /\ n \in Nat /\ n \in Places(b)
  BY DEF Places
<1>3. Pointed(b, row) = IF b[n] > 0 THEN {n} ELSE {}
  <2>1. \A i : (\E j \in DOMAIN row.stories : row.stories[j] = i) <=> i = n
    BY <1>1
  <2>2. \A i : i \in Pointed(b, row) <=> i \in DOMAIN b /\ b[i] > 0 /\ i = n
    BY <2>1 DEF Pointed
  <2>3. QED
    BY <1>2, <2>2
<1>4. F[{}] = 0 /\ F[{n}] = b[n]
  <2>1. /\ F[{}] = 0
        /\ \A S \in SUBSET Places(b) : F[S] \in Int /\ \A x \in S : F[S] = b[x] + F[S \ {x}]
    BY TakeAny
  <2>2. {n} \in SUBSET Places(b) /\ {n} \ {n} = {}
    BY <1>2
  <2>3. F[{n}] = b[n] + F[{n} \ {n}] /\ F[{n}] \in Int
    BY <2>1, <2>2
  <2>4. F[{n}] = b[n] + 0
    BY <2>1, <2>2, <2>3
  <2>5. QED
    BY <1>2, <2>1, <2>4
<1>5. row.points = F[Pointed(b, row)]
  BY <1>2, <1>3, <1>4
<1>6. Cardinality(Pointed(b, row)) <= 1
  <2>1. Cardinality({}) = 0 /\ Cardinality({n}) = 1
    BY FS_EmptySet, FS_Singleton
  <2>2. QED
    BY <1>3, <2>1
<1>7. \A j \in 1..1 : row.stories[j] = Begins(row) + j - 1
  BY <1>1, <1>2 DEF Begins
<1>8. QED
  BY <1>1, <1>5, <1>6, <1>7 DEF RowHolds, Begins, Ends

\* One more story in a row, where no new one opens.
LEMMA RowGrows ==
  ASSUME NEW b \in Seq(Nat), NEW F, Sums(F, b, Places(b)), NEW capacity \in Nat,
         NEW old, RowHolds(b, F, capacity, old), Begins(old) \in Nat,
         NEW n \in 1..Len(b), n = Ends(old) + 1,
         NEW row \in PlanRow, row.points = old.points + b[n],
         row.stories = Append(old.stories, n),
         ~(b[n] > 0 /\ old.points > 0 /\ old.points + b[n] > capacity)
  PROVE  RowHolds(b, F, capacity, row) /\ Begins(row) = Begins(old) /\ Ends(row) = n
<1> DEFINE l == Len(old.stories)
<1>1. /\ old \in PlanRow /\ old.stories \in Seq(Nat) /\ l \in Nat /\ l >= 1
      /\ DOMAIN old.stories = 1..l /\ old.points \in Int
      /\ \A j \in 1..l : old.stories[j] = Begins(old) + j - 1
  BY LenProperties DEF RowHolds, PlanRow
<1>2. /\ Len(row.stories) = l + 1 /\ DOMAIN row.stories = 1..(l + 1)
      /\ row.stories[l + 1] = n /\ \A j \in 1..l : row.stories[j] = old.stories[j]
  <2>1. n \in Nat
    OBVIOUS
  <2>2. /\ Len(row.stories) = l + 1 /\ row.stories \in Seq(Nat)
        /\ row.stories[l + 1] = n /\ \A j \in 1..l : row.stories[j] = old.stories[j]
    BY <1>1, <2>1, AppendProperties
  <2>3. QED
    BY <2>2, LenProperties
<1> HIDE DEF l
<1>3. Ends(old) = Begins(old) + l - 1 /\ n = Begins(old) + l
  <2>1. Ends(old) = Begins(old) + l - 1
    <3>1. l \in 1..l /\ Ends(old) = old.stories[l]
      BY <1>1 DEF Ends, l
    <3>2. QED
      BY <1>1, <3>1
  <2>2. QED
    BY <1>1, <2>1
<1>4. Begins(row) = Begins(old) /\ Ends(row) = n
  <2>1. 1 \in 1..l
    BY <1>1
  <2>2. row.stories[1] = old.stories[1]
    BY <1>2, <2>1
  <2>3. QED
    BY <1>2, <2>2 DEF Begins, Ends
<1>5. \A j \in 1..(l + 1) : row.stories[j] = Begins(row) + j - 1
  <2> TAKE j \in 1..(l + 1)
  <2>1. CASE j = l + 1
    BY <1>1, <1>2, <1>3, <1>4, <2>1
  <2>2. CASE j # l + 1
    <3>1. j \in 1..l
      BY <1>1, <2>2
    <3>2. QED
      BY <1>1, <1>2, <1>4, <3>1
  <2>3. QED
    BY <2>1, <2>2
<1>6. DOMAIN b = Places(b) /\ b[n] \in Nat /\ n \in Places(b) /\ \A i \in Places(b) : b[i] \in Nat
  BY DEF Places
<1> DEFINE P == Pointed(b, old)
           Q == Pointed(b, row)
<1>7. P \in SUBSET Places(b) /\ n \notin P /\ Q = IF b[n] > 0 THEN P \cup {n} ELSE P
  <2>1. n \notin P
    <3>1. \A j \in 1..l : old.stories[j] # n
      BY <1>1, <1>3
    <3>2. QED
      BY <1>1, <3>1 DEF Pointed
  <2>2. \A i : (\E j \in DOMAIN row.stories : row.stories[j] = i)
                 <=> i = n \/ (\E j \in DOMAIN old.stories : old.stories[j] = i)
    <3>1. \A j \in 1..(l + 1) : j \in 1..l \/ j = l + 1
      BY <1>1
    <3>2. l + 1 \in 1..(l + 1) /\ \A j \in 1..l : j \in 1..(l + 1)
      BY <1>1
    <3>3. QED
      BY <1>1, <1>2, <3>1, <3>2, Zenon
  <2>3. P \in SUBSET Places(b)
    BY <1>6 DEF Pointed
  <2>4. \A i : i \in P <=> i \in DOMAIN b /\ b[i] > 0 /\ \E j \in DOMAIN old.stories : old.stories[j] = i
    BY DEF Pointed
  <2>5. \A i : i \in Q <=> i \in DOMAIN b /\ b[i] > 0 /\ \E j \in DOMAIN row.stories : row.stories[j] = i
    BY DEF Pointed
  <2> HIDE DEF P, Q
  <2>6. \A i : i \in Q <=> i \in P \/ (b[n] > 0 /\ i = n)
    BY <1>6, <2>2, <2>4, <2>5
  <2>7. QED
    BY <2>1, <2>3, <2>6
<1>8. old.points = F[P] /\ (old.points <= capacity \/ Cardinality(P) <= 1)
  BY DEF RowHolds
<1>9. F[P] >= Cardinality(P) /\ Cardinality(P) \in Nat
  <2>1. \A i \in P : b[i] >= 1
    BY <1>6 DEF Pointed
  <2>2. QED
    <3> HIDE DEF P
    <3>1. QED
      BY <1>7, <2>1, SumAtLeast
<1>10. IsFiniteSet(P) /\ IsFiniteSet(Places(b))
  BY <1>7, FS_Subset DEF Sums
<1> HIDE DEF P, Q
<1>11. row.points = F[Q] /\ (row.points <= capacity \/ Cardinality(Q) <= 1)
  <2>1. CASE b[n] = 0
    <3>1. Q = P /\ row.points = old.points
      BY <1>1, <1>7, <2>1
    <3>2. QED
      BY <1>8, <3>1
  <2>2. CASE b[n] # 0
    <3>1. b[n] > 0 /\ Q = P \cup {n} /\ Q \ {n} = P /\ n \in Q /\ Q \in SUBSET Places(b)
      <4>1. b[n] > 0 /\ Q = P \cup {n}
        BY <1>6, <1>7, <2>2
      <4>2. Q \ {n} = P
        BY <1>7, <4>1, Zenon
      <4>3. Q \in SUBSET Places(b)
        BY <1>6, <1>7, <4>1
      <4>4. QED
        BY <4>1, <4>2, <4>3
    <3>2. F[Q] = b[n] + F[P]
      <4>1. /\ F[{}] = 0
            /\ \A S \in SUBSET Places(b) : F[S] \in Int /\ \A x \in S : F[S] = b[x] + F[S \ {x}]
        BY TakeAny
      <4>2. F[Q] = b[n] + F[Q \ {n}]
        BY <3>1, <4>1
      <4>3. QED
        BY <3>1, <4>2, Zenon
    <3>3. row.points = F[Q]
      BY <1>1, <1>6, <1>8, <3>2
    <3>4. old.points > 0 => row.points <= capacity
      BY <1>1, <1>6, <3>1
    <3>5. ~(old.points > 0) => Cardinality(Q) <= 1
      <4>1. SUFFICES ASSUME ~(old.points > 0) PROVE Cardinality(Q) <= 1
        OBVIOUS
      <4>2. Cardinality(P) = 0
        BY <1>1, <1>8, <1>9, <4>1
      <4>3. P = {}
        BY <1>10, <4>2, FS_EmptySet
      <4>4. Q = {n}
        BY <3>1, <4>3
      <4>5. Cardinality(Q) = 1
        BY <4>4, FS_Singleton
      <4>6. QED
        BY <4>5
    <3>6. QED
      BY <3>3, <3>4, <3>5
  <2>3. QED
    BY <2>1, <2>2
<1>12. QED
  <2>1. Len(row.stories) = l + 1 /\ l + 1 >= 1
    BY <1>1, <1>2
  <2>2. row.points = F[Pointed(b, row)]
        /\ (row.points <= capacity \/ Cardinality(Pointed(b, row)) <= 1)
    BY <1>11 DEF Q
  <2>3. QED
    BY <1>4, <1>5, <2>1, <2>2 DEF RowHolds

RowAt(b, F, capacity, current, len, row, k) ==
  /\ RowHolds(b, F, capacity, row)
  /\ row.number = current.number + k
  /\ row.startAt = ProjectedStart(current, len, k)

\* A row begins where the one before ends, as its first story did not fit there.
Follows(b, capacity, old, row) ==
  /\ Begins(row) = Ends(old) + 1 /\ Begins(row) \in DOMAIN b
  /\ old.points + b[Begins(row)] > capacity

\* The rows of the first n stories.
PlanHolds(b, F, capacity, current, len, plan, n) ==
  /\ plan \in Seq(PlanRow)
  /\ n = 0 => plan = <<>>
  /\ n > 0 => plan # <<>> /\ Begins(plan[1]) = 1 /\ Ends(plan[Len(plan)]) = n
  /\ \A k \in 1..Len(plan) : RowAt(b, F, capacity, current, len, plan[k], k)
  /\ \A k \in 2..Len(plan) : Follows(b, capacity, plan[k - 1], plan[k])

LEMMA PlanGrows ==
  ASSUME NEW b \in Seq(Nat), NEW F, Sums(F, b, Places(b)), NEW capacity \in Nat,
         NEW current, current.number \in Int, current.end \in Int, NEW len \in Nat,
         NEW n \in 1..Len(b), NEW done,
         PlanHolds(b, F, capacity, current, len, done, n - 1)
  PROVE  LET plan == Taken(done, n, b[n], capacity, current, len)
         IN  plan \in Seq(PlanRow) /\ PlanHolds(b, F, capacity, current, len, plan, n)
<1> DEFINE plan  == Taken(done, n, b[n], capacity, current, len)
           l     == Len(done)
           opens == Opens(done, b[n], capacity)
           R(row, k) == RowAt(b, F, capacity, current, len, row, k)
<1>1. /\ done \in Seq(PlanRow) /\ l \in Nat /\ (done # <<>> => l \in Nat \ {0})
      /\ done # <<>> <=> n - 1 > 0
      /\ n - 1 > 0 => Begins(done[1]) = 1 /\ Ends(done[l]) = n - 1
      /\ \A k \in 1..l : R(done[k], k) /\ done[k] \in PlanRow
      /\ \A k \in 2..l : Follows(b, capacity, done[k - 1], done[k])
  <2>1. done \in Seq(PlanRow)
    BY DEF PlanHolds
  <2>2. l \in Nat /\ (done # <<>> => l \in Nat \ {0}) /\ \A k \in 1..l : done[k] \in PlanRow
    BY <2>1, LenProperties, EmptySeq, ElementOfSeq
  <2>3. n - 1 = 0 \/ n - 1 > 0
    OBVIOUS
  <2>4. QED
    BY <2>1, <2>2, <2>3 DEF PlanHolds
<1>2. n \in Nat /\ b[n] \in Nat /\ n \in DOMAIN b
  OBVIOUS
<1>3. /\ plan \in Seq(PlanRow)
      /\ opens =>
           /\ Len(plan) = l + 1 /\ \A k \in 1..l : plan[k] = done[k]
           /\ plan[l + 1].number = current.number + (l + 1)
           /\ plan[l + 1].startAt = ProjectedStart(current, len, l + 1)
           /\ plan[l + 1].points = b[n] /\ plan[l + 1].stories = <<n>>
      /\ ~opens =>
           /\ Len(plan) = l /\ l \in Nat \ {0} /\ \A k \in 1..(l - 1) : plan[k] = done[k]
           /\ plan[l].number = done[l].number /\ plan[l].startAt = done[l].startAt
           /\ plan[l].points = done[l].points + b[n]
           /\ plan[l].stories = Append(done[l].stories, n)
  <2> DEFINE pts == b[n]
  <2>1. pts \in Nat
    BY <1>2
  <2>2. AddsStory(done, n, pts, capacity, current, len,
                  Taken(done, n, pts, capacity, current, len))
    <3> HIDE DEF pts
    <3>1. QED
      BY <1>1, <1>2, <2>1, TakenIs
  <2>3. AddsStory(done, n, b[n], capacity, current, len, plan)
    BY <2>2
  <2> HIDE DEF plan
  <2>4. QED
    BY <2>3 DEF AddsStory
<1> HIDE DEF plan, l
<1>4. ~(b[n] > 0 /\ done[l].points > 0 /\ done[l].points + b[n] > capacity) \/ opens
  BY DEF Opens, l
<1>5. opens /\ done # <<>> => done[l].points + b[n] > capacity
  BY DEF Opens, l
<1> HIDE DEF opens
<1>6. Len(plan) \in Nat /\ \A k \in 1..Len(plan) : plan[k] \in PlanRow
  BY <1>3, LenProperties, ElementOfSeq
<1>7. CASE opens
  <2>1. l + 1 \in 1..Len(plan)
    BY <1>1, <1>3, <1>7
  <2>2. plan[l + 1] \in PlanRow
    BY <1>6, <2>1
  <2>3. /\ RowHolds(b, F, capacity, plan[l + 1])
        /\ Begins(plan[l + 1]) = n /\ Ends(plan[l + 1]) = n
    BY <1>3, <1>7, <2>2, RowBegins
  <2>4. R(plan[l + 1], l + 1)
    BY <1>3, <1>7, <2>3 DEF RowAt
  <2>5. \A k \in 1..Len(plan) : R(plan[k], k)
    <3>1. \A k \in 1..Len(plan) : k \in 1..l \/ k = l + 1
      BY <1>1, <1>3, <1>7
    <3>2. \A k \in 1..l : R(plan[k], k)
      BY <1>1, <1>3, <1>7
    <3>3. QED
      BY <2>4, <3>1, <3>2
  <2>6. ASSUME NEW k \in 2..Len(plan)
        PROVE  Follows(b, capacity, plan[k - 1], plan[k])
    <3>1. CASE k = l + 1
      <4>1. l \in 1..l /\ k - 1 = l
        BY <1>1, <1>6, <3>1
      <4>2. plan[l] = done[l] /\ plan[k - 1] = done[l]
        BY <1>3, <1>7, <4>1
      <4>3. done # <<>>
        <5>1. Len(<<>>) = 0
          BY EmptySeq
        <5>2. QED
          BY <4>1, <5>1 DEF l
      <4>4. Ends(done[l]) = n - 1
        BY <1>1, <4>3
      <4>5. Begins(plan[k]) = n
        BY <2>3, <3>1
      <4>6. QED
        BY <1>2, <1>5, <1>7, <4>2, <4>3, <4>4, <4>5 DEF Follows
    <3>2. CASE k # l + 1
      <4>1. k \in 2..l /\ k \in 1..l /\ k - 1 \in 1..l
        BY <1>1, <1>3, <1>7, <3>2
      <4>2. QED
        BY <1>1, <1>3, <1>7, <4>1
    <3>3. QED
      BY <3>1, <3>2
  <2>7. plan # <<>> /\ Begins(plan[1]) = 1 /\ Ends(plan[Len(plan)]) = n
    <3>1. plan # <<>>
      <4>1. Len(<<>>) = 0
        BY EmptySeq
      <4>2. QED
        BY <1>1, <1>3, <1>7, <4>1
    <3>2. CASE done = <<>>
      <4>1. l = 0 /\ n = 1
        <5>1. l = 0
          BY <3>2, EmptySeq DEF l
        <5>2. QED
          BY <1>1, <1>2, <3>2, <5>1
      <4>2. Len(plan) = l + 1 /\ l + 1 = 1
        BY <1>3, <1>7, <4>1
      <4>3. Begins(plan[1]) = 1 /\ Ends(plan[1]) = n
        BY <2>3, <4>1, <4>2
      <4>4. QED
        BY <3>1, <4>2, <4>3
    <3>3. CASE done # <<>>
      <4>1. 1 \in 1..l
        BY <1>1, <3>3
      <4>2. QED
        <5>1. plan[1] = done[1] /\ Begins(done[1]) = 1
          BY <1>1, <1>3, <1>7, <3>3, <4>1
        <5>2. Len(plan) = l + 1
          BY <1>3, <1>7
        <5>3. Begins(plan[1]) = 1
          BY <5>1
        <5>4. Ends(plan[Len(plan)]) = n
          BY <2>3, <5>2, Zenon
        <5>5. QED
          BY <3>1, <5>3, <5>4
    <3>4. QED
      BY <3>2, <3>3
  <2>8. QED
    BY <1>2, <1>3, <2>5, <2>6, <2>7 DEF PlanHolds, plan
<1>8. CASE ~opens
  <2>1. l \in 1..Len(plan) /\ l \in 1..l /\ l \in Nat \ {0} /\ Len(plan) = l
    BY <1>1, <1>3, <1>8
  <2>2. done # <<>> /\ n - 1 > 0
    <3>1. Len(<<>>) = 0
      BY EmptySeq
    <3>2. QED
      BY <1>1, <2>1, <3>1 DEF l
  <2>3. /\ RowHolds(b, F, capacity, done[l]) /\ n = Ends(done[l]) + 1
        /\ Begins(done[l]) \in Nat /\ plan[l] \in PlanRow
    <3>1. RowHolds(b, F, capacity, done[l])
      BY <1>1, <2>1 DEF RowAt
    <3>2. Begins(done[l]) \in Nat
      <4>1. done[l].stories \in Seq(Nat) /\ Len(done[l].stories) >= 1
        BY <3>1 DEF RowHolds, PlanRow
      <4>2. QED
        <5>1. 1 \in 1..Len(done[l].stories)
          BY <4>1
        <5>2. QED
          BY <4>1, <5>1, ElementOfSeq DEF Begins
    <3>3. QED
      BY <1>1, <1>2, <1>6, <2>1, <2>2, <3>1, <3>2
  <2>4. /\ RowHolds(b, F, capacity, plan[l])
        /\ Begins(plan[l]) = Begins(done[l]) /\ Ends(plan[l]) = n
    <3> DEFINE old == done[l]
               row == plan[l]
    <3>1. /\ RowHolds(b, F, capacity, old) /\ n = Ends(old) + 1
          /\ Begins(old) \in Nat /\ row \in PlanRow
          /\ row.points = old.points + b[n] /\ row.stories = Append(old.stories, n)
          /\ ~(b[n] > 0 /\ old.points > 0 /\ old.points + b[n] > capacity)
      BY <1>3, <1>4, <1>8, <2>3
    <3> HIDE DEF old, row
    <3>2. RowHolds(b, F, capacity, row) /\ Begins(row) = Begins(old) /\ Ends(row) = n
      BY <3>1, RowGrows
    <3>3. QED
      BY <3>2 DEF old, row
  <2>5. \A k \in 1..Len(plan) : R(plan[k], k)
    <3>1. \A k \in 1..l : k \in 1..(l - 1) \/ k = l
      BY <1>1
    <3>2. R(plan[l], l)
      <4>1. R(done[l], l)
        BY <1>1, <2>1
      <4>2. QED
        BY <1>3, <1>8, <2>4, <4>1 DEF RowAt
    <3>3. \A k \in 1..(l - 1) : k \in 1..l
      BY <1>1
    <3>4. QED
      BY <1>1, <1>3, <1>8, <2>1, <3>1, <3>2, <3>3
  <2>6. ASSUME NEW k \in 2..Len(plan)
        PROVE  Follows(b, capacity, plan[k - 1], plan[k])
    <3>1. k \in 2..l /\ k - 1 \in 1..(l - 1) /\ plan[k - 1] = done[k - 1]
      BY <1>3, <1>8, <2>1
    <3>2. Follows(b, capacity, done[k - 1], done[k])
      BY <1>1, <3>1
    <3>3. CASE k = l
      BY <2>4, <3>1, <3>2, <3>3 DEF Follows
    <3>4. CASE k # l
      <4>1. k \in 1..(l - 1)
        BY <2>1, <3>1, <3>4
      <4>2. plan[k] = done[k]
        BY <1>3, <1>8, <4>1
      <4>3. QED
        BY <3>1, <3>2, <4>2
    <3>5. QED
      BY <3>3, <3>4
  <2>7. plan # <<>> /\ Begins(plan[1]) = 1 /\ Ends(plan[Len(plan)]) = n
    <3>1. plan # <<>>
      <4>1. Len(<<>>) = 0
        BY EmptySeq
      <4>2. QED
        BY <2>1, <4>1
    <3>2. Begins(done[1]) = 1
      BY <1>1, <2>2
    <3>3. Begins(plan[1]) = Begins(done[1])
      <4>1. CASE l = 1
        BY <2>4, <4>1
      <4>2. CASE l # 1
        <5>1. 1 \in 1..(l - 1)
          BY <2>1, <4>2
        <5>2. QED
          BY <1>3, <1>8, <5>1
      <4>3. QED
        BY <4>1, <4>2
    <3>4. QED
      BY <2>1, <2>4, <3>1, <3>2, <3>3
  <2>8. QED
    BY <1>2, <1>3, <2>5, <2>6, <2>7 DEF PlanHolds, plan
<1>9. QED
  BY <1>7, <1>8

\* What projectBacklog gives.
LEMMA ProjectionIs ==
  ASSUME NEW b \in Seq(Nat), NEW F, Sums(F, b, Places(b)), NEW velocity \in Nat,
         NEW current, current.number \in Int, current.end \in Int, NEW len \in Nat
  PROVE  PlanHolds(b, F, Capacity(velocity), current, len,
                   projectBacklog(b, velocity, current, len), Len(b))
<1> DEFINE capacity == Capacity(velocity)
           N == Len(b)
           body(f) == [n \in 0..N |-> IF n = 0 THEN <<>>
                                      ELSE Taken(f[n - 1], n, b[n], capacity, current, len)]
           rows == CHOOSE f : f = body(f)
           Holds(plan, n) == PlanHolds(b, F, capacity, current, len, plan, n)
<1>1. projectBacklog(b, velocity, current, len) = rows[N]
  BY DEF projectBacklog, Taken, Opens, Capacity
<1>2. N \in Nat /\ capacity \in Nat
  BY DEF Capacity
<1> HIDE DEF capacity
<1>3. Holds(<<>>, 0)
  <2>1. <<>> \in Seq(PlanRow) /\ Len(<<>>) = 0
    BY EmptySeq
  <2>2. 1..0 = {} /\ 2..0 = {} /\ ~(0 > 0)
    OBVIOUS
  <2>3. QED
    BY <2>1, <2>2 DEF PlanHolds
<1>4. \A n \in 1..N : \A done : Holds(done, n - 1) =>
        LET plan == Taken(done, n, b[n], capacity, current, len)
        IN  plan \in Seq(PlanRow) /\ Holds(plan, n)
  BY <1>2, PlanGrows
<1> HIDE DEF N, Holds
<1>5. \E f : f = body(f)
  <2> DEFINE V == Seq(PlanRow)
             step == [x \in V \X (1..N) |-> Taken(x[1], x[2], b[x[2]], capacity, current, len)]
  <2>1. \A x \in V, n \in 1..N : /\ step[<<x, n>>] = Taken(x, n, b[n], capacity, current, len)
                                 /\ step[<<x, n>>] \in V
    <3>1. \A x \in V, n \in 1..N : step[<<x, n>>] = Taken(x, n, b[n], capacity, current, len)
      OBVIOUS
    <3> HIDE DEF step
    <3>2. ASSUME NEW x \in V, NEW n \in 1..N
          PROVE  Taken(x, n, b[n], capacity, current, len) \in V
      <4> DEFINE pts == b[n]
      <4>1. n \in Nat /\ pts \in Nat
        BY DEF N
      <4> HIDE DEF pts
      <4>2. AddsStory(x, n, pts, capacity, current, len,
                      Taken(x, n, pts, capacity, current, len))
        BY <1>2, <4>1, TakenIs
      <4>3. QED
        BY <4>2 DEF AddsStory, pts
    <3>3. QED
      BY <3>1, <3>2
  <2>2. <<>> \in V
    OBVIOUS
  <2> HIDE DEF V, step
  <2>3. PICK g \in [0..N -> V] : g[0] = <<>> /\ \A n \in 1..N : g[n] = step[<<g[n - 1], n>>]
    <3>1. StaysIn(step, V, N)
      BY <2>1 DEF StaysIn
    <3>2. \E g : Recurs(g, <<>>, step, V, N)
      BY <1>2, <2>2, <3>1, RecursionHas
    <3>3. QED
      BY <3>2 DEF Recurs
  <2>4. ASSUME NEW n \in 0..N
        PROVE  g[n] = IF n = 0 THEN <<>> ELSE Taken(g[n - 1], n, b[n], capacity, current, len)
    <3>1. CASE n = 0
      BY <2>3, <3>1
    <3>2. CASE n # 0
      <4>1. n \in 1..N /\ n - 1 \in 0..N
        BY <1>2, <3>2
      <4>2. g[n - 1] \in V /\ g[n] = step[<<g[n - 1], n>>]
        BY <2>3, <4>1
      <4>3. QED
        BY <2>1, <3>2, <4>1, <4>2
    <3>3. QED
      BY <3>1, <3>2
  <2>5. g = body(g)
    BY <2>3, <2>4
  <2>6. QED
    BY <2>5
<1>6. rows = body(rows)
  <2> HIDE DEF body
  <2>1. QED
    BY <1>5
<1> HIDE DEF rows
<1>7. \A n \in 0..N : rows[n] = IF n = 0 THEN <<>>
                                ELSE Taken(rows[n - 1], n, b[n], capacity, current, len)
  BY <1>6
<1> DEFINE Bad == {n \in Nat : n <= N /\ ~Holds(rows[n], n)}
<1>8. Bad = {}
  <2> SUFFICES ASSUME Bad # {} PROVE FALSE
    OBVIOUS
  <2>1. PICK n \in Bad : \A m \in Bad : n <= m
    <3> HIDE DEF Bad
    <3>1. Bad \in SUBSET Nat
      BY DEF Bad
    <3>2. QED
      BY <3>1, LeastOf
  <2>2. n \in Nat /\ n <= N /\ ~Holds(rows[n], n)
    OBVIOUS
  <2>3. n # 0
    <3>1. 0 \in 0..N
      BY <1>2
    <3>2. QED
      BY <1>3, <1>7, <2>2, <3>1
  <2>4. n \in 1..N /\ n \in 0..N /\ n - 1 \in Nat /\ n - 1 <= N /\ ~(n <= n - 1)
    BY <1>2, <2>2, <2>3
  <2>5. Holds(rows[n - 1], n - 1)
    BY <2>1, <2>4
  <2>6. rows[n] = Taken(rows[n - 1], n, b[n], capacity, current, len)
    BY <1>7, <2>3, <2>4
  <2>7. QED
    BY <1>4, <2>2, <2>4, <2>5, <2>6
<1>9. Holds(rows[N], N)
  BY <1>2, <1>8
<1>10. QED
  BY <1>1, <1>9 DEF Holds, N, capacity

\* Sequences of numbers, each of which goes on where the one before ends.
Pieces(q, e, L) ==
  /\ q \in [1..L -> Seq(Nat)] /\ e \in [0..L -> Nat] /\ e[0] = 0
  /\ \A k \in 1..L : /\ e[k] = e[k - 1] + Len(q[k])
                     /\ \A j \in 1..Len(q[k]) : q[k][j] = e[k - 1] + j

Joined(h, q, L) == \A k \in 0..L : h[k] = IF k = 0 THEN <<>> ELSE h[k - 1] \o q[k]

\* Put together they count.
LEMMA PiecesTogether ==
  ASSUME NEW L \in Nat, NEW q, NEW e, Pieces(q, e, L), NEW h, Joined(h, q, L)
  PROVE  h[L] \in Seq(Nat) /\ Len(h[L]) = e[L] /\ \A i \in 1..e[L] : h[L][i] = i
<1> DEFINE Good(k) == h[k] \in Seq(Nat) /\ Len(h[k]) = e[k] /\ \A i \in 1..e[k] : h[k][i] = i
           Bad     == {k \in Nat : k <= L /\ ~Good(k)}
<1>1. Good(0)
  <2>1. 0 \in 0..L
    OBVIOUS
  <2>2. h[0] = <<>> /\ e[0] = 0
    BY <2>1 DEF Joined, Pieces
  <2>3. <<>> \in Seq(Nat) /\ Len(<<>>) = 0 /\ 1..0 = {}
    OBVIOUS
  <2>4. QED
    BY <2>2, <2>3
<1>2. ASSUME NEW k \in 1..L, Good(k - 1)
      PROVE  Good(k)
  <2>1. k \in 0..L /\ k - 1 \in 0..L /\ k # 0
    OBVIOUS
  <2> DEFINE b == h[k - 1]
             m == q[k]
             p == e[k - 1]
  <2>2. /\ b \in Seq(Nat) /\ Len(b) = p /\ p \in Nat /\ \A i \in 1..p : b[i] = i
        /\ m \in Seq(Nat) /\ \A j \in 1..Len(m) : m[j] = p + j
        /\ h[k] = b \o m /\ e[k] = p + Len(m)
    BY <1>2, <2>1 DEF Joined, Pieces
  <2> HIDE DEF b, m, p
  <2>3. Len(m) \in Nat
    BY <2>2, LenProperties
  <2>4. /\ b \o m \in Seq(Nat) /\ Len(b \o m) = Len(b) + Len(m)
        /\ \A i \in 1..(Len(b) + Len(m)) : (b \o m)[i] = IF i <= Len(b) THEN b[i] ELSE m[i - Len(b)]
    BY <2>2, ConcatProperties
  <2>5. \A i \in 1..(p + Len(m)) : (b \o m)[i] = i
    <3> TAKE i \in 1..(p + Len(m))
    <3>1. CASE i <= p
      <4>1. i \in 1..p
        BY <2>2, <2>3, <3>1
      <4>2. QED
        BY <2>2, <2>4, <3>1, <4>1
    <3>2. CASE ~(i <= p)
      <4>1. i - p \in 1..Len(m) /\ p + (i - p) = i
        BY <2>2, <2>3, <3>2
      <4>2. (b \o m)[i] = m[i - p]
        BY <2>2, <2>4, <3>2
      <4>3. QED
        BY <2>2, <4>1, <4>2
    <3>3. QED
      BY <3>1, <3>2
  <2>6. QED
    BY <2>2, <2>4, <2>5
<1> HIDE DEF Good
<1>3. Bad = {}
  <2> SUFFICES ASSUME Bad # {} PROVE FALSE
    OBVIOUS
  <2>1. PICK k \in Bad : \A m \in Bad : k <= m
    <3> HIDE DEF Bad
    <3>1. Bad \in SUBSET Nat
      BY DEF Bad
    <3>2. QED
      BY <3>1, LeastOf
  <2>2. k \in Nat /\ k <= L /\ ~Good(k) /\ k # 0
    BY <1>1
  <2>3. k \in 1..L /\ k - 1 \in Nat /\ k - 1 <= L /\ ~(k <= k - 1)
    BY <2>2
  <2>4. Good(k - 1)
    BY <2>1, <2>3
  <2>5. QED
    BY <1>2, <2>2, <2>3, <2>4
<1>4. Good(L)
  BY <1>3
<1>5. QED
  BY <1>4 DEF Good

Joins(h, plan) ==
  h = [k \in 0..Len(plan) |-> IF k = 0 THEN <<>> ELSE h[k - 1] \o plan[k].stories]

\* The rows put together are the backlog.
LEMMA RowsTogether ==
  ASSUME NEW b \in Seq(Nat), NEW F, NEW capacity, NEW current, NEW len, NEW plan,
         PlanHolds(b, F, capacity, current, len, plan, Len(b))
  PROVE  /\ \E h : Joins(h, plan)
         /\ \A h : Joins(h, plan) => h[Len(plan)] = [i \in DOMAIN b |-> i]
<1> DEFINE L == Len(plan)
           e == [k \in 0..L |-> IF k = 0 THEN 0 ELSE Ends(plan[k])]
           q == [k \in 1..L |-> plan[k].stories]
<1>1. /\ plan \in Seq(PlanRow) /\ L \in Nat /\ Len(b) \in Nat /\ DOMAIN b = 1..Len(b)
      /\ L = 0 => Len(b) = 0
      /\ L > 0 => Len(b) > 0 /\ Ends(plan[L]) = Len(b)
  <2>1. plan \in Seq(PlanRow) /\ Len(b) \in Nat /\ DOMAIN b = 1..Len(b)
    BY DEF PlanHolds
  <2>2. L \in Nat /\ (plan # <<>> => L # 0) /\ Len(<<>>) = 0
    BY <2>1, EmptySeq, LenProperties
  <2>3. Len(b) = 0 \/ Len(b) > 0
    BY <2>1
  <2>4. QED
    BY <2>1, <2>2, <2>3 DEF PlanHolds
<1>2. \A k \in 1..L : /\ plan[k].stories \in Seq(Nat) /\ Len(plan[k].stories) \in Nat \ {0}
                      /\ \A j \in 1..Len(plan[k].stories) :
                           plan[k].stories[j] = Begins(plan[k]) + j - 1
                      /\ Begins(plan[k]) \in Nat
                      /\ Ends(plan[k]) = Begins(plan[k]) + Len(plan[k].stories) - 1
  <2> TAKE k \in 1..L
  <2> DEFINE r == plan[k].stories
  <2>1. /\ r \in Seq(Nat) /\ Len(r) >= 1
        /\ \A j \in 1..Len(r) : r[j] = Begins(plan[k]) + j - 1
    BY DEF PlanHolds, RowAt, RowHolds, PlanRow
  <2>2. Begins(plan[k]) = r[1] /\ Ends(plan[k]) = r[Len(r)]
    BY DEF Begins, Ends
  <2> HIDE DEF r
  <2>3. Len(r) \in Nat /\ 1 \in 1..Len(r) /\ Len(r) \in 1..Len(r)
    BY <2>1, LenProperties
  <2>4. r[1] \in Nat
    BY <2>1, <2>3, ElementOfSeq
  <2>5. Begins(plan[k]) \in Nat /\ Ends(plan[k]) = Begins(plan[k]) + Len(r) - 1
        /\ Len(r) \in Nat \ {0}
    BY <2>1, <2>2, <2>3, <2>4
  <2>6. QED
    BY <2>1, <2>5, Zenon DEF r
<1>3. \A k \in 1..L : Begins(plan[k]) = e[k - 1] + 1
  <2> TAKE k \in 1..L
  <2>1. CASE k = 1
    <3>1. Begins(plan[1]) = 1 /\ 0 \in 0..L
      BY <1>1, <2>1 DEF PlanHolds
    <3>2. QED
      BY <2>1, <3>1
  <2>2. CASE k # 1
    <3>1. k \in 2..L /\ k - 1 # 0 /\ k - 1 \in 0..L
      BY <1>1, <2>2
    <3>2. Follows(b, capacity, plan[k - 1], plan[k])
      BY <3>1 DEF PlanHolds
    <3>3. QED
      BY <3>1, <3>2 DEF Follows
  <2>3. QED
    BY <2>1, <2>2
<1>4. Pieces(q, e, L) /\ e[L] = Len(b)
  <2>1. q \in [1..L -> Seq(Nat)] /\ \A k \in 1..L : q[k] = plan[k].stories
    BY <1>2
  <2>2. e[0] = 0 /\ 0 \in 0..L /\ \A k \in 1..L : e[k] = Ends(plan[k])
    BY <1>1
  <2>3. \A k \in 1..L : e[k] \in Nat
    BY <1>2, <2>2
  <2>4. \A k \in 0..L : k = 0 \/ k \in 1..L
    BY <1>1
  <2>5. e \in [0..L -> Nat]
    BY <2>2, <2>3, <2>4
  <2>6. e[L] = Len(b)
    BY <1>1
  <2> HIDE DEF e, q
  <2>7. ASSUME NEW k \in 1..L
        PROVE  /\ e[k] = e[k - 1] + Len(q[k])
               /\ \A j \in 1..Len(q[k]) : q[k][j] = e[k - 1] + j
    <3>1. k - 1 \in 0..L
      BY <1>1
    <3>2. e[k - 1] \in Nat /\ Begins(plan[k]) = e[k - 1] + 1
      BY <1>3, <2>5, <3>1
    <3> DEFINE r == plan[k].stories
    <3>3. /\ r = q[k] /\ e[k] = Begins(plan[k]) + Len(r) - 1 /\ Len(r) \in Nat
          /\ \A j \in 1..Len(r) : r[j] = Begins(plan[k]) + j - 1
      BY <1>2, <2>1, <2>2
    <3> HIDE DEF r
    <3>4. e[k] = e[k - 1] + Len(r)
      <4> DEFINE x == e[k - 1]
                 y == Begins(plan[k])
                 m == Len(r)
      <4>1. x \in Nat /\ y = x + 1 /\ m \in Nat /\ e[k] = y + m - 1
        BY <3>2, <3>3
      <4> HIDE DEF x, y, m
      <4>2. e[k] = x + m
        BY <4>1
      <4>3. QED
        BY <4>2 DEF x, m
    <3>5. ASSUME NEW j \in 1..Len(r)
          PROVE  r[j] = e[k - 1] + j
      <4>1. r[j] = Begins(plan[k]) + j - 1 /\ j \in Int
        BY <3>3
      <4>2. QED
        BY <3>2, <4>1
    <3>6. QED
      BY <3>3, <3>4, <3>5, Zenon
  <2>8. QED
    BY <2>1, <2>2, <2>5, <2>6, <2>7 DEF Pieces
<1>5. \A k \in 1..L : q[k] = plan[k].stories
  OBVIOUS
<1> HIDE DEF e, q, L
<1>6. \E h : Joins(h, plan)
  <2> DEFINE V == Seq(Nat)
             step == [x \in V \X (1..L) |-> x[1] \o q[x[2]]]
  <2>1. \A x \in V, n \in 1..L : step[<<x, n>>] = x \o q[n]
    OBVIOUS
  <2>2. \A x \in V, n \in 1..L : x \o q[n] \in V
    <3> TAKE x \in V, n \in 1..L
    <3>1. q[n] \in Seq(Nat)
      BY <1>4 DEF Pieces
    <3>2. QED
      BY <3>1, ConcatProperties
  <2>3. <<>> \in V
    OBVIOUS
  <2> HIDE DEF V, step
  <2>4. StaysIn(step, V, L)
    BY <2>1, <2>2 DEF StaysIn
  <2>5. \E g : Recurs(g, <<>>, step, V, L)
    BY <1>1, <2>3, <2>4, RecursionHas
  <2>6. PICK g : g \in [0..L -> V] /\ g[0] = <<>> /\ \A n \in 1..L : g[n] = step[<<g[n - 1], n>>]
    BY <2>5 DEF Recurs
  <2>7. ASSUME NEW n \in 0..L
        PROVE  g[n] = IF n = 0 THEN <<>> ELSE g[n - 1] \o plan[n].stories
    <3>1. CASE n = 0
      BY <2>6, <3>1
    <3>2. CASE n # 0
      <4>1. n \in 1..L /\ n - 1 \in 0..L
        BY <1>1, <3>2
      <4>2. g[n - 1] \in V /\ g[n] = step[<<g[n - 1], n>>]
        BY <2>6, <4>1
      <4>3. g[n] = g[n - 1] \o plan[n].stories
        BY <1>5, <2>1, <4>1, <4>2
      <4>4. QED
        BY <3>2, <4>3
    <3>3. QED
      BY <3>1, <3>2
  <2>8. g = [k \in 0..L |-> IF k = 0 THEN <<>> ELSE g[k - 1] \o plan[k].stories]
    BY <2>6, <2>7
  <2>9. QED
    BY <2>8 DEF Joins, L
<1>7. ASSUME NEW h, Joins(h, plan)
      PROVE  h[L] = [i \in DOMAIN b |-> i]
  <2>1. h = [k \in 0..L |-> IF k = 0 THEN <<>> ELSE h[k - 1] \o plan[k].stories]
    BY <1>7 DEF Joins, L
  <2>2. \A k \in 0..L : h[k] = IF k = 0 THEN <<>> ELSE h[k - 1] \o plan[k].stories
    BY <2>1
  <2>3. \A k \in 0..L : k # 0 => k \in 1..L
    BY <1>1
  <2>4. Joined(h, q, L)
    BY <1>5, <2>2, <2>3 DEF Joined
  <2>5. h[L] \in Seq(Nat) /\ Len(h[L]) = Len(b) /\ \A i \in 1..Len(b) : h[L][i] = i
    BY <1>1, <1>4, <2>4, PiecesTogether
  <2> DEFINE t == [i \in 1..Len(b) |-> i]
  <2>6. t \in Seq(Nat) /\ Len(t) = Len(b) /\ \A i \in 1..Len(b) : t[i] = i
    BY <1>1
  <2> HIDE DEF t
  <2>7. h[L] = t
    BY <2>5, <2>6, SeqEqual
  <2>8. QED
    BY <1>1, <2>7 DEF t
<1>8. QED
  BY <1>6, <1>7 DEF L

\* The margin of two hours: the projected start is on the first day of the
\* iteration, with at most one clock change in each direction on the way.
LEMMA StartsOnTheDay ==
  ASSUME NEW s \in Schedule, NEW c \in Nat \ {0}, NEW k \in Nat \ {0}
  PROVE  LET at == ProjectedStart(Number(s, c), length(s), k)
         IN  /\ Number(s, c + k).start <= at
             /\ at < Midnight(s.zone, origin(s) + (c + k - 1) * length(s) + 1)
<1> DEFINE z   == s.zone
           D   == DayLength
           l   == length(s)
           d   == origin(s) + c * l
           day == origin(s) + (c + k - 1) * l
           S(e) == Cardinality({x \in z.short : x < e})
           G(e) == Cardinality({x \in z.long : x < e})
<1>1. IsSettings(s) /\ IsZone(z)
  BY ScheduleIsSettings DEF IsSettings
<1>2. origin(s) \in Int /\ l \in Nat /\ l >= 1
  BY <1>1, OriginBeforeAnchor, LengthPositive
<1>3. D \in Nat /\ D > 3
  BY PlanningAssumption
<1>4. z.short \in {{}} \cup {{e} : e \in Days} /\ z.long \in {{}} \cup {{e} : e \in Days}
  BY DEF Schedule, Zone
<1>5. \A e \in Int : S(e) \in 0..1 /\ G(e) \in 0..1
  BY <1>4, ChangesOnce
<1>6. \A e, f \in Int : e <= f => S(e) <= S(f) /\ G(e) <= G(f)
  BY <1>1, EarlierGrow DEF IsZone
<1>7. \A e : Midnight(z, e) = e * D - S(e) + G(e)
  BY DEF Midnight
<1>8. /\ Number(s, c).end = Midnight(z, d)
      /\ Number(s, c + k).start = Midnight(z, day)
  BY DEF Number
<1> HIDE DEF S, G, D, l
<1>9. d \in Int /\ day \in Int /\ day = d + (k - 1) * l /\ d <= day /\ (k - 1) * l \in Nat
  <2>1. c * l \in Int /\ (k - 1) * l \in Nat /\ (c + k - 1) * l = c * l + (k - 1) * l
    BY <1>2
  <2>2. QED
    BY <1>2, <2>1
<1>10. ProjectedStart(Number(s, c), l, k) = Midnight(z, d) + (k - 1) * l * D + 2
  BY <1>8 DEF ProjectedStart, D
<1> HIDE DEF d, day, z
<1>11. day * D = d * D + (k - 1) * l * D /\ (day + 1) * D = day * D + D
       /\ d * D \in Int /\ day * D \in Int /\ (k - 1) * l * D \in Int
  <2>1. (k - 1) * l * D \in Int
    BY <1>3, <1>9
  <2>2. day * D = (d + (k - 1) * l) * D
    BY <1>9
  <2> DEFINE m == (k - 1) * l
  <2>3. m \in Nat
    BY <1>9
  <2> HIDE DEF m
  <2>4. (d + m) * D = d * D + m * D
    BY <1>3, <1>9, <2>3
  <2>5. d * D \in Int /\ day * D \in Int /\ (day + 1) * D = day * D + D
    BY <1>3, <1>9
  <2>6. QED
    BY <2>1, <2>2, <2>4, <2>5 DEF m
<1>12. /\ S(d) \in 0..1 /\ G(d) \in 0..1 /\ S(day) \in 0..1 /\ G(day) \in 0..1
       /\ S(day + 1) \in 0..1 /\ G(day + 1) \in 0..1
       /\ S(d) <= S(day) /\ G(d) <= G(day) /\ S(d) <= S(day + 1) /\ G(d) <= G(day + 1)
  <2>1. day + 1 \in Int /\ d <= day + 1
    BY <1>9
  <2>2. QED
    BY <1>5, <1>6, <1>9, <2>1
<1>13. /\ Midnight(z, d) = d * D - S(d) + G(d)
       /\ Midnight(z, day) = day * D - S(day) + G(day)
       /\ Midnight(z, day + 1) = (day + 1) * D - S(day + 1) + G(day + 1)
  BY <1>7
<1>14. /\ Midnight(z, day) <= Midnight(z, d) + (k - 1) * l * D + 2
       /\ Midnight(z, d) + (k - 1) * l * D + 2 < Midnight(z, day + 1)
  <2> DEFINE a == d * D
             e == (k - 1) * l * D
             y == day * D
             x == (day + 1) * D
  <2>1. a \in Int /\ e \in Int /\ y = a + e /\ x = y + D
    BY <1>11
  <2> HIDE DEF a, e, y, x
  <2>2. /\ Midnight(z, d) = a - S(d) + G(d) /\ Midnight(z, day) = y - S(day) + G(day)
        /\ Midnight(z, day + 1) = x - S(day + 1) + G(day + 1)
    BY <1>13 DEF a, y, x
  <2>3. QED
    BY <1>3, <1>12, <2>1, <2>2 DEF e
<1>15. QED
  BY <1>8, <1>10, <1>14 DEF l, d, day, z

\* What the browser plans, for any backlog and from any iteration on.
LEMMA ProjectionHolds ==
  ASSUME NEW s \in Schedule, NEW c \in Nat \ {0}, NEW velocity \in Nat, NEW b \in Seq(Nat)
  PROVE  ProjectionHoldsTheBacklog(s, Number(s, c), velocity, b)
<1> DEFINE len      == length(s)
           current  == Number(s, c)
           capacity == Capacity(velocity)
           plan     == projectBacklog(b, velocity, current, len)
           real(k)  == Number(s, plan[k].number)
           day(k)   == origin(s) + (plan[k].number - 1) * len
<1>1. /\ len \in Nat /\ current.number = c /\ current.end \in Int
  <2>1. IsSettings(s) /\ c \in Int /\ c + 1 \in Int /\ c <= c + 1 /\ c < c + 1
    BY ScheduleIsSettings
  <2>2. QED
    BY <2>1, LengthPositive, IterationsOrdered, IterationsFollow
<1>2. PICK F : Sums(F, b, Places(b))
  <2>1. IsFiniteSet(Places(b)) /\ \A x \in Places(b) : b[x] \in Int
    BY FS_Interval DEF Places
  <2>2. PICK F : AddsUp(F, b, SUBSET Places(b))
    BY <2>1, SumsExist
  <2>3. QED
    BY <2>1, <2>2 DEF Sums
<1>3. PlanHolds(b, F, capacity, current, len, plan, Len(b))
  <2> HIDE DEF len, current
  <2>1. c \in Int
    OBVIOUS
  <2>2. QED
    BY <1>1, <1>2, <2>1, ProjectionIs
<1>4. capacity \in Nat /\ velocity <= capacity /\ (velocity # capacity => capacity = 1)
  BY DEF Capacity
<1> HIDE DEF plan, capacity, current, len
<1>5. \A k \in DOMAIN plan :
        /\ k \in Nat \ {0} /\ RowAt(b, F, capacity, current, len, plan[k], k)
        /\ k > 1 => Follows(b, capacity, plan[k - 1], plan[k])
        /\ k > 1 => plan[k - 1].points \in Int
  <2>1. plan \in Seq(PlanRow) /\ DOMAIN plan = 1..Len(plan) /\ Len(plan) \in Nat
    BY <1>3, LenProperties DEF PlanHolds
  <2>2. \A k \in 1..Len(plan) : k > 1 => k \in 2..Len(plan) /\ k - 1 \in 1..Len(plan)
    BY <2>1
  <2>3. ASSUME NEW k \in 1..Len(plan)
        PROVE  plan[k].points \in Int
    <3>1. plan[k] \in PlanRow
      BY <2>1, ElementOfSeq
    <3>2. QED
      BY <3>1 DEF PlanRow
  <2>4. QED
    BY <1>3, <2>1, <2>2, <2>3 DEF PlanHolds
<1>6. ASSUME NEW k \in DOMAIN plan
      PROVE  /\ plan[k].number = current.number + k
             /\ real(k).start <= plan[k].startAt
             /\ plan[k].startAt < Midnight(s.zone, day(k) + 1)
  <2>1. /\ k \in Nat \ {0} /\ plan[k].number = current.number + k
        /\ plan[k].startAt = ProjectedStart(current, len, k)
    BY <1>5 DEF RowAt
  <2>2. /\ Number(s, c + k).start <= ProjectedStart(Number(s, c), length(s), k)
        /\ ProjectedStart(Number(s, c), length(s), k)
             < Midnight(s.zone, origin(s) + (c + k - 1) * length(s) + 1)
    BY <2>1, StartsOnTheDay
  <2>3. plan[k].number = c + k
    BY <1>1, <2>1
  <2>4. QED
    BY <2>1, <2>2, <2>3 DEF current, len
<1>7. ASSUME NEW k \in DOMAIN plan
      PROVE  /\ plan[k].points = SumOf(b, Pointed(b, plan[k]))
             /\ plan[k].points <= velocity \/ Cardinality(Pointed(b, plan[k])) <= 1
             /\ k > 1 => plan[k - 1].points + b[plan[k].stories[1]] > velocity
  <2> DEFINE P == Pointed(b, plan[k])
             p == plan[k].points
  <2>1. p = F[P] /\ (p <= capacity \/ Cardinality(P) <= 1)
    BY <1>5 DEF RowAt, RowHolds
  <2>2. P \in SUBSET Places(b) /\ \A x \in P : b[x] >= 1
    BY DEF Pointed, Places
  <2>3. k > 1 => plan[k - 1].points + b[plan[k].stories[1]] > velocity
    <3>1. SUFFICES ASSUME k > 1 PROVE plan[k - 1].points + b[plan[k].stories[1]] > velocity
      OBVIOUS
    <3> DEFINE x == plan[k].stories[1]
               y == plan[k - 1].points
    <3>2. y + b[x] > capacity /\ y \in Int
      BY <1>5, <3>1 DEF Follows, Begins
    <3>3. x \in DOMAIN b
      BY <1>5, <3>1 DEF Follows, Begins
    <3> HIDE DEF x, y
    <3>4. b[x] \in Int
      BY <3>3
    <3>5. y + b[x] > velocity
      BY <1>4, <3>2, <3>4
    <3>6. QED
      BY <3>5 DEF x, y
  <2> HIDE DEF P, p
  <2>4. SumOf(b, P) = F[P]
    BY <1>2, <2>2, SumIs
  <2>5. F[P] >= Cardinality(P) /\ Cardinality(P) \in Nat /\ F[P] \in Int
    BY <1>2, <2>2, SumAtLeast
  <2>6. p <= velocity \/ Cardinality(P) <= 1
    BY <1>4, <2>1, <2>5
  <2>7. QED
    BY <2>1, <2>3, <2>4, <2>6 DEF P, p
<1> DEFINE body(h) == [k \in 0..Len(plan) |-> IF k = 0 THEN <<>> ELSE h[k - 1] \o plan[k].stories]
           held == CHOOSE h : h = body(h)
<1>8. held[Len(plan)] = [i \in DOMAIN b |-> i]
  <2>1. (\E h : Joins(h, plan)) /\ \A h : Joins(h, plan) => h[Len(plan)] = [i \in DOMAIN b |-> i]
    BY <1>3, RowsTogether
  <2>2. \A h : Joins(h, plan) <=> h = body(h)
    BY DEF Joins
  <2> HIDE DEF body
  <2>3. Joins(held, plan)
    BY <2>1, <2>2
  <2> HIDE DEF held
  <2>4. QED
    BY <2>1, <2>3
<1>9. QED
  BY <1>6, <1>7, <1>8, Zenon DEF ProjectionHoldsTheBacklog, SumOf, Pointed, plan, current, len

\* Backlogs of the model.
LEMMA BacklogsAreSequences == ASSUME NEW b \in Backlogs PROVE b \in Seq(Nat)
<1>1. PICK n \in 0..4 : b \in [1..n -> Points]
  BY DEF Backlogs
<1>2. Points \subseteq Nat /\ n \in Nat
  BY PlanningAssumption
<1>3. b \in [1..n -> Nat]
  BY <1>1, <1>2
<1>4. QED
  BY <1>2, <1>3

\* The velocity is the average over the completed iterations of the window, and
\* the projection holds the backlog in iterations with the numbers and the days
\* that the server will give them, none over the velocity but for one story; for
\* days of four hours or more.
THEOREM PlanFollowsVelocityCorrect == PlanningSpec => []PlanFollowsVelocity
<1>1. PlanningInit => asked \subseteq Schedule
  BY DEF PlanningInit
<1>2. asked \subseteq Schedule /\ [PlanningNext]_asked => (asked \subseteq Schedule)'
  BY DEF PlanningNext, Ask, Answer
<1>3. ASSUME asked \subseteq Schedule
      PROVE  PlanFollowsVelocity
  <2>1. \A t \in Times : t \in Nat
    BY DEF Times
  <2>2. Points \subseteq Nat
    BY PlanningAssumption
  <2>3. ASSUME NEW s \in asked, NEW now \in Times, now >= s.anchor, NEW window \in Points \ {0},
               NEW p \in Points, NEW at \in Times, s.anchor <= at, at <= now
        PROVE  LET rows == Accepted(s, at, p)
                   current == At(s, now)
                   counted == {n \in 1..(current.number - 1) : n >= current.number - window}
               IN  Velocity(s, rows, window, now) =
                     IF counted = {} THEN DefaultVelocity
                     ELSE TotalPoints(UNION {During(s, rows, n) : n \in counted})
                            \div Cardinality(counted)
    <3>1. /\ IsSettings(s) /\ s.anchor \in Nat /\ now \in Nat /\ at \in Nat
          /\ s.anchor <= now /\ p \in Nat /\ window \in Nat \ {0}
      BY <1>3, <2>1, <2>2, <2>3, ScheduleIsSettings
    <3> DEFINE rows == Accepted(s, at, p)
    <3>2. \A r \in rows : r.at \in Nat /\ s.anchor <= r.at /\ r.at <= now /\ r.points \in Int
      BY <2>3, <3>1 DEF Accepted
    <3>3. IsFiniteSet(rows)
      <4>1. IsFiniteSet({[at |-> at, points |-> p]}) /\ IsFiniteSet({[at |-> s.anchor, points |-> 1]})
        BY FS_Singleton
      <4>2. rows = {[at |-> at, points |-> p]} \cup {[at |-> s.anchor, points |-> 1]}
        BY DEF Accepted
      <4>3. QED
        BY <4>1, <4>2, FS_Union
    <3> HIDE DEF rows
    <3>4. IsAccepted(s, rows, now)
      BY <3>1, <3>2, <3>3 DEF IsAccepted
    <3>5. QED
      BY <3>1, <3>4, VelocityIs DEF rows
  <2>4. VelocityIsTheAverage
    BY <2>3 DEF VelocityIsTheAverage
  <2>5. ASSUME NEW s \in asked, NEW t \in Int, NEW velocity \in Nat, NEW b \in Seq(Nat)
        PROVE  ProjectionHoldsTheBacklog(s, At(s, t), velocity, b)
    <3>1. s \in Schedule /\ IsSettings(s)
      BY <1>3, ScheduleIsSettings
    <3> DEFINE c == At(s, t).number
    <3>2. c \in Nat \ {0} /\ At(s, t) = Number(s, c)
      BY <3>1, AtFinds
    <3> HIDE DEF c
    <3>3. QED
      BY <3>1, <3>2, ProjectionHolds
  <2>6. ASSUME NEW s \in asked, NEW t \in Times
        PROVE  ProjectionHoldsTheBacklog(s, At(s, t), 1, <<1, 1, 1, 1>>)
    <3>1. t \in Int /\ 1 \in Nat /\ <<1, 1, 1, 1>> \in Seq(Nat)
      BY <2>1
    <3>2. QED
      BY <2>5, <3>1
  <2>7. ASSUME NEW s \in asked, NEW velocity \in Points, NEW backlog \in Backlogs
        PROVE  ProjectionHoldsTheBacklog(s, At(s, s.anchor), velocity, backlog)
    <3>1. s.anchor \in Int /\ velocity \in Nat /\ backlog \in Seq(Nat)
      BY <1>3, <2>2, BacklogsAreSequences, ScheduleIsSettings
    <3>2. QED
      BY <2>5, <3>1
  <2>8. ProjectionIsThePlan
    BY <2>6, <2>7 DEF ProjectionIsThePlan
  <2>9. QED
    BY <2>4, <2>8 DEF PlanFollowsVelocity
<1>4. QED
  BY <1>1, <1>2, <1>3, PTL DEF PlanningSpec
=============================================================================
