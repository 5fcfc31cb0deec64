--------------------------- MODULE BlockersProofs ---------------------------
(***************************************************************************)
(* Proofs about Blockers: for any number of stories and projects and any   *)
(* MaxDepth, "blocked by" never closes a cycle, never leaves a project,    *)
(* leaves someone who can proceed, and is shown rightly on the board.      *)
(***************************************************************************)
EXTENDS Blockers, TLAPS

IInv == TypeOK /\ NoCycle /\ WithinProject

-----------------------------------------------------------------------------
(* The search *)

\* In front of a walk from b goes any x that waits on b.
Longer(x, w, n) == [i \in 0..n + 1 |-> IF i = 0 THEN x ELSE w[i - 1]]

\* A walk stays a walk when it starts one story earlier, and ends where it did.
LEMMA WalkLonger ==
  ASSUME NEW x \in Story, NEW b \in Story, <<x, b>> \in waits,
         NEW n \in Nat, NEW w \in Walks(b, n)
  PROVE  /\ Longer(x, w, n) \in Walks(x, n + 1)
         /\ Longer(x, w, n)[n + 1] = w[n]
<1> DEFINE v == Longer(x, w, n)
<1>1. /\ w \in [0..n -> Story]
      /\ w[0] = b
      /\ \A i \in 1..n : <<w[i - 1], w[i]>> \in waits
  BY DEF Walks
<1>2. v \in [0..n + 1 -> Story]
  <2>1. ASSUME NEW i \in 0..n + 1 PROVE (IF i = 0 THEN x ELSE w[i - 1]) \in Story
    <3>1. i # 0 => i - 1 \in 0..n  OBVIOUS
    <3> QED  BY <1>1, <3>1
  <2> QED  BY <2>1 DEF Longer
<1>3. v[0] = x
  BY DEF Longer
<1>4. ASSUME NEW i \in 1..n + 1 PROVE v[i] = w[i - 1]
  BY DEF Longer
<1>5. ASSUME NEW i \in 1..n + 1 PROVE <<v[i - 1], v[i]>> \in waits
  <2>1. CASE i = 1
    BY <1>1, <1>3, <1>4, <2>1
  <2>2. CASE i # 1
    <3>1. i - 1 \in 1..n /\ i - 1 \in 1..n + 1
      BY <2>2
    <3>2. v[i] = w[i - 1] /\ v[i - 1] = w[(i - 1) - 1]
      BY <1>4, <3>1
    <3> QED  BY <1>1, <3>1, <3>2
  <2> QED  BY <2>1, <2>2
<1>6. v[n + 1] = w[n]
  <2>1. n + 1 \in 1..n + 1  OBVIOUS
  <2> QED  BY <1>4, <2>1
<1> QED  BY <1>2, <1>3, <1>5, <1>6 DEF Walks

\* Within n steps no walk from x meets s, and all of them have come to an end.
Clear(x, s, n) ==
  /\ Walks(x, n) = {}
  /\ \A k \in 1..n : \A w \in Walks(x, k) : w[k] # s

\* What the search answers "no" for is clear up to its depth.
LEMMA ClearIfNotReached ==
  ASSUME NEW x \in Story, NEW s \in Story, ~Reaches(x, s)
  PROVE  Clear(x, s, MaxDepth + 1)
BY DEF Reaches, Clear

\* A single line is a walk of one step.
LEMMA OneStep ==
  ASSUME NEW x \in Story, NEW b \in Story, <<x, b>> \in waits
  PROVE  \E w \in Walks(x, 1) : w[1] = b
<1> DEFINE w == [i \in 0..1 |-> IF i = 0 THEN x ELSE b]
<1>1. w \in [0..1 -> Story] /\ w[0] = x /\ w[1] = b
  OBVIOUS
<1>2. \A i \in 1..1 : <<w[i - 1], w[i]>> \in waits
  BY <1>1
<1> HIDE DEF w
<1> QED  BY <1>1, <1>2 DEF Walks

\* Being clear of s is inherited by the stories a story waits on, with one
\* step less to go.
LEMMA ClearInherited ==
  ASSUME NEW x \in Story, NEW b \in Story, NEW s \in Story, <<x, b>> \in waits,
         NEW n \in Nat \ {0}, Clear(x, s, n)
  PROVE  /\ b # s
         /\ n - 1 \in Nat \ {0}
         /\ Clear(b, s, n - 1)
<1>1. PICK u \in Walks(x, 1) : u[1] = b
  BY OneStep
<1>2. b # s
  BY <1>1 DEF Clear
<1>3. n # 1
  BY <1>1 DEF Clear
<1>4. n - 1 \in Nat \ {0} /\ (n - 1) + 1 = n
  BY <1>3
<1>5. Walks(b, n - 1) = {}
  <2>1. ASSUME NEW w \in Walks(b, n - 1) PROVE FALSE
    <3>1. Longer(x, w, n - 1) \in Walks(x, (n - 1) + 1)
      BY WalkLonger, <1>4
    <3> QED  BY <3>1, <1>4 DEF Clear
  <2> QED  BY <2>1
<1>6. ASSUME NEW k \in 1..n - 1, NEW w \in Walks(b, k) PROVE w[k] # s
  <2>1. k \in Nat /\ k + 1 \in 1..n
    OBVIOUS
  <2>2. Longer(x, w, k) \in Walks(x, k + 1) /\ Longer(x, w, k)[k + 1] = w[k]
    BY WalkLonger, <2>1
  <2> QED  BY <2>1, <2>2 DEF Clear
<1> QED  BY <1>2, <1>4, <1>5, <1>6 DEF Clear

-----------------------------------------------------------------------------
(* Lines taken away and lines added *)

\* Fewer lines close no cycle.
LEMMA FewerLines ==
  ASSUME NoCycle, waits' \subseteq waits
  PROVE  NoCycle'
BY DEF NoCycle

\* A list that passes setBlockers closes no cycle.  Were S a set in which each
\* story waits on another one of S, the stories of S that the search found to
\* be clear of s would already have been such a set.
LEMMA ReplacedKeepsNoCycle ==
  ASSUME BlockersAssumption, NoCycle, waits \subseteq Story \X Story,
         NEW s \in Story, NEW p, NEW ids \in SUBSET Story,
         Allowed(s, p, ids), waits' = Replaced(s, ids)
  PROVE  NoCycle'
<1> SUFFICES ASSUME NEW S \in (SUBSET Story) \ {{}}
             PROVE  \E t \in S : \A b \in S : <<t, b>> \notin waits'
  BY DEF NoCycle
<1>0. /\ \A t \in Story \ {s}, b \in Story : <<t, b>> \in waits' => <<t, b>> \in waits
      /\ \A b \in Story : <<s, b>> \in waits' => b \in ids
  BY DEF Replaced
<1>1. CASE s \notin S
  <2>1. PICK t \in S : \A b \in S : <<t, b>> \notin waits
    BY DEF NoCycle
  <2> QED  BY <1>0, <1>1, <2>1
<1>2. CASE s \in S /\ ids \cap S = {}
  BY <1>0, <1>2
<1>3. CASE s \in S /\ ids \cap S # {}
  <2>1. PICK id \in ids : id \in S
    BY <1>3
  <2>2. id # s /\ id \in Story /\ Clear(id, s, MaxDepth + 1)
    BY <2>1, ClearIfNotReached DEF Allowed
  <2> DEFINE T == {x \in S \ {s} : \E n \in Nat \ {0} : Clear(x, s, n)}
  <2>3. MaxDepth + 1 \in Nat \ {0}
    BY DEF BlockersAssumption
  <2>4. T \in (SUBSET Story) \ {{}}
    BY <2>1, <2>2, <2>3
  <2>5. PICK t \in T : \A b \in T : <<t, b>> \notin waits
    BY <2>4 DEF NoCycle
  <2>6. ASSUME NEW b \in S, <<t, b>> \in waits' PROVE FALSE
    <3>1. <<t, b>> \in waits
      BY <1>0, <2>5, <2>6
    <3>2. PICK n \in Nat \ {0} : Clear(t, s, n)
      BY <2>5
    <3>3. t \in Story /\ b \in Story
      BY <2>5
    <3>4. b # s /\ n - 1 \in Nat \ {0} /\ Clear(b, s, n - 1)
      BY <3>1, <3>2, <3>3, ClearInherited
    <3>5. b \in T
      BY <3>4
    <3> QED  BY <2>5, <3>1, <3>5
  <2> QED  BY <2>5, <2>6
<1> QED  BY <1>1, <1>2, <1>3

\* The rows and lines that stay after rows go are as they were.
LEMMA RemoveKeepsIInv ==
  ASSUME IInv, NEW rows \in SUBSET DOMAIN story, Remove(rows)
  PROVE  IInv'
<1> USE DEF IInv
<1>1. story' = [t \in DOMAIN story \ rows |-> story[t]]
  BY DEF Remove
<1>2. waits' = {e \in waits : e[1] \notin rows /\ e[2] \notin rows}
  BY DEF Remove
<1>3. TypeOK'
  BY <1>1, <1>2 DEF TypeOK
<1>4. NoCycle'
  BY <1>2, FewerLines
<1>5. WithinProject'
  BY <1>1, <1>2 DEF WithinProject, TypeOK
<1> QED  BY <1>3, <1>4, <1>5

\* A step that keeps ids, projects and lines keeps the invariant.
LEMMA SameGraphKeepsIInv ==
  ASSUME IInv, UNCHANGED waits, DOMAIN story' = DOMAIN story,
         story' \in [DOMAIN story -> Row],
         \A s \in DOMAIN story : story'[s].project = story[s].project
  PROVE  IInv'
<1> USE DEF IInv
<1>1. TypeOK'
  BY DEF TypeOK
<1>2. NoCycle'
  BY FewerLines
<1>3. WithinProject'
  BY DEF WithinProject
<1> QED  BY <1>1, <1>2, <1>3

-----------------------------------------------------------------------------
(* The operations *)

LEMMA InitIInv == Init => IInv
BY DEF Init, IInv, TypeOK, NoCycle, WithinProject

LEMMA CreateKeepsIInv ==
  ASSUME BlockersAssumption, IInv, NEW id \in Story, NEW p \in Project,
         NEW ids \in SUBSET Story, Create(id, p, ids)
  PROVE  IInv'
<1> USE DEF IInv
<1>1. id \notin DOMAIN story
  <2>1. ASSUME id \in DOMAIN story PROVE FALSE
    <3>1. id < id  BY <2>1 DEF Create, IsNextId
    <3>2. id \in Nat  BY DEF BlockersAssumption
    <3> QED  BY <3>1, <3>2
  <2> QED  BY <2>1
<1>2. /\ Allowed(id, p, ids)
      /\ waits' = Replaced(id, ids)
      /\ story' = [t \in DOMAIN story \cup {id} |->
                     IF t = id THEN [project |-> p, accepted |-> "no", trashed |-> FALSE]
                               ELSE story[t]]
  BY DEF Create
<1>3. ids \subseteq DOMAIN story /\ \A b \in ids : story[b].project = p
  BY <1>2 DEF Allowed
<1>4. TypeOK'
  <2>1. story' \in [DOMAIN story \cup {id} -> Row]
    BY <1>2 DEF TypeOK, Row, Acceptance
  <2>2. waits' \subseteq (DOMAIN story') \X (DOMAIN story')
    BY <1>2, <1>3 DEF TypeOK, Replaced
  <2> QED  BY <1>2, <2>1, <2>2 DEF TypeOK
<1>5. NoCycle'
  <2>1. waits \subseteq Story \X Story  BY DEF TypeOK
  <2> QED  BY <1>2, <2>1, ReplacedKeepsNoCycle
<1>6. WithinProject'
  <2>1. \A t \in DOMAIN story : story'[t] = story[t]
    BY <1>1, <1>2
  <2>2. story'[id].project = p
    BY <1>2
  <2>3. ASSUME NEW e \in waits' PROVE story'[e[1]].project = story'[e[2]].project
    <3>1. CASE e \in waits
      BY <2>1, <3>1 DEF TypeOK, WithinProject
    <3>2. CASE e \in {id} \X ids
      BY <1>3, <2>1, <2>2, <3>2
    <3> QED  BY <1>2, <3>1, <3>2 DEF Replaced
  <2> QED  BY <2>3 DEF WithinProject
<1> QED  BY <1>4, <1>5, <1>6

LEMMA SetBlockersKeepsIInv ==
  ASSUME BlockersAssumption, IInv, NEW s \in DOMAIN story,
         NEW ids \in SUBSET Story, SetBlockers(s, ids)
  PROVE  IInv'
<1> USE DEF IInv
<1>1. Allowed(s, story[s].project, ids) /\ waits' = Replaced(s, ids) /\ UNCHANGED story
  BY DEF SetBlockers
<1>2. ids \subseteq DOMAIN story /\ \A b \in ids : story[b].project = story[s].project
  BY <1>1 DEF Allowed
<1>3. TypeOK'
  BY <1>1, <1>2 DEF TypeOK, Replaced
<1>4. NoCycle'
  <2>1. s \in Story /\ waits \subseteq Story \X Story  BY DEF TypeOK
  <2> QED  BY <1>1, <2>1, ReplacedKeepsNoCycle
<1>5. WithinProject'
  <2>1. ASSUME NEW e \in waits' PROVE story[e[1]].project = story[e[2]].project
    <3>1. CASE e \in waits
      BY <3>1 DEF TypeOK, WithinProject
    <3>2. CASE e \in {s} \X ids
      BY <1>2, <3>2
    <3> QED  BY <1>1, <3>1, <3>2 DEF Replaced
  <2> QED  BY <1>1, <2>1 DEF WithinProject
<1> QED  BY <1>3, <1>4, <1>5

LEMMA NextKeepsIInv ==
  ASSUME BlockersAssumption, IInv, [Next]_vars
  PROVE  IInv'
<1>1. ASSUME NEW id \in Story, NEW p \in Project, NEW ids \in SUBSET Story,
             Create(id, p, ids)
      PROVE  IInv'
  BY <1>1, CreateKeepsIInv
<1>2. ASSUME NEW s \in DOMAIN story, Operation(s) PROVE IInv'
  <2>1. ASSUME NEW ids \in SUBSET Story, SetBlockers(s, ids) PROVE IInv'
    BY <2>1, SetBlockersKeepsIInv
  <2> DEFINE Rest == Accept(s) \/ Reopen(s) \/ Delete(s) \/ Restore(s)
  <2>2. ASSUME Rest PROVE IInv'
    <3>1. UNCHANGED waits /\ DOMAIN story' = DOMAIN story
      BY <2>2 DEF Accept, Reopen, Delete, Restore
    <3>2. story \in [DOMAIN story -> Row]
      BY DEF IInv, TypeOK
    <3>3. story' \in [DOMAIN story -> Row]
      BY <2>2, <3>2 DEF Accept, Reopen, Delete, Restore, Row, Acceptance
    <3>4. \A t \in DOMAIN story : story'[t].project = story[t].project
      BY <2>2, <3>2 DEF Accept, Reopen, Delete, Restore, Row
    <3> HIDE DEF Rest
    <3> QED  BY <3>1, <3>3, <3>4, SameGraphKeepsIInv
  <2> QED  BY <1>2, <2>1, <2>2 DEF Operation
<1>3. ASSUME NEW rows \in SUBSET DOMAIN story, Purge(rows) PROVE IInv'
  BY <1>3, RemoveKeepsIInv DEF Purge
<1>4. ASSUME NEW p \in Project, DeleteProject(p) PROVE IInv'
  <2>1. {s \in DOMAIN story : story[s].project = p} \in SUBSET DOMAIN story
    OBVIOUS
  <2> QED  BY <1>4, <2>1, RemoveKeepsIInv DEF DeleteProject
<1>5. ASSUME NextIteration PROVE IInv'
  <2>1. UNCHANGED waits /\ DOMAIN story' = DOMAIN story
    BY <1>5 DEF NextIteration
  <2>2. story \in [DOMAIN story -> Row]
    BY DEF IInv, TypeOK
  <2>3. story' \in [DOMAIN story -> Row]
    BY <1>5, <2>2 DEF NextIteration, Row, Acceptance
  <2>4. \A t \in DOMAIN story : story'[t].project = story[t].project
    BY <1>5, <2>2 DEF NextIteration, Row
  <2> QED  BY <2>1, <2>3, <2>4, SameGraphKeepsIInv
<1>6. CASE UNCHANGED vars
  BY <1>6 DEF vars, IInv, TypeOK, NoCycle, WithinProject
<1> QED  BY <1>1, <1>2, <1>3, <1>4, <1>5, <1>6 DEF Next

-----------------------------------------------------------------------------
(* Theorems *)

\* The invariant holds throughout.
THEOREM InvariantCorrect == Spec => []IInv
<1>1. Init => IInv  BY InitIInv
<1>2. IInv /\ [Next]_vars => IInv'  BY NextKeepsIInv, BlockersAssumption
<1> QED  BY <1>1, <1>2, PTL DEF Spec

\* Columns have their types and both ends of a line exist (00003_planning.sql).
THEOREM TypeCorrect == Spec => []TypeOK
<1>1. IInv => TypeOK  BY DEF IInv
<1> QED  BY <1>1, InvariantCorrect, PTL

\* "Blocked by" never closes a cycle, whatever the depth at which the search
\* gives up (tasks.go:132-183).
THEOREM NoCycleCorrect == Spec => []NoCycle
<1>1. IInv => NoCycle  BY DEF IInv
<1> QED  BY <1>1, InvariantCorrect, PTL

\* A story only waits on stories of its own project (tasks.go:141-150).
THEOREM WithinProjectCorrect == Spec => []WithinProject
<1>1. IInv => WithinProject  BY DEF IInv
<1> QED  BY <1>1, InvariantCorrect, PTL

\* Both together, for every depth limit and any stories and projects.
THEOREM EdgesAreSoundCorrect == Spec => []EdgesAreSound
<1>1. IInv => EdgesAreSound  BY DEF IInv, EdgesAreSound
<1> QED  BY <1>1, InvariantCorrect, PTL

\* Some open story of every project that has one is not blocked: the lowest one
\* of the graph without cycles (story.go:754-781).
THEOREM SomeoneCanProceedCorrect == Spec => []SomeoneCanProceed
<1>1. IInv => SomeoneCanProceed
  <2> SUFFICES ASSUME IInv, NEW p \in Project,
                      NEW open, open = {s \in DOMAIN story : /\ story[s].project = p
                                                             /\ ~story[s].trashed
                                                             /\ story[s].accepted = "no"},
                      open # {}
               PROVE  \E s \in open : ~ShownBlocked(s)
    BY DEF SomeoneCanProceed
  <2>1. open \in (SUBSET Story) \ {{}}
    BY DEF IInv, TypeOK
  <2>2. PICK s \in open : \A b \in open : <<s, b>> \notin waits
    BY <2>1 DEF IInv, NoCycle
  <2>3. ASSUME NEW b \in BlockersOf(s), ~story[b].trashed, story[b].accepted = "no"
        PROVE  FALSE
    <3>1. <<s, b>> \in waits
      BY DEF BlockersOf
    <3>2. b \in DOMAIN story
      BY <3>1 DEF IInv, TypeOK
    <3>3. story[b].project = p
      BY <2>2, <3>1, <3>2 DEF IInv, WithinProject
    <3> QED  BY <2>2, <2>3, <3>1, <3>2, <3>3
  <2> QED  BY <2>3 DEF ShownBlocked, ShownBlockers
<1> QED  BY <1>1, InvariantCorrect, PTL

\* The blockers List cannot see from the rows of the board are done or deleted,
\* so the board marks the blocked stories and no others (story.go:321-342).
THEOREM BoardShowsBlockedCorrect == Spec => []BoardShowsBlocked
<1>1. IInv => BoardShowsBlocked
  <2> SUFFICES ASSUME IInv, NEW p \in Project, NEW s \in BoardRows(p)
               PROVE  ListedBlocked(BoardRows(p), s) <=> ShownBlocked(s)
    BY DEF BoardShowsBlocked
  <2>1. ASSUME NEW b \in BlockersOf(s)
        PROVE  b \in BoardRows(p) /\ story[b].accepted = "no"
                 <=> ~story[b].trashed /\ story[b].accepted = "no"
    <3>1. <<s, b>> \in waits
      BY DEF BlockersOf
    <3>2. b \in DOMAIN story /\ s \in DOMAIN story
      BY <3>1 DEF IInv, TypeOK
    <3>3. story[b].project = p
      BY <3>1, <3>2 DEF IInv, WithinProject, BoardRows
    <3> QED  BY <3>2, <3>3 DEF BoardRows
  <2> QED  BY <2>1 DEF ListedBlocked, ShownBlocked, ShownBlockers
<1> QED  BY <1>1, InvariantCorrect, PTL
=============================================================================
