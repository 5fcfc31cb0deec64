--------------------------- MODULE LiveSyncProofs ---------------------------
(***************************************************************************)
(* Proofs about LiveSync, for any number of stories, changes and loads     *)
(* under way: no change of somebody else is lost once the stream has       *)
(* begun, and a refetch that was put off is not forgotten.                 *)
(***************************************************************************)
EXTENDS LiveSync, FiniteSetTheorems, TLAPS

\* What a load was answered with is a prefix of the log.
LoadsRead(ls) ==
  \A i \in DOMAIN ls : ls[i].upto \in Nat => ls[i].upto <= Len(log)

\* A request that was served has left a change.
ServedIsLogged ==
  request = "served" => \E i \in DOMAIN log : log[i].by = "me"

IInv ==
  /\ TypeOK
  /\ LoadsRead(loads)
  /\ ServedIsLogged
  /\ NewsIsSignalled
  /\ NothingWaitsWhenIdle

-----------------------------------------------------------------------------
(* The greatest of finitely many numbers *)

\* Among the sets of them without a greatest one, one would be the smallest; but
\* with one element less it has a greatest one, and so has the set itself.
LEMMA MaxIsMember ==
  ASSUME NEW S \in SUBSET Nat, IsFiniteSet(S), S # {}
  PROVE  Max(S) \in S
<1> DEFINE HasMax(T) == \E n \in T : \A m \in T : n >= m
           Lacking   == {T \in SUBSET S : T # {} /\ ~HasMax(T)}
<1>1. Lacking = {}
  <2> SUFFICES ASSUME Lacking # {} PROVE FALSE
    OBVIOUS
  <2>1. Lacking \subseteq FiniteSubsetsOf(S)
    BY FS_Subset DEF FiniteSubsetsOf
  <2>2. PICK T \in Lacking : \A U \in Lacking : <<U, T>> \notin StrictSubsetOrdering(S)
    <3> HIDE DEF Lacking
    <3> QED  BY <2>1, FS_StrictSubsetOrderingWellFounded, WFMin
  <2>3. PICK a \in T : TRUE
    OBVIOUS
  <2>4. T \ {a} \notin Lacking
    BY <2>2, <2>3 DEF StrictSubsetOrdering
  <2>5. CASE T = {a}
    BY <2>3, <2>5
  <2>6. CASE T # {a}
    <3>1. PICK n \in T \ {a} : \A m \in T \ {a} : n >= m
      BY <2>3, <2>4, <2>6
    <3>2. n >= a \/ a >= n
      BY <2>3, <3>1
    <3>3. CASE n >= a
      BY <3>1, <3>3
    <3>4. CASE a >= n
      <4>1. \A m \in T : a >= m
        BY <2>3, <3>1, <3>4
      <4> QED  BY <2>3, <4>1
    <3> QED  BY <3>2, <3>3, <3>4
  <2> QED  BY <2>5, <2>6
<1>2. HasMax(S)
  BY <1>1
<1> QED  BY <1>2 DEF Max

\* The last change of a story is none or one of the log.
LEMMA LatestIsLogged ==
  ASSUME log \in Seq(Change), NEW s \in Story, NEW n \in Nat, n <= Len(log)
  PROVE  Latest(s, n) \in DOMAIN log \cup {0}
<1> DEFINE S == {0} \cup {i \in 1..n : log[i].story = s}
<1>1. S \subseteq 0..n /\ S # {} /\ S \in SUBSET Nat /\ 0..n \subseteq DOMAIN log \cup {0}
  OBVIOUS
<1>2. IsFiniteSet(0..n)
  BY FS_Interval
<1>3. IsFiniteSet(S)
  BY <1>1, <1>2, FS_Subset
<1>4. Max(S) \in S
  <2> HIDE DEF S
  <2> QED  BY <1>1, <1>3, MaxIsMember
<1> QED  BY <1>1, <1>4 DEF Latest

LEMMA OwnIsLogged ==
  ASSUME log \in Seq(Change), ServedIsLogged, request = "served"
  PROVE  Max({i \in DOMAIN log : log[i].by = "me"}) \in DOMAIN log
<1> DEFINE S == {i \in DOMAIN log : log[i].by = "me"}
<1>1. S \subseteq 1..Len(log) /\ S # {} /\ S \in SUBSET Nat
  BY DEF ServedIsLogged
<1>2. IsFiniteSet(1..Len(log))
  BY FS_Interval
<1>3. IsFiniteSet(S)
  <2> HIDE DEF S
  <2> QED  BY <1>1, <1>2, FS_Subset
<1>4. Max(S) \in S
  <2> HIDE DEF S
  <2> QED  BY <1>1, <1>3, MaxIsMember
<1> QED  BY <1>4

-----------------------------------------------------------------------------
(* The loads *)

\* Loads that start now have read nothing, and k of them ask for everything.
LEMMA AskGood ==
  ASSUME TypeOK, NEW ls \in Seq(Load), LoadsRead(ls),
         NEW kind \in {"first", "refresh", "reload"}, NEW k \in 0..2,
         Ask(ls, kind, k), log' = log
  PROVE  /\ loads' \in Seq(Load) /\ Len(loads') <= MaxLoads
         /\ LoadsRead(loads)'
         /\ asked' \in 0..Len(log)
         /\ asked' = IF k > 0 THEN Len(log) ELSE asked
<1> DEFINE new == [i \in 1..k |-> [kind |-> kind, upto |-> Unread]]
<1>1. new \in Seq(Load) /\ Len(new) = k
  BY DEF Load
<1>2. loads' = ls \o new /\ Len(ls) + k <= MaxLoads
  BY DEF Ask
<1>3. /\ loads' \in Seq(Load) /\ Len(loads') = Len(ls) + k
      /\ \A i \in 1..Len(ls) : loads'[i] = ls[i]
      /\ \A i \in (Len(ls) + 1)..(Len(ls) + k) : loads'[i] = new[i - Len(ls)]
  <2> HIDE DEF new
  <2> QED  BY <1>1, <1>2
<1>4. ASSUME NEW i \in DOMAIN loads', loads'[i].upto \in Nat
      PROVE  loads'[i].upto <= Len(log)
  <2>1. CASE i \in 1..Len(ls)
    BY <1>3, <1>4, <2>1 DEF LoadsRead
  <2>2. CASE i \in (Len(ls) + 1)..(Len(ls) + k)
    <3>1. i - Len(ls) \in 1..k
      BY <2>2
    <3>2. loads'[i].upto = Unread
      BY <1>3, <2>2, <3>1
    <3> QED  BY <1>4, <3>2, LiveAssumption
  <2> QED  BY <1>3, <2>1, <2>2
<1>5. LoadsRead(loads)'
  BY <1>4 DEF LoadsRead
<1>6. asked' = IF k > 0 THEN Len(log) ELSE asked
  BY DEF Ask
<1>7. Len(log) \in Nat /\ asked \in 0..Len(log)
  BY DEF TypeOK
<1>8. asked' \in 0..Len(log)
  BY <1>6, <1>7
<1>9. Len(loads') <= MaxLoads
  BY <1>2, <1>3
<1> HIDE DEF new
<1> QED  BY <1>3, <1>5, <1>6, <1>8, <1>9

-----------------------------------------------------------------------------
(* What steps have in common *)

\* A refetch that was asked for has covered every change there is; one that was
\* put off will.
AskedOrKept ==
  \/ asked' = asked /\ refreshPending' = refreshPending
  \/ asked' = Len(log)
  \/ asked' = asked /\ refreshPending' = TRUE

LEMMA BecomeGood ==
  ASSUME TypeOK, NEW drag \in BOOLEAN, NEW req \in RequestState,
         NEW ls \in Seq(Load), LoadsRead(ls), NEW k \in {0, 1},
         Become(drag, req, ls, k), log' = log
  PROVE  /\ dragging' = drag /\ request' = req
         /\ refreshPending' \in BOOLEAN
         /\ loads' \in Seq(Load) /\ Len(loads') <= MaxLoads
         /\ LoadsRead(loads)'
         /\ asked' \in 0..Len(log)
         /\ AskedOrKept
         /\ NothingWaitsWhenIdle'
<1>1. dragging' = drag /\ request' = req
  BY DEF Become
<1>2. CASE ~drag /\ req = "none" /\ refreshPending
  <2>1. Ask(ls, "refresh", k + 1) /\ refreshPending' = FALSE
    BY <1>2 DEF Become
  <2>2. k + 1 \in 0..2 /\ k + 1 > 0
    OBVIOUS
  <2>3. /\ loads' \in Seq(Load) /\ Len(loads') <= MaxLoads
        /\ LoadsRead(loads)'
        /\ asked' \in 0..Len(log)
        /\ asked' = Len(log)
    BY <2>1, <2>2, AskGood
  <2> QED  BY <1>1, <2>1, <2>3 DEF AskedOrKept, NothingWaitsWhenIdle
<1>3. CASE ~(~drag /\ req = "none" /\ refreshPending)
  <2>1. Ask(ls, "refresh", k) /\ refreshPending' = refreshPending
    BY <1>3 DEF Become
  <2>2. k \in 0..2
    OBVIOUS
  <2>3. /\ loads' \in Seq(Load) /\ Len(loads') <= MaxLoads
        /\ LoadsRead(loads)'
        /\ asked' \in 0..Len(log)
        /\ asked' = Len(log) \/ asked' = asked
    BY <2>1, <2>2, AskGood
  <2>4. refreshPending \in BOOLEAN
    BY DEF TypeOK
  <2>5. NothingWaitsWhenIdle'
    BY <1>1, <1>3, <2>1 DEF NothingWaitsWhenIdle, Idle
  <2> QED  BY <1>1, <2>1, <2>3, <2>4, <2>5 DEF AskedOrKept
<1> QED  BY <1>2, <1>3

LEMMA RefreshWhenIdleGood ==
  ASSUME TypeOK, LoadsRead(loads), RefreshWhenIdle, log' = log,
         UNCHANGED <<dragging, request>>
  PROVE  /\ refreshPending' \in BOOLEAN
         /\ loads' \in Seq(Load) /\ Len(loads') <= MaxLoads
         /\ LoadsRead(loads)'
         /\ asked' \in 0..Len(log)
         /\ asked' = Len(log) \/ (asked' = asked /\ refreshPending' = TRUE)
         /\ NothingWaitsWhenIdle'
<1>1. loads \in Seq(Load) /\ Len(loads) <= MaxLoads /\ asked \in 0..Len(log)
  BY DEF TypeOK
<1>2. CASE Idle
  <2>1. Ask(loads, "refresh", 1) /\ refreshPending' = FALSE
    BY <1>2 DEF RefreshWhenIdle
  <2>2. /\ loads' \in Seq(Load) /\ Len(loads') <= MaxLoads
        /\ LoadsRead(loads)'
        /\ asked' \in 0..Len(log)
        /\ asked' = Len(log)
    BY <1>1, <2>1, AskGood
  <2> QED  BY <2>1, <2>2 DEF NothingWaitsWhenIdle
<1>3. CASE ~Idle
  BY <1>1, <1>3 DEF RefreshWhenIdle, NothingWaitsWhenIdle, Idle, LoadsRead
<1> QED  BY <1>2, <1>3

\* A step of the board alone loses no news.
LEMMA NewsStays ==
  ASSUME TypeOK, NewsIsSignalled, AskedOrKept, UNCHANGED <<serverVars, streamVars, timer>>
  PROVE  NewsIsSignalled'
<1>1. Len(log) \in Nat
  BY DEF TypeOK
<1>2. CASE asked' = Len(log)
  BY <1>1, <1>2 DEF NewsIsSignalled, News, serverVars
<1>3. CASE asked' = asked /\ (refreshPending' = refreshPending \/ refreshPending' = TRUE)
  BY <1>3 DEF NewsIsSignalled, News, Signalled, serverVars, streamVars
<1> QED  BY <1>2, <1>3 DEF AskedOrKept

\* A commit is news that waits to be published.
LEMMA CommitGood ==
  ASSUME TypeOK, LoadsRead(loads), ServedIsLogged, NewsIsSignalled,
         NEW s \in Story, NEW who \in {"me", "other"}, Commit(s, who),
         UNCHANGED <<streamVars, timer, refreshPending, loads, dragging, editing,
                     board, asked>>,
         request' \in RequestState
  PROVE  /\ TypeOK' /\ LoadsRead(loads)' /\ NewsIsSignalled'
         /\ (\E i \in DOMAIN log : log[i].by = "me") => (\E i \in DOMAIN log' : log'[i].by = "me")
         /\ who = "me" => (\E i \in DOMAIN log' : log'[i].by = "me")
<1> DEFINE c == [story |-> s, by |-> who]
<1>1. c \in Change /\ c.by = who
  BY DEF Change
<1>2. log \in Seq(Change) /\ Len(log) \in Nat
  BY DEF TypeOK
<1>3. log' = Append(log, c) /\ Len(log) < MaxChanges /\ unpublished' = unpublished \cup {Len(log) + 1}
  BY DEF Commit
<1>4. /\ log' \in Seq(Change) /\ Len(log') = Len(log) + 1
      /\ DOMAIN log' = DOMAIN log \cup {Len(log) + 1}
      /\ \A i \in DOMAIN log : log'[i] = log[i]
      /\ log'[Len(log) + 1] = c
  <2> HIDE DEF c
  <2> QED  BY <1>1, <1>2, <1>3
<1>5. Len(log') <= MaxChanges
  BY <1>2, <1>3, <1>4, LiveAssumption
<1>6. queue' \in Seq(DOMAIN log')
  <2>1. queue \in Seq(DOMAIN log) /\ queue' = queue
    BY DEF TypeOK, streamVars
  <2> QED  BY <2>1, <1>4
<1>7. board' \in [Story -> DOMAIN log' \cup {0, Guess, Absent}]
  BY <1>4 DEF TypeOK
<1>8. TypeOK'
  BY <1>2, <1>3, <1>4, <1>5, <1>6, <1>7 DEF TypeOK, streamVars
<1>9. LoadsRead(loads)'
  BY <1>2, <1>4 DEF LoadsRead
<1>10. NewsIsSignalled'
  <2> SUFFICES ASSUME stream' \notin {"none", "dead"}, NEW n \in News'
               PROVE  \/ n \in missed' \/ Signalled(n)'
                      \/ (~opened' /\ stream' \in {"connecting", "down"})
    BY DEF NewsIsSignalled
  <2>1. CASE n = Len(log) + 1
    BY <1>3, <2>1 DEF Signalled
  <2>2. CASE n # Len(log) + 1
    <3>1. n \in News
      BY <1>4, <2>2 DEF News
    <3> QED  BY <1>3, <3>1 DEF NewsIsSignalled, Signalled, streamVars
  <2> QED  BY <2>1, <2>2
<1>11. \A i \in DOMAIN log : i \in DOMAIN log' /\ log'[i] = log[i]
  BY <1>4
<1>12. Len(log) + 1 \in DOMAIN log' /\ log'[Len(log) + 1].by = who
  BY <1>1, <1>4
<1>13. (\E i \in DOMAIN log : log[i].by = "me") => (\E i \in DOMAIN log' : log'[i].by = "me")
  BY <1>11
<1> QED  BY <1>8, <1>9, <1>10, <1>12, <1>13

\* A step of the board alone, given what it makes of loads, requests and the
\* refetch that was put off.
LEMMA BoardStepGood ==
  ASSUME IInv, UNCHANGED <<serverVars, streamVars, timer>>,
         refreshPending' \in BOOLEAN, dragging' \in BOOLEAN,
         request' \in RequestState, request' = "served" => request = "served",
         loads' \in Seq(Load), Len(loads') <= MaxLoads, LoadsRead(loads)',
         asked' \in 0..Len(log), AskedOrKept, NothingWaitsWhenIdle',
         editing' \in Story, board' \in [Story -> DOMAIN log \cup {0, Guess, Absent}]
  PROVE  IInv'
<1>1. TypeOK'
  BY DEF IInv, TypeOK, serverVars, streamVars
<1>2. ServedIsLogged'
  BY DEF IInv, ServedIsLogged, serverVars
<1>3. NewsIsSignalled'
  BY NewsStays DEF IInv
<1> QED  BY <1>1, <1>2, <1>3 DEF IInv

\* A step of the stream alone.
LEMMA StreamStepGood ==
  ASSUME IInv, UNCHANGED <<log, boardVars>>, TypeOK', NewsIsSignalled'
  PROVE  IInv'
<1>1. LoadsRead(loads)'
  BY DEF IInv, LoadsRead, boardVars
<1>2. ServedIsLogged'
  BY DEF IInv, ServedIsLogged, boardVars
<1>3. NothingWaitsWhenIdle'
  BY DEF IInv, NothingWaitsWhenIdle, Idle, boardVars
<1> QED  BY <1>1, <1>2, <1>3 DEF IInv

-----------------------------------------------------------------------------
(* The steps *)

LEMMA InitGood == Init => IInv
<1> SUFFICES ASSUME Init PROVE IInv
  OBVIOUS
<1>1. loads = <<[kind |-> "first", upto |-> Unread]>> /\ log = <<>> /\ queue = <<>>
  BY DEF Init
<1>2. [kind |-> "first", upto |-> Unread] \in Load
  BY DEF Load
<1>3. loads \in Seq(Load) /\ Len(loads) = 1
  BY <1>1, <1>2
<1>4. log \in Seq(Change) /\ Len(log) = 0 /\ queue \in Seq(DOMAIN log)
  BY <1>1
<1>5. Len(loads) <= MaxLoads /\ Len(log) <= MaxChanges
  BY <1>3, <1>4, LiveAssumption
<1>6. TypeOK
  <2>1. unpublished = {} /\ missed = {} /\ stream \in StreamState /\ request \in RequestState
    BY DEF Init, StreamState, RequestState
  <2>2. opened = FALSE /\ timer = FALSE /\ refreshPending = FALSE /\ dragging = FALSE
    BY DEF Init
  <2>3. editing \in Story /\ board \in [Story -> DOMAIN log \cup {0, Guess, Absent}]
    BY DEF Init
  <2>4. asked \in 0..Len(log)
    BY <1>4 DEF Init
  <2> QED  BY <1>3, <1>4, <1>5, <2>1, <2>2, <2>3, <2>4 DEF TypeOK
<1>7. LoadsRead(loads)
  BY <1>1, LiveAssumption DEF LoadsRead
<1> QED  BY <1>6, <1>7 DEF Init, IInv, ServedIsLogged, NewsIsSignalled, NothingWaitsWhenIdle

LEMMA StepGood == IInv /\ [Next]_vars => IInv'
<1> SUFFICES ASSUME IInv, [Next]_vars PROVE IInv'
  OBVIOUS
<1> USE DEF IInv
<1>0. /\ log \in Seq(Change) /\ Len(log) \in Nat
      /\ loads \in Seq(Load) /\ Len(loads) <= MaxLoads
      /\ dragging \in BOOLEAN /\ request \in RequestState
      /\ refreshPending \in BOOLEAN /\ timer \in BOOLEAN /\ opened \in BOOLEAN
      /\ asked \in 0..Len(log) /\ editing \in Story
      /\ queue \in Seq(DOMAIN log)
      /\ board \in [Story -> DOMAIN log \cup {0, Guess, Absent}]
  BY DEF TypeOK
<1>1. ASSUME NEW s \in Story, OtherWrites(s) PROVE IInv'
  <2>1. /\ Commit(s, "other")
        /\ UNCHANGED <<streamVars, timer, refreshPending, loads, dragging, editing,
                       board, asked>>
        /\ request' = request
    BY <1>1 DEF OtherWrites, boardVars
  <2>2. /\ TypeOK' /\ LoadsRead(loads)' /\ NewsIsSignalled'
        /\ (\E i \in DOMAIN log : log[i].by = "me") => (\E i \in DOMAIN log' : log'[i].by = "me")
    BY <1>0, <2>1, CommitGood
  <2>3. ServedIsLogged'
    BY <2>1, <2>2 DEF ServedIsLogged
  <2>4. NothingWaitsWhenIdle'
    BY <2>1 DEF NothingWaitsWhenIdle, Idle
  <2> QED  BY <2>2, <2>3, <2>4
<1>2. ASSUME NEW n \in unpublished, Publish(n) PROVE IInv'
  <2>1. n \in DOMAIN log
    BY DEF TypeOK
  <2>2. queue' \in Seq(DOMAIN log)
    <3> DEFINE D == DOMAIN log
    <3>1. n \in D /\ queue \in Seq(D) /\ (queue' = queue \/ queue' = Append(queue, n))
      BY <1>0, <1>2, <2>1 DEF Publish
    <3> HIDE DEF D
    <3>2. queue' \in Seq(D)
      BY <3>1
    <3> QED  BY <3>2 DEF D
  <2>3. TypeOK'
    BY <1>2, <2>2 DEF Publish, TypeOK, boardVars
  <2>4. ASSUME stream' \notin {"none", "dead"}, NEW m \in News'
        PROVE  \/ m \in missed' \/ Signalled(m)'
               \/ (~opened' /\ stream' \in {"connecting", "down"})
    <3>1. m \in News /\ stream' = stream /\ opened' = opened /\ missed' = missed
      BY <1>2, <2>4 DEF Publish, News, boardVars
    <3>2. CASE stream \in {"subscribed", "open"}
      <4>1. queue' = Append(queue, n)
        BY <1>2, <3>2 DEF Publish
      <4>2. /\ \E i \in DOMAIN queue' : queue'[i] = n
            /\ \A i \in DOMAIN queue : i \in DOMAIN queue' /\ queue'[i] = queue[i]
        <5>1. Len(queue) + 1 \in DOMAIN queue' /\ queue'[Len(queue) + 1] = n
          BY <1>0, <4>1, <2>1
        <5> QED  BY <1>0, <4>1, <5>1
      <4>3. m \in missed \/ Signalled(m)
        BY <2>4, <3>1, <3>2 DEF NewsIsSignalled
      <4> QED  BY <1>2, <3>1, <4>2, <4>3 DEF Signalled, Publish, boardVars
    <3>3. CASE stream \in {"connecting", "down"}
      BY <1>0, <3>1, <3>3 DEF Signalled
    <3> QED  BY <2>4, <3>1, <3>2, <3>3 DEF TypeOK, StreamState
  <2>5. NewsIsSignalled'
    BY <2>4 DEF NewsIsSignalled
  <2> QED  BY <1>2, <2>3, <2>5, StreamStepGood DEF Publish
<1>3. ASSUME NEW i \in DOMAIN loads, ReadLoad(i) PROVE IInv'
  <2>1. loads' = [loads EXCEPT ![i].upto = Len(log)]
    BY <1>3 DEF ReadLoad
  <2>2. loads' \in Seq(Load) /\ Len(loads') = Len(loads)
    <3>1. loads[i] \in Load
      BY <1>0
    <3>2. [loads[i] EXCEPT !.upto = Len(log)] \in Load
      BY <1>0, <3>1 DEF Load
    <3>3. loads' = [loads EXCEPT ![i] = [loads[i] EXCEPT !.upto = Len(log)]]
      BY <2>1
    <3> QED  BY <1>0, <3>2, <3>3
  <2>3. LoadsRead(loads)'
    BY <1>0, <1>3, <2>1 DEF LoadsRead, ReadLoad, serverVars
  <2>4. AskedOrKept /\ NothingWaitsWhenIdle'
    BY <1>3 DEF ReadLoad, AskedOrKept, NothingWaitsWhenIdle, Idle
  <2> QED  BY <1>0, <1>3, <2>2, <2>3, <2>4, BoardStepGood DEF ReadLoad
<1>4. ASSUME NEW i \in DOMAIN loads, SettleLoad(i), UNCHANGED <<serverVars, streamVars, timer, editing>>,
             board' \in [Story -> DOMAIN log \cup {0, Guess, Absent}]
      PROVE  IInv'
  <2> DEFINE ls  == RemoveAt(loads, i)
             req == IF loads[i].kind = "reload" THEN "none" ELSE request
  <2>1. Become(dragging, req, ls, 0)
    BY <1>4 DEF SettleLoad
  <2>2. req \in RequestState /\ (req = "served" => request = "served")
    BY <1>0 DEF RequestState
  <2>3. /\ ls \in Seq(Load)
        /\ \A j \in DOMAIN ls : \E k \in DOMAIN loads : ls[j] = loads[k]
    <3>1. ls = SubSeq(loads, 1, i - 1) \o SubSeq(loads, i + 1, Len(loads))
      BY DEF RemoveAt
    <3>2. /\ SubSeq(loads, 1, i - 1) \in Seq(Load) /\ Len(SubSeq(loads, 1, i - 1)) = i - 1
          /\ \A j \in 1..(i - 1) : SubSeq(loads, 1, i - 1)[j] = loads[j]
      BY <1>0
    <3>3. /\ SubSeq(loads, i + 1, Len(loads)) \in Seq(Load)
          /\ Len(SubSeq(loads, i + 1, Len(loads))) = Len(loads) - i
          /\ \A j \in 1..(Len(loads) - i) : SubSeq(loads, i + 1, Len(loads))[j] = loads[i + j]
      BY <1>0
    <3> DEFINE a == SubSeq(loads, 1, i - 1)
               b == SubSeq(loads, i + 1, Len(loads))
    <3>4. i \in 1..Len(loads) /\ Len(loads) \in Nat
      BY <1>0
    <3> HIDE DEF a, b
    <3>a. a \in Seq(Load) /\ b \in Seq(Load) /\ Len(a) = i - 1 /\ Len(b) = Len(loads) - i
      BY <3>2, <3>3 DEF a, b
    <3>5. a \o b \in Seq(Load) /\ Len(a \o b) = Len(loads) - 1
      BY <3>4, <3>a
    <3>6. \A j \in 1..(i - 1) : (a \o b)[j] = loads[j]
      <4>1. \A j \in 1..(i - 1) : (a \o b)[j] = a[j]
        BY <3>4, <3>a
      <4>2. \A j \in 1..(i - 1) : a[j] = loads[j]
        BY <3>2 DEF a
      <4> QED  BY <4>1, <4>2
    <3>7. \A j \in i..(Len(loads) - 1) : (a \o b)[j] = loads[j + 1]
      <4> SUFFICES ASSUME NEW j \in i..(Len(loads) - 1) PROVE (a \o b)[j] = loads[j + 1]
        OBVIOUS
      <4>2. (a \o b)[j] = b[j - (i - 1)]
        BY <3>4, <3>a
      <4>3. j - (i - 1) \in 1..(Len(loads) - i) /\ i + (j - (i - 1)) = j + 1
        BY <3>4
      <4>4. b[j - (i - 1)] = loads[i + (j - (i - 1))]
        BY <3>3, <4>3 DEF b
      <4> QED  BY <4>2, <4>3, <4>4
    <3>8. ls = a \o b
      BY <3>1 DEF a, b
    <3>9. ASSUME NEW j \in DOMAIN ls PROVE \E k \in DOMAIN loads : ls[j] = loads[k]
      <4> HIDE DEF ls
      <4>1. j \in 1..(i - 1) \/ j \in i..(Len(loads) - 1)
        BY <3>4, <3>5, <3>8
      <4>2. CASE j \in 1..(i - 1)
        <5>1. j \in DOMAIN loads
          BY <1>0, <3>4, <4>2
        <5> QED  BY <3>6, <3>8, <4>2, <5>1
      <4>3. CASE j \in i..(Len(loads) - 1)
        <5>1. j + 1 \in DOMAIN loads
          BY <1>0, <3>4, <4>3
        <5> QED  BY <3>7, <3>8, <4>3, <5>1
      <4> QED  BY <4>1, <4>2, <4>3
    <3> QED  BY <3>5, <3>8, <3>9
  <2>4. LoadsRead(ls)
    BY <2>3 DEF LoadsRead
  <2>5. log' = log
    BY <1>4 DEF serverVars
  <2> HIDE DEF ls, req
  <2>6. /\ dragging' = dragging /\ request' = req
        /\ refreshPending' \in BOOLEAN
        /\ loads' \in Seq(Load) /\ Len(loads') <= MaxLoads
        /\ LoadsRead(loads)'
        /\ asked' \in 0..Len(log)
        /\ AskedOrKept
        /\ NothingWaitsWhenIdle'
    BY <1>0, <2>1, <2>2, <2>3, <2>4, <2>5, BecomeGood
  <2> QED  BY <1>0, <1>4, <2>2, <2>6, BoardStepGood
<1>5. ASSUME NEW i \in DOMAIN loads, Arrive(i) PROVE IInv'
  <2>1. loads[i].upto \in Nat /\ loads[i].upto <= Len(log)
    <3>1. loads[i] \in Load /\ loads[i].upto # Unread
      BY <1>0, <1>5 DEF Arrive
    <3>2. loads[i].upto \in Nat
      BY <3>1 DEF Load
    <3> QED  BY <3>2 DEF LoadsRead
  <2>2. \A s \in Story : Latest(s, loads[i].upto) \in DOMAIN log \cup {0}
    BY <1>0, <2>1, LatestIsLogged
  <2>3. board' \in [Story -> DOMAIN log \cup {0, Guess, Absent}]
    BY <1>5, <2>2 DEF Arrive
  <2> QED  BY <1>4, <1>5, <2>3 DEF Arrive
<1>6. ASSUME NEW i \in DOMAIN loads, FailLoad(i) PROVE IInv'
  BY <1>0, <1>4, <1>6 DEF FailLoad
<1>7. CASE Connect
  <2>1. TypeOK'
    BY <1>0, <1>7 DEF Connect, TypeOK, StreamState, boardVars, serverVars
  <2>2. NewsIsSignalled'
    BY <1>0, <1>7 DEF Connect, NewsIsSignalled, News, Signalled, TypeOK, boardVars, serverVars
  <2> QED  BY <1>7, <2>1, <2>2, StreamStepGood DEF Connect, serverVars
<1>8. CASE Subscribe
  <2>1. TypeOK'
    BY <1>0, <1>8 DEF Subscribe, TypeOK, StreamState, boardVars, serverVars
  <2>2. NewsIsSignalled'
    BY <1>0, <1>8 DEF Subscribe, NewsIsSignalled, News, Signalled, TypeOK, boardVars, serverVars
  <2> QED  BY <1>8, <2>1, <2>2, StreamStepGood DEF Subscribe, serverVars
<1>9. CASE Open
  <2>1. TypeOK'
    BY <1>0, <1>9 DEF Open, TypeOK, StreamState, boardVars, serverVars
  <2>2. NewsIsSignalled'
    BY <1>0, <1>9 DEF Open, NewsIsSignalled, News, Signalled, TypeOK, boardVars, serverVars
  <2> QED  BY <1>9, <2>1, <2>2, StreamStepGood DEF Open, serverVars
<1>10. CASE Receive
  <2>1. /\ Len(queue) > 0 /\ queue' = Tail(queue) /\ queue' \in Seq(DOMAIN log)
        /\ \A i \in DOMAIN queue : i = 1 \/ (i - 1 \in DOMAIN queue' /\ queue'[i - 1] = queue[i])
    BY <1>0, <1>10 DEF Receive
  <2>2. TypeOK'
    BY <1>0, <1>10, <2>1 DEF Receive, TypeOK, boardVars, serverVars
  <2>3. ASSUME NEW n \in News' PROVE n \in missed' \/ Signalled(n)'
    <3>1. n \in News /\ stream = "open" /\ UNCHANGED <<serverVars, boardVars, stream, opened, missed>>
      BY <1>10 DEF Receive, News, serverVars, boardVars
    <3>2. n \in missed \/ Signalled(n)
      BY <3>1 DEF NewsIsSignalled
    <3>3. CASE Head(queue) = n
      <4>1. timer'
        BY <1>10, <3>1, <3>3 DEF Receive, News
      <4> QED  BY <4>1 DEF Signalled
    <3>4. CASE Head(queue) # n
      <4>1. ASSUME NEW i \in DOMAIN queue, queue[i] = n
            PROVE  \E j \in DOMAIN queue' : queue'[j] = n
        <5>1. i # 1
          BY <1>0, <3>4, <4>1
        <5> QED  BY <2>1, <4>1, <5>1
      <4>2. timer => timer'
        BY <1>10 DEF Receive
      <4> QED  BY <3>1, <3>2, <4>1, <4>2 DEF Signalled, serverVars, boardVars
    <3> QED  BY <3>3, <3>4
  <2>4. NewsIsSignalled'
    BY <2>3 DEF NewsIsSignalled
  <2> QED  BY <1>10, <2>2, <2>4, StreamStepGood DEF Receive, serverVars
<1>11. ASSUME RefreshWhenIdle,
              UNCHANGED <<serverVars, streamVars, dragging, request, editing, board>>,
              timer' \in BOOLEAN
       PROVE  IInv'
  <2>1. log' = log
    BY <1>11 DEF serverVars
  <2>2. /\ refreshPending' \in BOOLEAN
        /\ loads' \in Seq(Load) /\ Len(loads') <= MaxLoads
        /\ LoadsRead(loads)'
        /\ asked' \in 0..Len(log)
        /\ asked' = Len(log) \/ (asked' = asked /\ refreshPending' = TRUE)
        /\ NothingWaitsWhenIdle'
    BY <1>11, <2>1, RefreshWhenIdleGood
  <2>3. TypeOK'
    BY <1>0, <1>11, <2>2 DEF TypeOK, serverVars, streamVars
  <2>4. ServedIsLogged'
    BY <1>11, <2>1 DEF ServedIsLogged
  <2>5. NewsIsSignalled'
    <3>1. CASE asked' = Len(log)
      BY <1>0, <2>1, <3>1 DEF NewsIsSignalled, News
    <3>2. CASE refreshPending'
      BY <3>2 DEF NewsIsSignalled, Signalled
    <3> QED  BY <2>2, <3>1, <3>2
  <2> QED  BY <2>2, <2>3, <2>4, <2>5
<1>12. CASE Fire
  BY <1>11, <1>12 DEF Fire
<1>13. CASE Poll
  BY <1>0, <1>11, <1>13 DEF Poll
<1>14. CASE Break
  <2>1. TypeOK'
    BY <1>0, <1>14 DEF Break, TypeOK, StreamState, boardVars, serverVars
  <2>2. NewsIsSignalled'
    BY <1>0, <1>14 DEF Break, NewsIsSignalled, News, Signalled, TypeOK, boardVars, serverVars
  <2> QED  BY <1>14, <2>1, <2>2, StreamStepGood DEF Break, serverVars
<1>15. CASE Reconnect
  <2>1. TypeOK'
    BY <1>0, <1>15 DEF Reconnect, TypeOK, StreamState, boardVars, serverVars
  <2>2. NewsIsSignalled'
    BY <1>0, <1>15 DEF Reconnect, NewsIsSignalled, News, Signalled, TypeOK, boardVars, serverVars
  <2> QED  BY <1>15, <2>1, <2>2, StreamStepGood DEF Reconnect, serverVars
<1>16. CASE GiveUp
  <2>1. TypeOK'
    BY <1>0, <1>16 DEF GiveUp, TypeOK, StreamState, boardVars, serverVars
  <2>2. NewsIsSignalled'
    BY <1>0, <1>16 DEF GiveUp, NewsIsSignalled, News, Signalled, TypeOK, boardVars, serverVars
  <2> QED  BY <1>16, <2>1, <2>2, StreamStepGood DEF GiveUp, serverVars
<1>17. CASE RestartServer
  <2>1. TypeOK'
    BY <1>0, <1>17 DEF RestartServer, TypeOK, StreamState, boardVars
  <2>2. NewsIsSignalled'
    BY <1>0, <1>17 DEF RestartServer, NewsIsSignalled, News, Signalled, TypeOK, StreamState, boardVars
  <2> QED  BY <1>17, <2>1, <2>2, StreamStepGood DEF RestartServer
<1>18. CASE StartDrag
  <2>1. /\ LoadsRead(loads)' /\ AskedOrKept /\ NothingWaitsWhenIdle'
    BY <1>18 DEF StartDrag, LoadsRead, AskedOrKept, NothingWaitsWhenIdle, Idle, serverVars
  <2> QED  BY <1>0, <1>18, <2>1, BoardStepGood DEF StartDrag
<1>19. ASSUME NEW drag \in BOOLEAN, NEW req \in RequestState, req = "served" => request = "served",
              NEW k \in {0, 1}, Become(drag, req, loads, k),
              UNCHANGED <<serverVars, streamVars, timer>>,
              editing' \in Story, board' \in [Story -> DOMAIN log \cup {0, Guess, Absent}]
       PROVE  IInv'
  <2>1. log' = log
    BY <1>19 DEF serverVars
  <2>2. /\ dragging' = drag /\ request' = req
        /\ refreshPending' \in BOOLEAN
        /\ loads' \in Seq(Load) /\ Len(loads') <= MaxLoads
        /\ LoadsRead(loads)'
        /\ asked' \in 0..Len(log)
        /\ AskedOrKept
        /\ NothingWaitsWhenIdle'
    BY <1>0, <1>19, <2>1, BecomeGood
  <2> QED  BY <1>19, <2>2, BoardStepGood
<1>20. CASE CancelDrag
  <2>1. Become(FALSE, request, loads, 0)
    BY <1>20 DEF CancelDrag
  <2> QED  BY <1>0, <1>19, <1>20, <2>1 DEF CancelDrag
<1>21. ASSUME NEW s \in Story, Send(s) PROVE IInv'
  <2>1. Become(FALSE, "sent", loads, 0) /\ editing' = s
    BY <1>21 DEF Send
  <2>2. board' \in [Story -> DOMAIN log \cup {0, Guess, Absent}]
    BY <1>0, <1>21 DEF Send
  <2>3. "sent" \in RequestState
    BY DEF RequestState
  <2> QED  BY <1>19, <1>21, <2>1, <2>2, <2>3 DEF Send
<1>22. CASE Serve
  <2>1. /\ Commit(editing, "me") /\ request' = "served"
        /\ UNCHANGED <<streamVars, timer, refreshPending, loads, dragging, editing,
                       board, asked>>
    BY <1>22 DEF Serve
  <2>2. request' \in RequestState
    BY <2>1 DEF RequestState
  <2>3. /\ TypeOK' /\ LoadsRead(loads)' /\ NewsIsSignalled'
        /\ \E i \in DOMAIN log' : log'[i].by = "me"
    BY <1>0, <2>1, <2>2, CommitGood
  <2>4. ServedIsLogged'
    BY <2>3 DEF ServedIsLogged
  <2>5. NothingWaitsWhenIdle'
    BY <2>1 DEF NothingWaitsWhenIdle, Idle
  <2> QED  BY <2>3, <2>4, <2>5
<1>23. CASE Answer
  <2>1. PICK k \in {0, 1} : Become(dragging, "none", loads, k)
    BY <1>23 DEF Answer
  <2>2. Max({i \in DOMAIN log : log[i].by = "me"}) \in DOMAIN log
    BY <1>0, <1>23, OwnIsLogged DEF Answer
  <2>3. board' \in [Story -> DOMAIN log \cup {0, Guess, Absent}]
    BY <1>0, <1>23, <2>2 DEF Answer
  <2>4. "none" \in RequestState
    BY DEF RequestState
  <2> QED  BY <1>0, <1>19, <1>23, <2>1, <2>3, <2>4 DEF Answer
<1>24. CASE FailRequest
  <2>1. Ask(loads, "reload", 1) /\ request' = "reload" /\ log' = log
    BY <1>24 DEF FailRequest, serverVars
  <2>2. /\ loads' \in Seq(Load) /\ Len(loads') <= MaxLoads
        /\ LoadsRead(loads)'
        /\ asked' \in 0..Len(log)
        /\ asked' = Len(log)
    BY <1>0, <2>1, AskGood
  <2>3. request' \in RequestState /\ AskedOrKept /\ NothingWaitsWhenIdle'
    BY <2>1, <2>2 DEF RequestState, AskedOrKept, NothingWaitsWhenIdle, Idle
  <2> QED  BY <1>0, <1>24, <2>1, <2>2, <2>3, BoardStepGood DEF FailRequest
<1>25. CASE UNCHANGED vars
  <2>1. AskedOrKept /\ LoadsRead(loads)' /\ NothingWaitsWhenIdle'
    BY <1>25 DEF vars, serverVars, boardVars, AskedOrKept, LoadsRead, NothingWaitsWhenIdle, Idle
  <2> QED  BY <1>0, <1>25, <2>1, BoardStepGood DEF vars, boardVars
<1> QED
  BY <1>1, <1>2, <1>3, <1>5, <1>6, <1>7, <1>8, <1>9, <1>10, <1>12, <1>13, <1>14, <1>15,
     <1>16, <1>17, <1>18, <1>20, <1>21, <1>22, <1>23, <1>24, <1>25 DEF Next

LEMMA AlwaysIInv == Spec => []IInv
<1> QED  BY InitGood, StepGood, PTL DEF Spec

-----------------------------------------------------------------------------
(* Theorems *)

\* Every variable keeps its type: in particular the events on the stream are
\* committed changes, and the board shows nothing that was never there.
THEOREM TypeCorrect == Spec => []TypeOK
<1>1. IInv => TypeOK
  BY DEF IInv
<1> QED  BY <1>1, AlwaysIInv, PTL

\* No change of somebody else is lost once the stream has begun (connectLive and
\* refreshWhenIdle), for any number of changes, stories and loads under way.
THEOREM NewsIsSignalledCorrect == Spec => []NewsIsSignalled
<1>1. IInv => NewsIsSignalled
  BY DEF IInv
<1> QED  BY <1>1, AlwaysIInv, PTL

\* A refetch that was put off runs as soon as the board is idle
\* (Board.svelte:215-217), whichever way a drag or request came to its end.
THEOREM NothingWaitsCorrect == Spec => []NothingWaitsWhenIdle
<1>1. IInv => NothingWaitsWhenIdle
  BY DEF IInv
<1> QED  BY <1>1, AlwaysIInv, PTL
=============================================================================
