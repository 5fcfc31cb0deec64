------------------------------ MODULE Planning ------------------------------
(***************************************************************************)
(* Iterations and velocity (src/internal/iteration, src/internal/velocity) *)
(* and what the lists of the board make of the same boundary               *)
(* (src/internal/story/story.go), and the iterations the browser projects  *)
(* (web/src/lib/board.ts): all derived on demand from a project's settings *)
(* and the times its stories were accepted, none of it stored.             *)
(*                                                                         *)
(* Time is counted in hours from midnight of day 0, a first day of the     *)
(* week.  A day has DayLength hours, but for days on which the clock is    *)
(* put forward or back: one less or one more.  The browser's margin of two *)
(* hours asks for days of four or more.                                    *)
(***************************************************************************)
EXTENDS Integers, Sequences, FiniteSets, FiniteSetsExt

CONSTANTS
  DayLength,        \* 24 in the code
  WeekLength,       \* 7 in the code
  DefaultLength,    \* 7 days in the code
  DefaultVelocity,  \* 10 in the code
  Days,             \* the days there are, 0..n: bound of the model
  Points            \* estimates, and how many iterations count: bound of the model

ASSUME PlanningAssumption ==
  /\ {DayLength, WeekLength, DefaultLength} \subseteq Nat \ {0} /\ DayLength > 3
  /\ DefaultVelocity \in Nat /\ Points \subseteq Nat
  /\ 0..(WeekLength + 2) \subseteq Days /\ Days \subseteq Nat

VARIABLE
  asked  \* the settings of the project a request is about, while there is one

-----------------------------------------------------------------------------
(* Iterations *)

\* Local midnight of day d in zone z, a time zone with the days that are short
\* and long there.
Midnight(z, d) ==
  d * DayLength - Cardinality({x \in z.short : x < d}) + Cardinality({x \in z.long : x < d})

DayOf(z, t) == CHOOSE d \in Days : Midnight(z, d) <= t /\ t < Midnight(z, d + 1)

length(s) == IF s.length < 1 THEN DefaultLength ELSE s.length

\* First day of iteration 1: the closest start of a week on or before the
\* project's creation.
origin(s) ==
  LET a == DayOf(s.zone, s.anchor)
      back == ((a % WeekLength) - s.weekday + WeekLength) % WeekLength
  IN  a - back

Number(s, n) ==
  [number |-> n,
   start  |-> Midnight(s.zone, origin(s) + (n - 1) * length(s)),
   end    |-> Midnight(s.zone, origin(s) + n * length(s))]

\* Slip: days are taken to be 24 hours long.
SlipAt(s, t) ==
  LET o == Midnight(s.zone, origin(s))
  IN  IF t < o THEN Number(s, 1)
      ELSE Number(s, ((t - o) \div (length(s) * DayLength)) + 1)

\* The iteration of time t: a guess, and steps from it.
At(s, t) ==
  LET o == Midnight(s.zone, origin(s))
      step[n \in Int] == LET it == Number(s, n)
                         IN  IF t < it.start THEN step[n - 1]
                             ELSE IF t >= it.end THEN step[n + 1]
                             ELSE it
  IN  IF t < o THEN Number(s, 1)
      ELSE step[((t - o) \div (length(s) * DayLength)) + 1]

-----------------------------------------------------------------------------
(* Velocity; rows are the accepted stories: when, and with which estimate *)

ListAcceptedStories(rows, from, to) == {r \in rows : from <= r.at /\ r.at < to}

TotalPoints(rows) == MapThenSumSet(LAMBDA r : r.points, rows)

\* The stories accepted in from..to that fall into iteration n.
Bucket(s, rows, from, to, n) ==
  {r \in ListAcceptedStories(rows, from, to) : At(s, r.at).number = n}

\* Points per iteration, over the last window iterations that are completed,
\* rounded down.
Velocity(s, rows, window, now) ==
  LET current == At(s, now)
      first == IF current.number - window > 1 THEN current.number - window ELSE 1
      points == [n \in first..(current.number - 1) |->
                   TotalPoints(Bucket(s, rows, Number(s, first).start, current.start, n))]
  IN  IF first >= current.number THEN DefaultVelocity
      ELSE MapThenSumSet(LAMBDA n : points[n], DOMAIN points) \div Cardinality(DOMAIN points)

\* The history: what was accepted in each iteration so far.
Iterations(s, rows, now) ==
  LET current == At(s, now)
  IN  [n \in 1..current.number |-> Bucket(s, rows, Number(s, 1).start, current.end, n)]

-----------------------------------------------------------------------------
(* The lists of the board *)

\* List, of what is done, and of the board otherwise.
ListDone(s, rows, now) == ListAcceptedStories(rows, 0, At(s, now).start)
ListActive(s, rows, now) == {r \in rows : r.at >= At(s, now).start}

-----------------------------------------------------------------------------
(* The backlog in the browser; a backlog is the points of its stories in order *)

\* Slip: no margin for a clock that is put forward or back on the way.
SlipProjectedStart(current, len, offset) ==
  current.end + (offset - 1) * len * DayLength

\* Two hours after the midnight that begins the iteration, counted in UTC.
ProjectedStart(current, len, offset) ==
  current.end + (offset - 1) * len * DayLength + 2

NextMarker(rows, current, len) ==
  [number |-> current.number + Len(rows) + 1,
   startAt |-> ProjectedStart(current, len, Len(rows) + 1), points |-> 0, stories |-> <<>>]

\* The projected iterations: each takes stories until the next one with points
\* would push it past the velocity.
projectBacklog(backlog, velocity, current, len) ==
  LET capacity == IF velocity < 1 THEN 1 ELSE velocity
      rows[n \in 0..Len(backlog)] ==
        IF n = 0 THEN <<>>
        ELSE LET done   == rows[n - 1]
                 pts    == backlog[n]
                 points == IF done = <<>> THEN 0 ELSE done[Len(done)].points
                 opens  == done = <<>> \/ (pts > 0 /\ points > 0 /\ points + pts > capacity)
                 marked == IF opens THEN Append(done, NextMarker(done, current, len)) ELSE done
             IN  [marked EXCEPT ![Len(marked)].points = @ + pts,
                                ![Len(marked)].stories = Append(@, n)]
  IN  rows[Len(backlog)]

-----------------------------------------------------------------------------
(* Requests: nothing is stored, so the only state is what one is about *)

Zone == [short : {{}} \cup {{d} : d \in Days}, long : {{}} \cup {{d} : d \in Days}]

\* A project is created in the second week, so that its first iteration may begin before.
Schedule ==
  [length : 0..2, weekday : 0..(WeekLength - 1), zone : Zone,
   anchor : {(WeekLength + d) * DayLength + 1 : d \in 0..1}]

\* The settings of a project may have become any others since the last request.
Ask(s) ==
  /\ asked = {}
  /\ asked' = {s}

Answer ==
  /\ asked # {}
  /\ asked' = {}

PlanningInit == asked = {}
PlanningNext == Answer \/ \E s \in Schedule : Ask(s)
PlanningSpec == PlanningInit /\ [][PlanningNext]_asked

-----------------------------------------------------------------------------
(* What must hold *)

Times == {t \in 0..(Cardinality(Days) * DayLength) : t < (Cardinality(Days) - 2) * DayLength}

\* At finds the iteration a time is in, for any length and first weekday, also
\* when clocks change on the way (one hour off its guess in each direction), and
\* iteration 1 for what came before it (iteration.go:54-76).
AtFindsTheIteration ==
  \A s \in asked : \A t \in Times :
    LET it == At(s, t)
    IN  /\ it = Number(s, it.number)
        /\ it.number >= 1
        /\ t < it.end
        /\ t >= it.start \/ it.number = 1
        /\ Number(s, 1).start <= s.anchor /\ s.anchor < Midnight(s.zone, origin(s) + WeekLength)

\* A story accepted at once, and another one later.
Accepted(s, at, p) == {[at |-> at, points |-> p], [at |-> s.anchor, points |-> 1]}

\* What was accepted in iteration n.
During(s, rows, n) == {r \in rows : Number(s, n).start <= r.at /\ r.at < Number(s, n).end}

\* A few zones suffice where stories are added up.
SomeZones == {[short |-> {}, long |-> {}], [short |-> {WeekLength + 1}, long |-> {}],
              [short |-> {}, long |-> {WeekLength + 1}]}

\* Each accepted story is counted once: it is on the board or among what is
\* done, and in one iteration of the history, the one it was accepted in
\* (velocity.go:59-120, story.go:270-285).
HistoryAddsUp ==
  \A s \in {x \in asked : x.zone \in SomeZones} :
  \A now \in {t \in Times : t >= s.anchor} :
  \A p \in Points : \A at \in {t \in Times : s.anchor <= t /\ t <= now} :
    LET rows == Accepted(s, at, p)
        current == At(s, now)
        history == Iterations(s, rows, now)
    IN  /\ \A r \in rows : Cardinality({n \in DOMAIN history : r \in history[n]}) = 1
        /\ \A n \in DOMAIN history : history[n] = During(s, rows, n)
        /\ ListDone(s, rows, now) = UNION {history[n] : n \in 1..(current.number - 1)}
        /\ ListActive(s, rows, now) = history[current.number]

\* Both: every part of the program that asks in which iteration something happened
\* gets one answer, that of stepping from the first (iteration.go, velocity.go,
\* story.go).
IterationsAgree == AtFindsTheIteration /\ HistoryAddsUp

\* The points of a story are in the average of the completed iterations exactly if
\* it was accepted in one of them (velocity.go:59-94).
VelocityIsTheAverage ==
  \A s \in {x \in asked : x.zone \in SomeZones} :
  \A now \in {t \in Times : t >= s.anchor}, window \in Points \ {0} :
  \A p \in Points : \A at \in {t \in Times : s.anchor <= t /\ t <= now} :
    LET rows == Accepted(s, at, p)
        current == At(s, now)
        counted == {n \in 1..(current.number - 1) : n >= current.number - window}
    IN  Velocity(s, rows, window, now) =
          IF counted = {} THEN DefaultVelocity
          ELSE TotalPoints(UNION {During(s, rows, n) : n \in counted})
                 \div Cardinality(counted)

\* Backlogs of up to four stories.
Backlogs == UNION {[1..n -> Points] : n \in 0..4}

\* The projection of one backlog from one iteration on.
ProjectionHoldsTheBacklog(s, current, velocity, backlog) ==
  LET plan == projectBacklog(backlog, velocity, current, length(s))
      held[k \in 0..Len(plan)] == IF k = 0 THEN <<>> ELSE held[k - 1] \o plan[k].stories
      pointed(k) == {i \in DOMAIN backlog :
                       backlog[i] > 0 /\ \E j \in DOMAIN plan[k].stories : plan[k].stories[j] = i}
  IN  /\ held[Len(plan)] = [i \in DOMAIN backlog |-> i]
      /\ \A k \in DOMAIN plan :
           LET real == Number(s, plan[k].number)
               day  == origin(s) + (plan[k].number - 1) * length(s)
           IN  /\ plan[k].number = current.number + k
               /\ real.start <= plan[k].startAt
               /\ plan[k].startAt < Midnight(s.zone, day + 1)
               /\ plan[k].points = MapThenSumSet(LAMBDA i : backlog[i], pointed(k))
               /\ plan[k].points <= velocity \/ Cardinality(pointed(k)) <= 1
               /\ k > 1 => plan[k - 1].points + backlog[plan[k].stories[1]] > velocity

\* What the backlog shows.  Its iterations bear the numbers and, in the zone of
\* the project, the days that the server will give them, though the browser adds
\* days of equal length and clocks may change on the way; together they hold the
\* backlog in order; none is over the velocity unless one story is; and a new one
\* begins only where the next story did not fit (board.ts:148-184).
ProjectionIsThePlan ==
  \A s \in {x \in asked : x.length > 0} :
    /\ \A t \in Times : ProjectionHoldsTheBacklog(s, At(s, t), 1, <<1, 1, 1, 1>>)
    /\ s.zone \in SomeZones =>
         \A velocity \in Points, backlog \in Backlogs :
           ProjectionHoldsTheBacklog(s, At(s, s.anchor), velocity, backlog)

\* Both: what the browser plans is the capacity that the server works out.
PlanFollowsVelocity == VelocityIsTheAverage /\ ProjectionIsThePlan
=============================================================================
