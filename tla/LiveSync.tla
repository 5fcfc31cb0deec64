------------------------------ MODULE LiveSync ------------------------------
(***************************************************************************)
(* How an open board keeps up with its project: the change events of the   *)
(* server, the stream they travel on (web/src/lib/live.ts), and the loads  *)
(* and edits of the board (web/src/components/Board.svelte).               *)
(*                                                                         *)
(* One tab is modelled; everybody else is "other".  The project is the log *)
(* of its committed changes, and an answer to a load is a prefix of it: the *)
(* server reads the list in one transaction.  For each story the board     *)
(* shows the last change of it that it knows about.                        *)
(*                                                                         *)
(* What the server promises of a stream is in Feed.tla: the events         *)
(* published since the stream was subscribed arrive in order and none is   *)
(* left out, until the stream ends.  It may end at any time.               *)
(***************************************************************************)
EXTENDS Naturals, Sequences, SequencesExt

CONSTANTS
  Story,      \* the stories of the project
  Unread,     \* a load the server has not answered yet
  Guess,      \* what the board shows of a story while its move is unconfirmed
  Absent,     \* what it shows of a story before a load has arrived
  MaxChanges, \* bound of the model: changes to the project
  MaxLoads    \* bound of the model: loads under way at a time

ASSUME LiveAssumption ==
  /\ Unread \notin Nat /\ Guess \notin Nat /\ Absent \notin Nat
  /\ Guess # Absent
  /\ MaxChanges \in Nat /\ MaxLoads \in Nat \ {0}

VARIABLES
  log,         \* committed changes to stories, each with its author
  unpublished, \* the changes whose handlers have not published them yet
  stream,      \* the EventSource of the tab
  opened,      \* connectLive: it has been open before
  queue,       \* the events on the stream
  timer,       \* connectLive: the debounced refetch is due
  refreshPending, \* the board refetches when it is idle
  loads,       \* the loads under way
  dragging,    \* the user drags a story
  request,     \* the user's request (busyIds): see RequestState
  editing,     \* the story it is about
  board,       \* the last change of each story that the board shows
  asked,       \* history: length of the log when a load was last asked for
  missed       \* history: what was published before the first stream began

serverVars == <<log, unpublished>>
streamVars == <<stream, opened, queue, missed>>
boardVars  == <<refreshPending, loads, dragging, request, editing, board, asked>>
vars == <<serverVars, streamVars, timer, boardVars>>

Change == [story : Story, by : {"me", "other"}]

\* none: connectLive has not run; subscribed: the hub has the subscriber, the
\* tab has not heard of it; down: the browser will reconnect; dead: it gave up.
StreamState == {"none", "connecting", "subscribed", "open", "down", "dead"}

\* sent, served: it is out, then done by the server; reload: it failed and the
\* list is loaded again.
RequestState == {"none", "sent", "served", "reload"}

Load == [kind : {"first", "refresh", "reload"}, upto : Nat \cup {Unread}]

\* Slip: off by one.
SlipLatest(s, n) == Max({0} \cup {i + 1 : i \in {j \in 1..n : log[j].story = s}})

\* The last of the first n changes that is about story s, or 0.
Latest(s, n) == Max({0} \cup {i \in 1..n : log[i].story = s})

-----------------------------------------------------------------------------
(* The server *)

Commit(s, who) ==
  /\ Len(log) < MaxChanges
  /\ log' = Append(log, [story |-> s, by |-> who])
  /\ unpublished' = unpublished \cup {Len(log) + 1}

OtherWrites(s) ==
  /\ Commit(s, "other")
  /\ UNCHANGED <<streamVars, boardVars, timer>>

\* Handlers publish after the commit, each when it gets to it.
Publish(n) ==
  /\ n \in unpublished
  /\ unpublished' = unpublished \ {n}
  /\ queue' = IF stream \in {"subscribed", "open"} THEN Append(queue, n) ELSE queue
  /\ UNCHANGED <<boardVars, log, stream, opened, timer, missed>>

-----------------------------------------------------------------------------
(* The board's loads *)

\* The loads `ls' and k more that start now.
Ask(ls, kind, k) ==
  /\ Len(ls) + k <= MaxLoads
  /\ loads' = ls \o [i \in 1..k |-> [kind |-> kind, upto |-> Unread]]
  /\ asked' = IF k > 0 THEN Len(log) ELSE asked

Idle == ~dragging /\ request = "none"

\* Slip: a refetch that finds the board busy is forgotten.
SlipRefreshWhenIdle ==
  IF Idle
  THEN Ask(loads, "refresh", 1) /\ refreshPending' = FALSE
  ELSE UNCHANGED <<refreshPending, loads, asked>>

RefreshWhenIdle ==
  IF Idle
  THEN Ask(loads, "refresh", 1) /\ refreshPending' = FALSE
  ELSE refreshPending' = TRUE /\ UNCHANGED <<loads, asked>>

\* Slip: nobody looks at what was put off.
SlipBecome(drag, req, ls, k) ==
  /\ dragging' = drag
  /\ request' = req
  /\ Ask(ls, "refresh", k)
  /\ UNCHANGED refreshPending

\* The user's drag or request goes on to another state, with k loads that start
\* then; when the board gets idle, the effect in Board.svelte runs the refetch
\* that was put off.
Become(drag, req, ls, k) ==
  /\ dragging' = drag
  /\ request' = req
  /\ IF ~drag /\ req = "none" /\ refreshPending
     THEN Ask(ls, "refresh", k + 1) /\ refreshPending' = FALSE
     ELSE Ask(ls, "refresh", k) /\ UNCHANGED refreshPending

ReadLoad(i) ==
  /\ loads[i].upto = Unread
  /\ loads' = [loads EXCEPT ![i].upto = Len(log)]
  /\ UNCHANGED <<serverVars, streamVars, timer, refreshPending, dragging,
                 request, editing, board, asked>>

\* A load is over.  The one withBusy makes after a failed request ends that
\* request.
SettleLoad(i) ==
  Become(dragging, IF loads[i].kind = "reload" THEN "none" ELSE request,
         RemoveAt(loads, i), 0)

Arrive(i) ==
  /\ loads[i].upto # Unread
  /\ board' = [s \in Story |-> Latest(s, loads[i].upto)]
  /\ SettleLoad(i)
  /\ UNCHANGED <<serverVars, streamVars, timer, editing>>

\* Failed loads are reported and not repeated.
FailLoad(i) ==
  /\ SettleLoad(i)
  /\ UNCHANGED <<serverVars, streamVars, timer, editing, board>>

-----------------------------------------------------------------------------
(* live.ts *)

\* onMount connects when the first load is over, well or not.
Connect ==
  /\ stream = "none"
  /\ \A i \in DOMAIN loads : loads[i].kind # "first"
  /\ stream' = "connecting"
  /\ UNCHANGED <<serverVars, boardVars, opened, queue, timer, missed>>

\* handleEvents subscribes before its first bytes go out.
Subscribe ==
  /\ stream = "connecting"
  /\ stream' = "subscribed"
  /\ queue' = <<>>
  /\ missed' = IF opened THEN missed ELSE (1..Len(log)) \ unpublished
  /\ UNCHANGED <<serverVars, boardVars, opened, timer>>

\* onopen: every opening but the first one schedules a refetch.
Open ==
  /\ stream = "subscribed"
  /\ stream' = "open"
  /\ opened' = TRUE
  /\ timer' = (timer \/ opened)
  /\ UNCHANGED <<serverVars, boardVars, queue, missed>>

\* onEvent: the tab skips what it did itself.
Receive ==
  /\ stream = "open"
  /\ queue # <<>>
  /\ queue' = Tail(queue)
  /\ timer' = (timer \/ log[Head(queue)].by = "other")
  /\ UNCHANGED <<serverVars, boardVars, stream, opened, missed>>

Fire ==
  /\ timer
  /\ timer' = FALSE
  /\ RefreshWhenIdle
  /\ UNCHANGED <<serverVars, streamVars, dragging, request, editing, board>>

\* The stream ends: the network, a signed-out session, the hub that found the
\* subscriber stuck.
Break ==
  /\ stream \in {"connecting", "subscribed", "open"}
  /\ stream' = "down"
  /\ queue' = <<>>
  /\ UNCHANGED <<serverVars, boardVars, opened, timer, missed>>

Reconnect ==
  /\ stream = "down"
  /\ stream' = "connecting"
  /\ UNCHANGED <<serverVars, boardVars, opened, queue, timer, missed>>

\* An answer other than 200 makes an EventSource give up.
GiveUp ==
  /\ stream = "connecting"
  /\ stream' = "dead"
  /\ UNCHANGED <<serverVars, boardVars, opened, queue, timer, missed>>

\* The server stops between a commit and its event, and starts again.
RestartServer ==
  /\ unpublished' = {}
  /\ stream' = IF stream \in {"connecting", "subscribed", "open"} THEN "down" ELSE stream
  /\ queue' = <<>>
  /\ UNCHANGED <<boardVars, log, opened, timer, missed>>

-----------------------------------------------------------------------------
(* The user, and the clock *)

StartDrag ==
  /\ ~dragging
  /\ \E s \in Story : board[s] # Absent
  /\ dragging' = TRUE
  /\ UNCHANGED <<serverVars, streamVars, timer, refreshPending, loads,
                 request, editing, board, asked>>

CancelDrag ==
  /\ dragging
  /\ Become(FALSE, request, loads, 0)
  /\ UNCHANGED <<serverVars, streamVars, timer, editing, board>>

\* A dropped story takes its place at once; other edits wait for the answer.
Send(s) ==
  /\ board[s] # Absent
  /\ request = "none"
  /\ board' = IF dragging THEN [board EXCEPT ![s] = Guess] ELSE board
  /\ Become(FALSE, "sent", loads, 0)
  /\ editing' = s
  /\ UNCHANGED <<serverVars, streamVars, timer>>

Serve ==
  /\ request = "sent"
  /\ Commit(editing, "me")
  /\ request' = "served"
  /\ UNCHANGED <<streamVars, timer, refreshPending, loads, dragging,
                 editing, board, asked>>

\* The answer replaces the story.  A move that spread its panel out is followed
\* by a load.
Answer ==
  /\ request = "served"
  /\ board' = [board EXCEPT ![editing] = Max({i \in DOMAIN log : log[i].by = "me"})]
  /\ \E renormalized \in {0, 1} : Become(dragging, "none", loads, renormalized)
  /\ UNCHANGED <<serverVars, streamVars, timer, editing>>

\* The request is refused or lost, or its answer is.
FailRequest ==
  /\ request \in {"sent", "served"}
  /\ Ask(loads, "reload", 1)
  /\ request' = "reload"
  /\ UNCHANGED <<serverVars, streamVars, timer, refreshPending, dragging,
                 editing, board>>

\* Slip: no polling while there is a stream.
SlipPoll ==
  /\ stream \notin {"open"}
  /\ RefreshWhenIdle
  /\ UNCHANGED <<serverVars, streamVars, timer, dragging, request, editing,
                 board>>

\* Every five minutes, and when the tab becomes visible.
Poll ==
  /\ RefreshWhenIdle
  /\ UNCHANGED <<serverVars, streamVars, timer, dragging, request, editing,
                 board>>

-----------------------------------------------------------------------------
Init ==
  /\ log = <<>>
  /\ unpublished = {}
  /\ stream = "none" /\ opened = FALSE /\ queue = <<>>
  /\ timer = FALSE /\ refreshPending = FALSE
  /\ loads = <<[kind |-> "first", upto |-> Unread]>>
  /\ dragging = FALSE /\ request = "none"
  /\ editing \in Story
  /\ board = [s \in Story |-> Absent]
  /\ asked = 0
  /\ missed = {}

Next ==
  \/ \E s \in Story : OtherWrites(s)
  \/ \E n \in unpublished : Publish(n)
  \/ \E i \in DOMAIN loads : ReadLoad(i) \/ Arrive(i) \/ FailLoad(i)
  \/ Connect \/ Subscribe \/ Open \/ Receive \/ Fire
  \/ Break \/ Reconnect \/ GiveUp \/ RestartServer
  \/ StartDrag \/ CancelDrag \/ Serve \/ Answer \/ FailRequest
  \/ \E s \in Story : Send(s)
  \/ Poll

Spec == Init /\ [][Next]_vars

\* Requests are served and answered or fail, drags end, the timer and the poll
\* run, and not every single load fails.
Fairness ==
  /\ SF_vars(\E i \in DOMAIN loads : ReadLoad(i))
  /\ SF_vars(\E i \in DOMAIN loads : Arrive(i))
  /\ WF_vars(Serve \/ FailRequest)
  /\ WF_vars(Answer \/ FailRequest)
  /\ WF_vars(CancelDrag \/ \E s \in Story : Send(s))
  /\ WF_vars(Fire)
  /\ WF_vars(Poll)

FairSpec == Spec /\ Fairness
-----------------------------------------------------------------------------
(* Properties *)

TypeOK ==
  /\ log \in Seq(Change) /\ Len(log) <= MaxChanges
  /\ unpublished \subseteq DOMAIN log
  /\ missed \subseteq DOMAIN log
  /\ stream \in StreamState
  /\ opened \in BOOLEAN /\ timer \in BOOLEAN /\ refreshPending \in BOOLEAN
  /\ queue \in Seq(DOMAIN log)
  /\ loads \in Seq(Load) /\ Len(loads) <= MaxLoads
  /\ dragging \in BOOLEAN
  /\ request \in RequestState
  /\ editing \in Story
  /\ board \in [Story -> DOMAIN log \cup {0, Guess, Absent}]
  /\ asked \in 0..Len(log)

\* Something is under way that will make the board refetch after change n.
Signalled(n) ==
  \/ n \in unpublished
  \/ \E i \in DOMAIN queue : queue[i] = n
  \/ timer
  \/ refreshPending
  \/ opened /\ stream \in {"down", "connecting", "subscribed"}

News == {n \in DOMAIN log : log[n].by = "other" /\ n > asked}

\* No change of somebody else is lost once the stream has begun: the board has
\* asked for the list since, or something is under way that makes it ask, with
\* streams that break, servers that stop between commit and event, changes
\* published out of order and refetches put off by a drag.
NewsIsSignalled ==
  stream \notin {"none", "dead"} =>
    \A n \in News :
      \/ n \in missed
      \/ Signalled(n)
      \/ ~opened /\ stream \in {"connecting", "down"}

\* A refetch that was put off is not forgotten: once the user's drag or request
\* is over, however it ended, none is left waiting (Board.svelte:215-217).
NothingWaitsWhenIdle == Idle => ~refreshPending

\* When the changes stop and the user lets go, the board comes to show the last
\* change of each story: a load that overtook another, a failed one, an
\* unconfirmed drop and a dead stream are made good by the poll.
EventuallyUpToDate ==
  <>[]Idle => <>[](\A s \in Story : board[s] = Latest(s, Len(log)))
=============================================================================
