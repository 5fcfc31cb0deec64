-------------------------------- MODULE Hub --------------------------------
(***************************************************************************)
(* The change feed: the hub (src/internal/events/hub.go) and the handlers  *)
(* that stream its events (src/internal/api/events_handler.go).            *)
(*                                                                         *)
(* Whatever the hub does under its mutex is one action.  A handler is a    *)
(* goroutine of its own: taking an event from its channel, writing it to   *)
(* the peer, deciding to return and the deferred cancel are separate steps, *)
(* and events are published in between.  An event is its number among the  *)
(* events of its project.                                                  *)
(***************************************************************************)
EXTENDS Integers, Sequences

CONSTANTS
  Project,
  BufferSize,  \* events a channel holds (16 in the code)
  None,        \* no event in hand; a subscriber there is not yet
  MaxStreams,  \* bound of the model: subscriptions
  MaxEvents    \* bound of the model: events of each project

ASSUME HubAssumption ==
  /\ BufferSize \in Nat \ {0}
  /\ MaxStreams \in Nat /\ MaxEvents \in Nat
  /\ None \notin Nat \cup [project : Project, got : Nat, live : BOOLEAN]

VARIABLES
  next,      \* Hub.next: the id of the next subscriber
  subs,      \* Hub.subs: ids by project; an absent project has none
  chan,      \* the channel of each subscriber
  handler,   \* the handler of each subscriber
  published, \* history: events published to each project
  panicked   \* a channel was closed twice or sent to when closed

vars == <<next, subs, chan, handler, published, panicked>>

Ids == 0..next - 1

\* Where a handler stands: before its first bytes, at the select, with an event
\* in hand, on its way out, gone.
Place == {"header", "select", "sending", "leaving", "gone"}

Channel == [queue : Seq(Nat), closed : BOOLEAN]
Handler == [project : Project, at : Place, hand : Nat \cup {None}, got : Nat]

-----------------------------------------------------------------------------
(* The hub, under its mutex *)

Subscribe(p) ==
  /\ next < MaxStreams
  /\ next' = next + 1
  /\ subs' = [subs EXCEPT ![p] = @ \cup {next}]
  /\ chan' = [i \in 0..next |-> IF i = next THEN [queue |-> <<>>, closed |-> FALSE]
                                            ELSE chan[i]]
  /\ handler' = [i \in 0..next |->
                   IF i = next THEN [project |-> p, at |-> "header", hand |-> None,
                                     got |-> published[p]]
                               ELSE handler[i]]
  /\ UNCHANGED <<published, panicked>>

\* Slip: one more event is taken to fit.
SlipFull(i) == Len(chan[i].queue) > BufferSize

Full(i) == Len(chan[i].queue) >= BufferSize

\* Slip: an event that does not fit is skipped.
SlipPublish(p) ==
  /\ published[p] < MaxEvents
  /\ published' = [published EXCEPT ![p] = @ + 1]
  /\ chan' = [i \in Ids |->
                IF i \in subs[p] /\ ~Full(i)
                THEN [chan[i] EXCEPT !.queue = Append(@, published[p] + 1)] ELSE chan[i]]
  /\ UNCHANGED <<next, subs, handler, panicked>>

\* Each subscriber gets the event, or is dropped when its channel is full.
Publish(p) ==
  LET stuck == {i \in subs[p] : Full(i)}
  IN  /\ published[p] < MaxEvents
      /\ published' = [published EXCEPT ![p] = @ + 1]
      /\ subs' = [subs EXCEPT ![p] = @ \ stuck]
      /\ chan' = [i \in Ids |->
                    IF i \in stuck THEN [chan[i] EXCEPT !.closed = TRUE]
                    ELSE IF i \in subs[p]
                    THEN [chan[i] EXCEPT !.queue = Append(@, published[p] + 1)]
                    ELSE chan[i]]
      /\ panicked' = (panicked \/ \E i \in subs[p] : chan[i].closed)
      /\ UNCHANGED <<next, handler>>

\* Slip: the channel is closed whether or not the hub still has it.
SlipCancel(i) ==
  LET p == handler[i].project
  IN  /\ handler[i].at = "leaving"
      /\ handler' = [handler EXCEPT ![i].at = "gone"]
      /\ subs' = [subs EXCEPT ![p] = @ \ {i}]
      /\ chan' = [chan EXCEPT ![i].closed = TRUE]
      /\ panicked' = (panicked \/ chan[i].closed)
      /\ UNCHANGED <<next, published>>

\* Slip: the channel is closed and stays in the hub.
SlipCancelKeeps(i) ==
  /\ handler[i].at = "leaving"
  /\ handler' = [handler EXCEPT ![i].at = "gone"]
  /\ chan' = [chan EXCEPT ![i].closed = TRUE]
  /\ UNCHANGED <<next, subs, published, panicked>>

\* The function Subscribe returns: deferred by the handler, run once.
Cancel(i) ==
  LET p   == handler[i].project
      has == i \in subs[p]
  IN  /\ handler[i].at = "leaving"
      /\ handler' = [handler EXCEPT ![i].at = "gone"]
      /\ subs' = [subs EXCEPT ![p] = @ \ {i}]
      /\ chan' = [chan EXCEPT ![i].closed = @ \/ has]
      /\ panicked' = (panicked \/ (has /\ chan[i].closed))
      /\ UNCHANGED <<next, published>>

-----------------------------------------------------------------------------
(* The handler *)

\* The first bytes are out.
Hello(i) ==
  /\ handler[i].at = "header"
  /\ handler' = [handler EXCEPT ![i].at = "select"]
  /\ UNCHANGED <<next, subs, chan, published, panicked>>

\* What is left in a closed channel is still received.
Take(i) ==
  /\ handler[i].at = "select"
  /\ chan[i].queue # <<>>
  /\ handler' = [handler EXCEPT ![i].at = "sending", ![i].hand = Head(chan[i].queue)]
  /\ chan' = [chan EXCEPT ![i].queue = Tail(@)]
  /\ UNCHANGED <<next, subs, published, panicked>>

\* Slip: the hand is emptied first.
SlipSendEvent(i) ==
  /\ handler[i].at = "sending"
  /\ handler' = [handler EXCEPT ![i].at = "select", ![i].hand = None, ![i].got = None]
  /\ UNCHANGED <<next, subs, chan, published, panicked>>

SendEvent(i) ==
  /\ handler[i].at = "sending"
  /\ handler' = [handler EXCEPT ![i].at = "select", ![i].hand = None,
                                ![i].got = handler[i].hand]
  /\ UNCHANGED <<next, subs, chan, published, panicked>>

\* The hub has dropped the subscriber and nothing is left to receive.
SeeClosed(i) ==
  /\ handler[i].at = "select"
  /\ chan[i].queue = <<>>
  /\ chan[i].closed
  /\ handler' = [handler EXCEPT ![i].at = "leaving"]
  /\ UNCHANGED <<next, subs, chan, published, panicked>>

\* The peer is gone, a write fails or times out, or the session has ended.
Leave(i) ==
  /\ handler[i].at \in {"header", "select", "sending"}
  /\ handler' = [handler EXCEPT ![i].at = "leaving", ![i].hand = None]
  /\ UNCHANGED <<next, subs, chan, published, panicked>>

-----------------------------------------------------------------------------
Init ==
  /\ next = 0
  /\ subs = [p \in Project |-> {}]
  /\ chan = [i \in {} |-> None]
  /\ handler = [i \in {} |-> None]
  /\ published = [p \in Project |-> 0]
  /\ panicked = FALSE

Step(i) == Hello(i) \/ Take(i) \/ SendEvent(i) \/ SeeClosed(i) \/ Leave(i) \/ Cancel(i)

Next ==
  \/ \E p \in Project : Subscribe(p) \/ Publish(p)
  \/ \E i \in Ids : Step(i)

Spec == Init /\ [][Next]_vars

\* A handler that can go on does: its writes end, well or at their deadline.
FairSpec ==
  Spec /\ \A i \in 0..MaxStreams - 1 :
            WF_vars(i \in Ids /\ (Hello(i) \/ Take(i) \/ SendEvent(i) \/ SeeClosed(i)))
-----------------------------------------------------------------------------
(* Properties *)

TypeOK ==
  /\ next \in Nat
  /\ subs \in [Project -> SUBSET Ids]
  /\ chan \in [Ids -> Channel]
  /\ handler \in [Ids -> Handler]
  /\ published \in [Project -> Nat]
  /\ panicked \in BOOLEAN

\* No channel is closed twice or sent to once closed, whoever comes first, the
\* hub that drops a stuck subscriber or the handler that cancels it: either
\* would bring the server down (hub.go:66-74, 89-94).
NeverPanics == ~panicked

\* A handler that has returned is no longer in the hub, so that streams which
\* come and go leave nothing behind to publish to (hub.go:52-54).
NothingLeaks ==
  \A p \in Project : \A i \in subs[p] : handler[i].project = p /\ handler[i].at # "gone"

\* A subscriber the hub keeps is never further behind than its channel and the
\* event in its handler's hand (hub.go:38).
NeverFarBehind ==
  \A p \in Project : \A i \in subs[p] :
    handler[i].at \in {"header", "select", "sending"} =>
      published[p] - handler[i].got <= BufferSize + (IF handler[i].hand = None THEN 0 ELSE 1)

\* The feed each subscriber sees.
FeedSeen ==
  [i \in 0..MaxStreams - 1 |->
     IF i \notin Ids THEN None
     ELSE [project |-> handler[i].project, got |-> handler[i].got,
           live |-> handler[i].at \notin {"leaving", "gone"}]]

Promise == INSTANCE Feed WITH Stream <- 0..MaxStreams - 1, feed <- FeedSeen

\* Channels, drops and cancellations implement the feed: the events of the
\* project in order, none left out, until the stream ends, and no event waits
\* for ever (hub.go:52-54, events_handler.go:104-107).
ImplementsFeed == Promise!FairSpec
=============================================================================
