----------------------------- MODULE HubProofs -----------------------------
(***************************************************************************)
(* Proofs about Hub: for any number of projects, streams and events and    *)
(* any buffer size, no channel is closed twice or sent to when closed, no  *)
(* handler that is gone is left in the hub, what a handler has taken and   *)
(* what waits for it are its project's events in line, and every step is   *)
(* one of Feed or none that a subscriber sees.                             *)
(***************************************************************************)
EXTENDS Hub, TLAPS

\* The hub has exactly the open channels.
OpenInHub ==
  \A i \in Ids : i \in subs[handler[i].project] <=> ~chan[i].closed

\* A handler that is gone has closed its channel.
GoneIsClosed ==
  \A i \in Ids : handler[i].at = "gone" => chan[i].closed

\* A handler that sends has an event to send.
SendingHolds ==
  \A i \in Ids : handler[i].at = "sending" => handler[i].hand \in Nat

\* A subscriber is in the hub under its project only.
UnderItsProject ==
  \A p \in Project : \A i \in subs[p] : handler[i].project = p

IInv ==
  /\ TypeOK
  /\ OpenInHub
  /\ GoneIsClosed
  /\ SendingHolds
  /\ UnderItsProject
  /\ NeverPanics

-----------------------------------------------------------------------------
LEMMA InitIInv == Init => IInv
<1> SUFFICES ASSUME Init PROVE IInv
  OBVIOUS
<1>1. Ids = {}
  BY DEF Init, Ids
<1>2. TypeOK
  BY <1>1 DEF Init, TypeOK
<1> QED  BY <1>1, <1>2 DEF Init, IInv, OpenInHub, GoneIsClosed, SendingHolds, UnderItsProject, NeverPanics

\* Steps of a handler that touch neither the hub nor whether its channel is
\* closed.
LEMMA HandlerKeepsIInv ==
  ASSUME IInv, NEW i \in Ids,
         UNCHANGED <<next, subs, published, panicked>>,
         handler' \in [Ids -> Handler], chan' \in [Ids -> Channel],
         \A j \in Ids : /\ chan'[j].closed = chan[j].closed
                        /\ handler'[j].project = handler[j].project
                        /\ handler'[j].at = "gone" => handler[j].at = "gone"
                        /\ handler'[j].at = "sending" => handler'[j].hand \in Nat
  PROVE  IInv'
<1>1. Ids' = Ids
  BY DEF Ids
<1>2. TypeOK'
  BY <1>1 DEF IInv, TypeOK
<1>3. OpenInHub' /\ GoneIsClosed' /\ SendingHolds'
  BY <1>1 DEF IInv, OpenInHub, GoneIsClosed, SendingHolds
<1>4. UnderItsProject'
  BY DEF IInv, UnderItsProject, TypeOK
<1> QED  BY <1>2, <1>3, <1>4 DEF IInv, NeverPanics

LEMMA SubscribeKeepsIInv ==
  ASSUME IInv, NEW p \in Project, Subscribe(p)
  PROVE  IInv'
<1> DEFINE new == next
<1>1. /\ new \in Nat /\ new \notin Ids
      /\ Ids' = Ids \cup {new} /\ 0..next = Ids \cup {new}
  BY DEF IInv, TypeOK, Ids, Subscribe
<1> DEFINE fresh == [queue |-> <<>>, closed |-> FALSE]
           begun == [project |-> p, at |-> "header", hand |-> None, got |-> published[p]]
<1>2. fresh \in Channel /\ begun \in Handler
  BY DEF IInv, TypeOK, Channel, Handler, Place
<1>3. /\ chan' = [i \in Ids \cup {new} |-> IF i = new THEN fresh ELSE chan[i]]
      /\ handler' = [i \in Ids \cup {new} |-> IF i = new THEN begun ELSE handler[i]]
      /\ subs' = [subs EXCEPT ![p] = @ \cup {new}]
      /\ next' = next + 1 /\ UNCHANGED <<published, panicked>>
  BY <1>1 DEF Subscribe
<1>4. /\ chan' \in [Ids' -> Channel] /\ handler' \in [Ids' -> Handler]
      /\ subs' \in [Project -> SUBSET Ids']
      /\ next' \in Nat
  <2>1. chan \in [Ids -> Channel] /\ handler \in [Ids -> Handler]
        /\ subs \in [Project -> SUBSET Ids] /\ next \in Nat
    BY DEF IInv, TypeOK
  <2> HIDE DEF fresh, begun, new
  <2>2. chan' \in [Ids' -> Channel]
    BY <1>1, <1>2, <1>3, <2>1
  <2>3. handler' \in [Ids' -> Handler]
    BY <1>1, <1>2, <1>3, <2>1
  <2>4. subs' \in [Project -> SUBSET Ids']
    BY <1>1, <1>3, <2>1
  <2>5. next' \in Nat
    BY <1>3, <2>1
  <2> QED  BY <2>2, <2>3, <2>4, <2>5
<1>5. TypeOK'
  BY <1>3, <1>4 DEF IInv, TypeOK
<1>6. /\ handler'[new].project = p /\ handler'[new].at = "header"
      /\ chan'[new].closed = FALSE
      /\ \A i \in Ids : handler'[i] = handler[i] /\ chan'[i] = chan[i]
  BY <1>1, <1>3
<1>7. /\ subs \in [Project -> SUBSET Ids]
      /\ \A i \in Ids : handler[i].project \in Project
  BY DEF IInv, TypeOK, Handler
<1> HIDE DEF new
<1>8. subs'[p] = subs[p] \cup {new} /\ \A q \in Project \ {p} : subs'[q] = subs[q]
  BY <1>3, <1>7
<1>9. OpenInHub'
  <2>1. ASSUME NEW i \in Ids
        PROVE  (i \in subs[handler[i].project] <=> ~chan[i].closed)'
    <3>1. i # new
      BY <1>1
    <3>2. i \in subs'[handler[i].project] <=> i \in subs[handler[i].project]
      BY <1>7, <1>8, <3>1
    <3> QED  BY <1>6, <3>2 DEF IInv, OpenInHub
  <2>2. new \in subs'[handler'[new].project] /\ ~chan'[new].closed
    BY <1>6, <1>8
  <2> QED  BY <1>1, <2>1, <2>2 DEF OpenInHub
<1>10. GoneIsClosed' /\ SendingHolds'
  BY <1>1, <1>6 DEF IInv, GoneIsClosed, SendingHolds
<1>11. UnderItsProject'
  <2>1. ASSUME NEW q \in Project, NEW i \in subs'[q] PROVE handler'[i].project = q
    <3>1. CASE i = new
      BY <1>1, <1>6, <1>7, <1>8, <3>1
    <3>2. CASE i # new
      BY <1>6, <1>7, <1>8, <3>2 DEF IInv, UnderItsProject
    <3> QED  BY <3>1, <3>2
  <2> QED  BY <2>1 DEF UnderItsProject
<1> QED  BY <1>3, <1>5, <1>9, <1>10, <1>11 DEF IInv, NeverPanics

LEMMA PublishKeepsIInv ==
  ASSUME IInv, NEW p \in Project, Publish(p)
  PROVE  IInv'
<1> DEFINE stuck == {i \in subs[p] : Full(i)}
<1>1. /\ published' = [published EXCEPT ![p] = @ + 1]
      /\ subs' = [subs EXCEPT ![p] = @ \ stuck]
      /\ chan' = [i \in Ids |->
                    IF i \in stuck THEN [chan[i] EXCEPT !.closed = TRUE]
                    ELSE IF i \in subs[p]
                    THEN [chan[i] EXCEPT !.queue = Append(@, published[p] + 1)]
                    ELSE chan[i]]
      /\ panicked' = (panicked \/ \E i \in subs[p] : chan[i].closed)
      /\ UNCHANGED <<next, handler>>
  BY DEF Publish
<1>2. /\ subs \in [Project -> SUBSET Ids] /\ chan \in [Ids -> Channel]
      /\ handler \in [Ids -> Handler] /\ published \in [Project -> Nat]
      /\ stuck \subseteq subs[p] /\ subs[p] \subseteq Ids
      /\ \A i \in Ids : handler[i].project \in Project
  BY DEF IInv, TypeOK, Handler
<1>3. Ids' = Ids
  BY <1>1 DEF Ids
<1> HIDE DEF stuck
<1>4. TypeOK'
  <2>1. subs' \in [Project -> SUBSET Ids]
    BY <1>1, <1>2
  <2>2. published' \in [Project -> Nat]
    BY <1>1, <1>2
  <2>3. chan' \in [Ids -> Channel]
    <3>1. published[p] + 1 \in Nat
      BY <1>2
    <3>2. ASSUME NEW i \in Ids
          PROVE  /\ [chan[i] EXCEPT !.closed = TRUE] \in Channel
                 /\ [chan[i] EXCEPT !.queue = Append(@, published[p] + 1)] \in Channel
                 /\ chan[i] \in Channel
      <4> DEFINE e == published[p] + 1
                 ch == chan[i]
      <4>1. e \in Nat /\ ch \in Channel
        BY <1>2, <3>1
      <4> HIDE DEF e, ch
      <4>2. ch.queue \in Seq(Nat) /\ Append(ch.queue, e) \in Seq(Nat)
        BY <4>1 DEF Channel
      <4>3. [ch EXCEPT !.queue = Append(@, e)] \in Channel
        BY <4>1, <4>2 DEF Channel
      <4>4. [ch EXCEPT !.closed = TRUE] \in Channel
        BY <4>1 DEF Channel
      <4> QED  BY <4>1, <4>3, <4>4 DEF e, ch
    <3> QED  BY <1>1, <3>2
  <2>4. panicked' \in BOOLEAN
    BY <1>1 DEF IInv, TypeOK
  <2> QED  BY <1>1, <1>3, <2>1, <2>2, <2>3, <2>4 DEF IInv, TypeOK
<1>5. ASSUME NEW i \in Ids
      PROVE  chan'[i].closed <=> chan[i].closed \/ i \in stuck
  <2>1. chan[i] \in Channel
    BY <1>2
  <2> QED  BY <1>1, <2>1 DEF Channel
<1>6. /\ subs'[p] = subs[p] \ stuck
      /\ \A q \in Project \ {p} : subs'[q] = subs[q]
  BY <1>1, <1>2
<1>7. OpenInHub'
  <2>1. ASSUME NEW i \in Ids
        PROVE  i \in subs'[handler[i].project] <=> ~chan'[i].closed
    <3>1. CASE handler[i].project = p
      BY <1>5, <1>6, <3>1 DEF IInv, OpenInHub
    <3>2. CASE handler[i].project # p
      <4>1. i \notin stuck
        BY <1>2, <3>2 DEF IInv, UnderItsProject
      <4> QED  BY <1>2, <1>5, <1>6, <3>2, <4>1 DEF IInv, OpenInHub
    <3> QED  BY <3>1, <3>2
  <2> QED  BY <1>1, <1>3, <2>1 DEF OpenInHub
<1>8. GoneIsClosed' /\ SendingHolds'
  BY <1>1, <1>3, <1>5 DEF IInv, GoneIsClosed, SendingHolds
<1>9. UnderItsProject'
  BY <1>1, <1>6 DEF IInv, UnderItsProject
<1>10. NeverPanics'
  <2>1. ASSUME NEW i \in subs[p] PROVE ~chan[i].closed
    <3>1. i \in Ids /\ handler[i].project = p
      BY <1>2 DEF IInv, UnderItsProject
    <3> QED  BY <3>1 DEF IInv, OpenInHub
  <2> QED  BY <1>1, <2>1 DEF IInv, NeverPanics
<1> QED  BY <1>4, <1>7, <1>8, <1>9, <1>10 DEF IInv

LEMMA CancelKeepsIInv ==
  ASSUME IInv, NEW i \in Ids, Cancel(i)
  PROVE  IInv'
<1> DEFINE p == handler[i].project
<1>1. /\ handler' = [handler EXCEPT ![i].at = "gone"]
      /\ subs' = [subs EXCEPT ![p] = @ \ {i}]
      /\ chan' = [chan EXCEPT ![i].closed = @ \/ i \in subs[p]]
      /\ panicked' = (panicked \/ (i \in subs[p] /\ chan[i].closed))
      /\ UNCHANGED <<next, published>>
  BY DEF Cancel
<1>2. /\ subs \in [Project -> SUBSET Ids] /\ chan \in [Ids -> Channel]
      /\ handler \in [Ids -> Handler]
      /\ \A j \in Ids : handler[j].project \in Project
  BY DEF IInv, TypeOK, Handler
<1>3. Ids' = Ids
  BY <1>1 DEF Ids
<1>4. /\ handler' \in [Ids -> Handler]
      /\ \A j \in Ids : handler'[j].project = handler[j].project
      /\ handler'[i].at = "gone"
      /\ \A j \in Ids \ {i} : handler'[j] = handler[j]
  BY <1>1, <1>2 DEF Handler, Place
<1>5. /\ chan' \in [Ids -> Channel]
      /\ chan'[i].closed = (chan[i].closed \/ i \in subs[p])
      /\ \A j \in Ids \ {i} : chan'[j] = chan[j]
  BY <1>1, <1>2 DEF Channel
<1> HIDE DEF p
<1>6. p \in Project /\ p = handler[i].project
  BY <1>2 DEF p
<1>7. /\ subs'[p] = subs[p] \ {i}
      /\ \A q \in Project \ {p} : subs'[q] = subs[q]
      /\ subs' \in [Project -> SUBSET Ids]
  BY <1>1, <1>2, <1>6
<1>8. i \in subs[p] <=> ~chan[i].closed
  BY <1>6 DEF IInv, OpenInHub
<1>9. TypeOK'
  <2>1. panicked' \in BOOLEAN
    BY <1>1 DEF IInv, TypeOK
  <2> QED  BY <1>1, <1>3, <1>4, <1>5, <1>7, <2>1 DEF IInv, TypeOK
<1>10. chan'[i].closed
  BY <1>5, <1>8
<1>11. OpenInHub'
  <2>1. ASSUME NEW j \in Ids
        PROVE  j \in subs'[handler'[j].project] <=> ~chan'[j].closed
    <3>1. CASE j = i
      BY <1>4, <1>6, <1>7, <1>10, <3>1
    <3>2. CASE j # i
      BY <1>2, <1>4, <1>5, <1>7, <3>2 DEF IInv, OpenInHub
    <3> QED  BY <3>1, <3>2
  <2> QED  BY <1>3, <2>1 DEF OpenInHub
<1>12. GoneIsClosed' /\ SendingHolds'
  <2>1. ASSUME NEW j \in Ids, handler'[j].at = "gone" PROVE chan'[j].closed
    BY <1>4, <1>5, <1>10, <2>1 DEF IInv, GoneIsClosed
  <2>2. ASSUME NEW j \in Ids, handler'[j].at = "sending" PROVE handler'[j].hand \in Nat
    BY <1>4, <2>2 DEF IInv, SendingHolds
  <2> QED  BY <1>3, <2>1, <2>2 DEF GoneIsClosed, SendingHolds
<1>13. UnderItsProject'
  <2>1. ASSUME NEW q \in Project, NEW j \in subs'[q] PROVE handler'[j].project = q
    BY <1>2, <1>4, <1>7 DEF IInv, UnderItsProject
  <2> QED  BY <2>1 DEF UnderItsProject
<1>14. NeverPanics'
  BY <1>1, <1>8 DEF IInv, NeverPanics
<1> QED  BY <1>9, <1>11, <1>12, <1>13, <1>14 DEF IInv

\* How each step of a handler changes its own entry, and no other.
LEMMA StepKeepsIInv ==
  ASSUME IInv, NEW i \in Ids, Step(i)
  PROVE  IInv'
<1>1. /\ chan \in [Ids -> Channel] /\ handler \in [Ids -> Handler]
      /\ \A j \in Ids : handler[j].at = "sending" => handler[j].hand \in Nat
  BY DEF IInv, TypeOK, SendingHolds
<1> DEFINE Quiet == \A j \in Ids :
                      /\ handler'[j].project = handler[j].project
                      /\ handler'[j].at = "gone" => handler[j].at = "gone"
                      /\ handler'[j].at = "sending" => handler'[j].hand \in Nat
<1>2. CASE Hello(i)
  <2>1. handler' \in [Ids -> Handler] /\ Quiet
    BY <1>1, <1>2 DEF Hello, Handler, Place
  <2> QED  BY <1>1, <1>2, <2>1, HandlerKeepsIInv DEF Hello
<1>3. CASE Take(i)
  <2>1. chan[i].queue \in Seq(Nat) /\ chan[i].queue # <<>>
    BY <1>1, <1>3 DEF Take, Channel
  <2>2. Head(chan[i].queue) \in Nat /\ Tail(chan[i].queue) \in Seq(Nat)
    BY <2>1
  <2>3. handler' \in [Ids -> Handler] /\ Quiet
    BY <1>1, <1>3, <2>2 DEF Take, Handler, Place
  <2>4. chan' \in [Ids -> Channel] /\ \A j \in Ids : chan'[j].closed = chan[j].closed
    BY <1>1, <1>3, <2>2 DEF Take, Channel
  <2> QED  BY <1>3, <2>3, <2>4, HandlerKeepsIInv DEF Take
<1>4. CASE SendEvent(i)
  <2>1. handler[i].hand \in Nat
    BY <1>1, <1>4 DEF SendEvent
  <2>2. handler' \in [Ids -> Handler] /\ Quiet
    BY <1>1, <1>4, <2>1 DEF SendEvent, Handler, Place
  <2> QED  BY <1>1, <1>4, <2>2, HandlerKeepsIInv DEF SendEvent
<1>5. CASE SeeClosed(i)
  <2>1. handler' \in [Ids -> Handler] /\ Quiet
    BY <1>1, <1>5 DEF SeeClosed, Handler, Place
  <2> QED  BY <1>1, <1>5, <2>1, HandlerKeepsIInv DEF SeeClosed
<1>6. CASE Leave(i)
  <2>1. handler' \in [Ids -> Handler] /\ Quiet
    BY <1>1, <1>6 DEF Leave, Handler, Place
  <2> QED  BY <1>1, <1>6, <2>1, HandlerKeepsIInv DEF Leave
<1>7. CASE Cancel(i)
  BY <1>7, CancelKeepsIInv
<1> QED  BY <1>2, <1>3, <1>4, <1>5, <1>6, <1>7 DEF Step

LEMMA NextKeepsIInv ==
  ASSUME IInv, [Next]_vars
  PROVE  IInv'
<1>1. CASE UNCHANGED vars
  <2>1. Ids' = Ids
    BY <1>1 DEF vars, Ids
  <2> QED  BY <1>1, <2>1 DEF vars, IInv, TypeOK, OpenInHub, GoneIsClosed, SendingHolds,
                             UnderItsProject, NeverPanics
<1>2. ASSUME NEW p \in Project, Subscribe(p) PROVE IInv'
  BY <1>2, SubscribeKeepsIInv
<1>3. ASSUME NEW p \in Project, Publish(p) PROVE IInv'
  BY <1>3, PublishKeepsIInv
<1>4. ASSUME NEW i \in Ids, Step(i) PROVE IInv'
  BY <1>4, StepKeepsIInv
<1> QED  BY <1>1, <1>2, <1>3, <1>4 DEF Next

-----------------------------------------------------------------------------
(* What is on its way to a subscriber *)

Listening(i) == handler[i].at \in {"header", "select", "sending"}

\* The last event that was taken from the channel of i.
Taken(i) == handler[i].got + (IF handler[i].at = "sending" THEN 1 ELSE 0)

\* What is in hand and in the channel is what comes next, one after the other,
\* and as long as the channel is open that is all there is.
Line(i) ==
  /\ handler[i].got \in Nat
  /\ handler[i].hand = (IF handler[i].at = "sending" THEN handler[i].got + 1 ELSE None)
  /\ \A k \in 1..Len(chan[i].queue) : chan[i].queue[k] = Taken(i) + k
  /\ Len(chan[i].queue) <= BufferSize
  /\ Taken(i) + Len(chan[i].queue) <= published[handler[i].project]
  /\ ~chan[i].closed => Taken(i) + Len(chan[i].queue) = published[handler[i].project]

InLine == \A i \in Ids : Listening(i) => Line(i)

FInv == IInv /\ InLine /\ next <= MaxStreams

\* What the types say of one subscriber.
LEMMA TypesOf ==
  ASSUME TypeOK, NEW i \in Ids
  PROVE  /\ chan[i] \in Channel /\ handler[i] \in Handler
         /\ chan[i].queue \in Seq(Nat) /\ chan[i].closed \in BOOLEAN
         /\ handler[i].project \in Project
         /\ published[handler[i].project] \in Nat
BY DEF TypeOK, Channel, Handler

LEMMA InitFInv == Init => FInv
<1> SUFFICES ASSUME Init PROVE FInv
  OBVIOUS
<1>1. Ids = {}
  BY DEF Init, Ids
<1>2. next <= MaxStreams
  BY HubAssumption DEF Init
<1> QED  BY <1>1, <1>2, InitIInv DEF FInv, InLine

\* A subscriber whose own state and project stay as they are.
LEMMA QuietLine ==
  ASSUME NEW i \in Ids, Listening(i) => Line(i),
         handler'[i] = handler[i], chan'[i] = chan[i],
         published'[handler[i].project] = published[handler[i].project]
  PROVE  (Listening(i) => Line(i))'
BY DEF Listening, Line, Taken

LEMMA SubscribeKeepsLine ==
  ASSUME IInv, InLine, NEW p \in Project, Subscribe(p)
  PROVE  InLine'
<1>1. Ids' = Ids \cup {next} /\ next \notin Ids /\ 0..next = Ids \cup {next}
  BY DEF IInv, TypeOK, Ids, Subscribe
<1>2. /\ chan'[next] = [queue |-> <<>>, closed |-> FALSE]
      /\ handler'[next] = [project |-> p, at |-> "header", hand |-> None, got |-> published[p]]
      /\ published' = published
      /\ \A i \in Ids : handler'[i] = handler[i] /\ chan'[i] = chan[i]
  BY <1>1 DEF Subscribe
<1>3. ASSUME NEW n \in {next} PROVE (Listening(n) => Line(n))'
  <2>1. published[p] \in Nat
    BY DEF IInv, TypeOK
  <2>2. /\ handler'[n].got = published[p] /\ handler'[n].at = "header"
        /\ handler'[n].hand = None /\ handler'[n].project = p
        /\ chan'[n].queue = <<>> /\ Len(chan'[n].queue) = 0
    BY <1>2
  <2>3. Taken(n)' = published[p]
    BY <2>1, <2>2 DEF Taken
  <2> QED  BY <1>2, <2>1, <2>2, <2>3, HubAssumption DEF Line
<1>4. ASSUME NEW i \in Ids PROVE (Listening(i) => Line(i))'
  BY <1>2, QuietLine DEF InLine
<1> QED  BY <1>1, <1>3, <1>4 DEF InLine

LEMMA PublishKeepsLine ==
  ASSUME IInv, InLine, NEW p \in Project, Publish(p)
  PROVE  InLine'
<1> DEFINE stuck == {i \in subs[p] : Full(i)}
           e == published[p] + 1
<1>1. Ids' = Ids /\ handler' = handler
  BY DEF Publish, Ids
<1>2. published[p] \in Nat /\ published'[p] = e /\ subs[p] \subseteq Ids
      /\ \A q \in Project \ {p} : published'[q] = published[q]
  BY DEF IInv, TypeOK, Publish
<1>3. ASSUME NEW i \in Ids, Listening(i)
      PROVE  Line(i)'
  <2>1. /\ chan[i] \in Channel /\ chan[i].queue \in Seq(Nat)
        /\ handler[i].project \in Project /\ Line(i)
        /\ handler[i].got \in Nat /\ Taken(i) \in Nat
    BY <1>3, TypesOf DEF IInv, InLine, Line, Taken
  <2>2. Taken(i)' = Taken(i)
    BY <1>1 DEF Taken
  <2>3. CASE i \in stuck
    <3>1. chan'[i] = [chan[i] EXCEPT !.closed = TRUE] /\ handler[i].project = p /\ ~chan[i].closed
      BY <2>1, <2>3 DEF Publish, IInv, OpenInHub, UnderItsProject
    <3>2. chan'[i].queue = chan[i].queue /\ chan'[i].closed
      BY <2>1, <3>1 DEF Channel
    <3>3. Taken(i) + Len(chan[i].queue) <= published'[p]
      BY <1>2, <2>1, <3>1 DEF Line
    <3> QED  BY <1>1, <2>1, <2>2, <3>1, <3>2, <3>3 DEF Line
  <2>4. CASE i \in subs[p] \ stuck
    <3>1. /\ chan'[i] = [chan[i] EXCEPT !.queue = Append(@, e)]
          /\ handler[i].project = p /\ ~chan[i].closed /\ Len(chan[i].queue) < BufferSize
      BY <2>1, <2>4, HubAssumption DEF Publish, IInv, OpenInHub, UnderItsProject, Full
    <3> DEFINE queue == chan[i].queue
    <3>2. chan'[i].queue = Append(queue, e) /\ ~chan'[i].closed
      BY <2>1, <3>1 DEF Channel
    <3>3. e = Taken(i) + Len(queue) + 1 /\ Len(queue) \in Nat
      BY <1>2, <2>1, <3>1 DEF Line
    <3>4. Len(Append(queue, e)) = Len(queue) + 1
      BY <2>1, <1>2
    <3>5. /\ queue \in Seq(Nat) /\ e \in Nat /\ Len(queue) < BufferSize
          /\ \A k \in 1..Len(queue) : queue[k] = Taken(i) + k
      BY <1>2, <2>1, <3>1 DEF Line
    <3> HIDE DEF queue, e
    <3>6. ASSUME NEW k \in 1..(Len(queue) + 1) PROVE Append(queue, e)[k] = Taken(i) + k
      <4>1. CASE k = Len(queue) + 1
        BY <2>1, <3>3, <3>5, <4>1
      <4>2. CASE k # Len(queue) + 1
        <5>1. k \in 1..Len(queue)
          BY <3>3, <4>2
        <5>2. Append(queue, e)[k] = queue[k]
          BY <3>5, <5>1
        <5> QED  BY <3>5, <5>1, <5>2
      <4> QED  BY <4>1, <4>2
    <3>7. \A k \in 1..Len(chan'[i].queue) : chan'[i].queue[k] = Taken(i) + k
      BY <3>2, <3>4, <3>6
    <3>8. Len(chan'[i].queue) <= BufferSize
      BY <3>2, <3>3, <3>4, <3>5, HubAssumption
    <3>9. Taken(i) + Len(chan'[i].queue) = e
      BY <2>1, <3>2, <3>3, <3>4
    <3> QED  BY <1>1, <1>2, <2>1, <2>2, <3>1, <3>5, <3>7, <3>8, <3>9 DEF Line
  <2>5. CASE i \notin subs[p]
    <3>1. chan'[i] = chan[i]
      BY <2>5 DEF Publish
    <3>2. CASE handler[i].project = p
      <4>1. chan[i].closed
        BY <2>5, <3>2 DEF IInv, OpenInHub
      <4>2. Taken(i) + Len(chan[i].queue) <= published'[p]
        BY <1>2, <2>1, <3>2 DEF Line
      <4> QED  BY <1>1, <2>1, <2>2, <3>1, <3>2, <4>1, <4>2 DEF Line
    <3>3. CASE handler[i].project # p
      BY <1>1, <1>2, <2>1, <2>2, <3>1, <3>3 DEF Line
    <3> QED  BY <3>2, <3>3
  <2> QED  BY <2>3, <2>4, <2>5
<1> QED  BY <1>1, <1>3 DEF InLine, Listening

\* A handler takes what comes next, and what it had in hand is what it writes.
LEMMA StepKeepsLine ==
  ASSUME IInv, InLine, NEW i \in Ids, Step(i)
  PROVE  InLine'
<1>1. Ids' = Ids /\ published' = published
  BY DEF Step, Hello, Take, SendEvent, SeeClosed, Leave, Cancel, Ids
<1>2. ASSUME NEW j \in Ids, j # i PROVE (Listening(j) => Line(j))'
  <2>1. chan \in [Ids -> Channel] /\ handler \in [Ids -> Handler]
    BY DEF IInv, TypeOK
  <2>2. handler'[j] = handler[j] /\ chan'[j] = chan[j]
    BY <1>2, <2>1 DEF Step, Hello, Take, SendEvent, SeeClosed, Leave, Cancel
  <2> QED  BY <1>1, <2>2, QuietLine DEF InLine
<1>3. (Listening(i) => Line(i))'
  <2>1. /\ chan \in [Ids -> Channel] /\ handler \in [Ids -> Handler]
        /\ chan[i] \in Channel /\ handler[i] \in Handler
        /\ chan[i].queue \in Seq(Nat) /\ chan[i].closed \in BOOLEAN
        /\ published[handler[i].project] \in Nat
        /\ Listening(i) => Line(i)
    BY TypesOf DEF IInv, TypeOK, InLine
  <2>2. CASE Hello(i)
    <3>1. /\ handler'[i] = [handler[i] EXCEPT !.at = "select"]
          /\ chan' = chan /\ handler[i].at = "header" /\ Listening(i)
      BY <2>1, <2>2 DEF Hello, Listening
    <3>2. /\ handler'[i].at = "select" /\ handler'[i].got = handler[i].got
          /\ handler'[i].hand = handler[i].hand /\ handler'[i].project = handler[i].project
      BY <2>1, <3>1 DEF Handler
    <3>3. Taken(i)' = Taken(i)
      BY <3>1, <3>2 DEF Taken
    <3> QED  BY <1>1, <2>1, <3>1, <3>2, <3>3 DEF Line
  <2>3. CASE Take(i)
    <3> DEFINE queue == chan[i].queue
    <3>1. /\ handler'[i] = [handler[i] EXCEPT !.at = "sending", !.hand = Head(queue)]
          /\ chan'[i] = [chan[i] EXCEPT !.queue = Tail(@)]
          /\ handler[i].at = "select" /\ Listening(i) /\ queue # <<>>
      BY <2>1, <2>3 DEF Take, Listening
    <3>2. /\ handler'[i].at = "sending" /\ handler'[i].got = handler[i].got
          /\ handler'[i].hand = Head(queue) /\ handler'[i].project = handler[i].project
          /\ chan'[i].queue = Tail(queue) /\ chan'[i].closed = chan[i].closed
      BY <2>1, <3>1 DEF Handler, Channel
    <3>3. /\ handler[i].got \in Nat /\ Taken(i) = handler[i].got
          /\ Taken(i)' = handler[i].got + 1
      BY <2>1, <3>1, <3>2 DEF Line, Taken
    <3>4. /\ Len(queue) \in Nat \ {0} /\ Len(Tail(queue)) = Len(queue) - 1
          /\ Head(queue) = queue[1]
          /\ \A k \in 1..(Len(queue) - 1) : Tail(queue)[k] = queue[k + 1]
      BY <2>1, <3>1
    <3>5. \A k \in 1..Len(queue) : queue[k] = handler[i].got + k
      BY <2>1, <3>1, <3>3 DEF Line
    <3>6. /\ Len(queue) <= BufferSize
          /\ handler[i].got + Len(queue) <= published[handler[i].project]
          /\ ~chan[i].closed => handler[i].got + Len(queue) = published[handler[i].project]
      BY <2>1, <3>1, <3>3 DEF Line
    <3> HIDE DEF queue
    <3>7. Head(queue) = handler[i].got + 1
      BY <3>4, <3>5
    <3>8. ASSUME NEW k \in 1..(Len(queue) - 1)
          PROVE  Tail(queue)[k] = (handler[i].got + 1) + k
      <4>1. k \in Nat /\ k + 1 \in 1..Len(queue)
        BY <3>4
      <4>2. Tail(queue)[k] = queue[k + 1]
        BY <3>4
      <4>3. queue[k + 1] = handler[i].got + (k + 1)
        BY <3>5, <4>1
      <4> QED  BY <3>3, <4>1, <4>2, <4>3
    <3> QED  BY <1>1, <2>1, <3>2, <3>3, <3>4, <3>6, <3>7, <3>8, HubAssumption DEF Line
  <2>4. CASE SendEvent(i)
    <3>1. /\ handler'[i] = [handler[i] EXCEPT !.at = "select", !.hand = None,
                                              !.got = handler[i].hand]
          /\ chan' = chan /\ handler[i].at = "sending" /\ Listening(i)
      BY <2>1, <2>4 DEF SendEvent, Listening
    <3>2. handler[i].got \in Nat /\ handler[i].hand = handler[i].got + 1
      BY <2>1, <3>1 DEF Line
    <3>3. /\ handler'[i].at = "select" /\ handler'[i].got = handler[i].got + 1
          /\ handler'[i].hand = None /\ handler'[i].project = handler[i].project
      BY <2>1, <3>1, <3>2 DEF Handler
    <3>4. Taken(i)' = Taken(i)
      BY <3>1, <3>2, <3>3 DEF Taken
    <3> QED  BY <1>1, <2>1, <3>1, <3>2, <3>3, <3>4 DEF Line
  <2>5. CASE SeeClosed(i) \/ Leave(i) \/ Cancel(i)
    <3>1. handler'[i].at \in {"leaving", "gone"}
      BY <2>1, <2>5 DEF SeeClosed, Leave, Cancel, Handler
    <3> QED  BY <3>1 DEF Listening
  <2> QED  BY <2>2, <2>3, <2>4, <2>5 DEF Step
<1> QED  BY <1>1, <1>2, <1>3 DEF InLine

LEMMA NextKeepsFInv ==
  ASSUME FInv, [Next]_vars
  PROVE  FInv'
<1>1. IInv'
  BY NextKeepsIInv DEF FInv
<1>2. next' <= MaxStreams /\ InLine'
  <2>1. IInv /\ InLine /\ next \in Nat /\ next <= MaxStreams
    BY DEF FInv, IInv, TypeOK
  <2>2. CASE UNCHANGED vars
    <3>1. InLine'
      BY <2>1, <2>2 DEF vars, InLine, Listening, Line, Taken, Ids
    <3> QED  BY <2>1, <2>2, <3>1 DEF vars
  <2>3. ASSUME NEW p \in Project, Subscribe(p) PROVE next' <= MaxStreams /\ InLine'
    <3>1. next < MaxStreams /\ next' = next + 1
      BY <2>3 DEF Subscribe
    <3> QED  BY <2>1, <2>3, <3>1, SubscribeKeepsLine, HubAssumption
  <2>4. ASSUME NEW p \in Project, Publish(p) PROVE next' <= MaxStreams /\ InLine'
    BY <2>1, <2>4, PublishKeepsLine DEF Publish
  <2>5. ASSUME NEW i \in Ids, Step(i) PROVE next' <= MaxStreams /\ InLine'
    <3>1. next' = next
      BY <2>5 DEF Step, Hello, Take, SendEvent, SeeClosed, Leave, Cancel
    <3> QED  BY <2>1, <2>5, <3>1, StepKeepsLine
  <2> QED  BY <2>2, <2>3, <2>4, <2>5 DEF Next
<1> QED  BY <1>1, <1>2 DEF FInv

-----------------------------------------------------------------------------
(* What a subscriber sees is what Feed promises *)

Seen(i) == [project |-> handler[i].project, got |-> handler[i].got,
            live |-> handler[i].at \notin {"leaving", "gone"}]

LEMMA FeedSeenOf ==
  /\ FeedSeen = [i \in 0..MaxStreams - 1 |-> IF i \notin Ids THEN None ELSE Seen(i)]
  /\ FInv => \A i \in Ids : /\ i \in 0..MaxStreams - 1
                            /\ FeedSeen[i] = Seen(i)
                            /\ Listening(i) => Seen(i) # None /\ Seen(i).live
<1>1. FeedSeen = [i \in 0..MaxStreams - 1 |-> IF i \notin Ids THEN None ELSE Seen(i)]
  BY DEF FeedSeen, Seen
<1>2. ASSUME FInv, NEW i \in Ids PROVE i \in 0..MaxStreams - 1
  BY <1>2, HubAssumption DEF FInv, IInv, TypeOK, Ids
<1>3. ASSUME FInv, NEW i \in Ids, Listening(i) PROVE Seen(i) # None /\ Seen(i).live
  <2>1. Seen(i) \in [project : Project, got : Nat, live : BOOLEAN]
    BY <1>3, TypesOf DEF FInv, IInv, InLine, Line, Seen
  <2> QED  BY <1>3, <2>1, HubAssumption DEF Seen, Listening
<1> QED  BY <1>1, <1>2, <1>3

LEMMA InitImplements == Init => Promise!Init
<1> SUFFICES ASSUME Init PROVE Promise!Init
  OBVIOUS
<1>1. Ids = {}
  BY DEF Init, Ids
<1>2. FeedSeen = [i \in 0..MaxStreams - 1 |-> None]
  BY <1>1, FeedSeenOf
<1> QED  BY <1>2 DEF Init, Promise!Init

LEMMA SubscribeImplements ==
  ASSUME FInv, NEW p \in Project, Subscribe(p)
  PROVE  Promise!Next
<1>1. /\ next \in Nat /\ next < MaxStreams
      /\ Ids' = Ids \cup {next} /\ next \notin Ids /\ 0..next = Ids \cup {next}
  BY DEF FInv, IInv, TypeOK, Ids, Subscribe
<1>2. /\ handler'[next] = [project |-> p, at |-> "header", hand |-> None, got |-> published[p]]
      /\ published' = published
      /\ \A i \in Ids : handler'[i] = handler[i]
  BY <1>1 DEF Subscribe
<1> DEFINE begun == [project |-> p, got |-> published[p], live |-> TRUE]
<1>3. PICK n \in 0..MaxStreams - 1 : n = next
  BY <1>1, HubAssumption
<1>4. FeedSeen[n] = None
  BY <1>1, <1>3, FeedSeenOf
<1>5. Seen(n)' = begun /\ \A i \in Ids : Seen(i)' = Seen(i)
  <2>1. /\ handler'[n].project = p /\ handler'[n].got = published[p]
        /\ (handler'[n].at \notin {"leaving", "gone"}) = TRUE
    BY <1>2, <1>3
  <2>2. Seen(n)' = begun
    BY <2>1 DEF Seen
  <2>3. \A i \in Ids : Seen(i)' = Seen(i)
    BY <1>2 DEF Seen
  <2> QED  BY <2>2, <2>3
<1> HIDE DEF begun
<1>6. FeedSeen' = [i \in 0..MaxStreams - 1 |-> IF i \notin Ids' THEN None ELSE Seen(i)']
  BY DEF FeedSeen, Seen
<1>7. FeedSeen' = [FeedSeen EXCEPT ![n] = begun]
  BY <1>1, <1>3, <1>5, <1>6, FeedSeenOf
<1>8. Promise!Begin(n, p)
  BY <1>2, <1>4, <1>7 DEF Promise!Begin, begun
<1> QED  BY <1>3, <1>8 DEF Promise!Next

\* A step in which each subscriber sees the same.
LEMMA SameFeed ==
  ASSUME Ids' = Ids, \A i \in Ids : Seen(i)' = Seen(i)
  PROVE  FeedSeen' = FeedSeen
<1>1. FeedSeen' = [i \in 0..MaxStreams - 1 |-> IF i \notin Ids' THEN None ELSE Seen(i)']
  BY DEF FeedSeen, Seen
<1> QED  BY <1>1, FeedSeenOf

LEMMA StepImplements ==
  ASSUME FInv, NEW i \in Ids, Step(i)
  PROVE  Promise!Next \/ UNCHANGED Promise!vars
<1>1. /\ Ids' = Ids /\ published' = published
      /\ handler \in [Ids -> Handler] /\ handler[i] \in Handler
      /\ i \in 0..MaxStreams - 1 /\ FeedSeen[i] = Seen(i)
  BY TypesOf, FeedSeenOf DEF FInv, IInv, TypeOK, Step, Hello, Take, SendEvent, SeeClosed, Leave, Cancel, Ids
<1>2. \A j \in Ids \ {i} : Seen(j)' = Seen(j)
  BY <1>1 DEF Step, Hello, Take, SendEvent, SeeClosed, Leave, Cancel, Seen
<1>3. FeedSeen' = [j \in 0..MaxStreams - 1 |-> IF j \notin Ids THEN None ELSE Seen(j)']
  BY <1>1 DEF FeedSeen, Seen
<1>4. FeedSeen' = [FeedSeen EXCEPT ![i] = Seen(i)']
  BY <1>1, <1>2, <1>3, FeedSeenOf
<1>5. CASE Hello(i) \/ Take(i) \/ Cancel(i)
  <2>1. Seen(i)' = Seen(i)
    BY <1>1, <1>5 DEF Hello, Take, Cancel, Seen, Handler
  <2> QED  BY <1>1, <1>2, <2>1, SameFeed DEF Promise!vars
<1>6. CASE SendEvent(i)
  <2>1. handler[i].at = "sending" /\ Listening(i)
    BY <1>6 DEF SendEvent, Listening
  <2>2. Line(i) /\ Seen(i) # None /\ Seen(i).live
    BY <2>1, FeedSeenOf DEF FInv, InLine
  <2>3. /\ handler[i].got \in Nat /\ handler[i].hand = handler[i].got + 1
        /\ Taken(i) = handler[i].got + 1
        /\ chan[i].queue \in Seq(Nat) /\ published[handler[i].project] \in Nat
    BY <2>1, <2>2, TypesOf DEF FInv, IInv, Line, Taken
  <2>4. Taken(i) + Len(chan[i].queue) <= published[handler[i].project] /\ Len(chan[i].queue) \in Nat
    BY <2>2, <2>3 DEF Line
  <2>5. handler[i].got < published[handler[i].project]
    BY <2>3, <2>4
  <2>6. Promise!Waiting(i)
    BY <1>1, <2>2, <2>5 DEF Promise!Waiting, Seen
  <2>7. Seen(i)' = [Seen(i) EXCEPT !.got = @ + 1]
    BY <1>1, <1>6, <2>1, <2>3 DEF SendEvent, Seen, Handler
  <2>8. Promise!Deliver(i)
    BY <1>1, <1>4, <2>6, <2>7 DEF Promise!Deliver
  <2> QED  BY <1>1, <2>8 DEF Promise!Next
<1>7. CASE SeeClosed(i) \/ Leave(i)
  <2>1. Listening(i)
    BY <1>7 DEF SeeClosed, Leave, Listening
  <2>2. Seen(i) # None /\ Seen(i).live
    BY <2>1, FeedSeenOf
  <2>3. Seen(i)' = [Seen(i) EXCEPT !.live = FALSE]
    <3>1. /\ handler'[i].project = handler[i].project /\ handler'[i].got = handler[i].got
          /\ (handler'[i].at \notin {"leaving", "gone"}) = FALSE
      BY <1>1, <1>7 DEF SeeClosed, Leave, Handler
    <3> DEFINE before == handler[i].at \notin {"leaving", "gone"}
               after == FALSE
    <3>2. /\ Seen(i) = [project |-> handler[i].project, got |-> handler[i].got, live |-> before]
          /\ Seen(i)' = [project |-> handler[i].project, got |-> handler[i].got, live |-> after]
      BY <3>1 DEF Seen
    <3> HIDE DEF before, after
    <3>3. Seen(i)' = [Seen(i) EXCEPT !.live = after]
      BY <3>2
    <3> QED  BY <3>3 DEF after
  <2>4. Promise!End(i)
    BY <1>1, <1>4, <2>2, <2>3 DEF Promise!End
  <2> QED  BY <1>1, <2>4 DEF Promise!Next
<1> QED  BY <1>5, <1>6, <1>7 DEF Step

LEMMA NextImplements ==
  ASSUME FInv, [Next]_vars
  PROVE  Promise!Next \/ UNCHANGED Promise!vars
<1>1. CASE UNCHANGED vars
  <2>1. Ids' = Ids /\ \A i \in Ids : Seen(i)' = Seen(i)
    BY <1>1 DEF vars, Ids, Seen
  <2> QED  BY <1>1, <2>1, SameFeed DEF vars, Promise!vars
<1>2. ASSUME NEW p \in Project, Publish(p) PROVE Promise!Next
  <2>1. Ids' = Ids /\ \A i \in Ids : Seen(i)' = Seen(i)
    BY <1>2 DEF Publish, Ids, Seen
  <2>2. FeedSeen' = FeedSeen
    BY <2>1, SameFeed
  <2>3. Promise!Publish(p)
    BY <1>2, <2>2 DEF Publish, Promise!Publish
  <2> QED  BY <2>3 DEF Promise!Next
<1> QED  BY <1>1, <1>2, SubscribeImplements, StepImplements DEF Next

-----------------------------------------------------------------------------
(* Theorems *)

\* The invariant holds throughout.
THEOREM InvariantCorrect == Spec => []IInv
BY InitIInv, NextKeepsIInv, PTL DEF Spec

\* Subscribers, channels and handlers always have the types of the code.
THEOREM TypeCorrect == Spec => []TypeOK
<1>1. IInv => TypeOK  BY DEF IInv
<1> QED  BY <1>1, InvariantCorrect, PTL

\* The hub never closes a channel twice and never sends to a closed one
\* (hub.go:66-74, 83-99).
THEOREM NeverPanicsCorrect == Spec => []NeverPanics
<1>1. IInv => NeverPanics  BY DEF IInv
<1> QED  BY <1>1, InvariantCorrect, PTL

\* What is in the hub under a project is a subscriber of that project whose
\* handler is still running (hub.go:66-74).
THEOREM NothingLeaksCorrect == Spec => []NothingLeaks
<1>1. IInv => NothingLeaks
  <2> SUFFICES ASSUME IInv, NEW p \in Project, NEW i \in subs[p]
               PROVE  handler[i].project = p /\ handler[i].at # "gone"
    BY DEF NothingLeaks
  <2>1. i \in Ids /\ handler[i].project = p
    BY DEF IInv, TypeOK, UnderItsProject
  <2> QED  BY <2>1 DEF IInv, OpenInHub, GoneIsClosed
<1> QED  BY <1>1, InvariantCorrect, PTL

\* And what is on its way to each subscriber is in line.
THEOREM FeedInvariantCorrect == Spec => []FInv
BY InitFInv, NextKeepsFInv, PTL DEF Spec

\* A subscriber in the hub is behind by what its channel holds and what its
\* handler has in hand, for any number of subscribers and events (hub.go:38).
THEOREM NeverFarBehindCorrect == Spec => []NeverFarBehind
<1>1. FInv => NeverFarBehind
  <2> SUFFICES ASSUME FInv, NEW p \in Project, NEW i \in subs[p], Listening(i)
               PROVE  published[p] - handler[i].got
                        <= BufferSize + (IF handler[i].hand = None THEN 0 ELSE 1)
    BY DEF NeverFarBehind, Listening
  <2>1. i \in Ids /\ handler[i].project = p /\ ~chan[i].closed /\ Line(i)
    BY DEF FInv, IInv, TypeOK, UnderItsProject, OpenInHub, InLine
  <2>2. /\ chan[i].queue \in Seq(Nat) /\ published[p] \in Nat /\ handler[i].got \in Nat
    BY <2>1, TypesOf DEF FInv, IInv, Line
  <2>3. /\ Taken(i) + Len(chan[i].queue) = published[p] /\ Len(chan[i].queue) <= BufferSize
        /\ Len(chan[i].queue) \in Nat
    BY <2>1, <2>2 DEF Line
  <2>4. CASE handler[i].at = "sending"
    <3>1. handler[i].hand # None /\ Taken(i) = handler[i].got + 1
      BY <2>1, <2>2, <2>4, HubAssumption DEF Line, Taken
    <3> QED  BY <2>2, <2>3, <3>1, HubAssumption
  <2>5. CASE handler[i].at # "sending"
    <3>1. handler[i].hand = None /\ Taken(i) = handler[i].got
      BY <2>1, <2>2, <2>5 DEF Line, Taken
    <3> QED  BY <2>2, <2>3, <3>1, HubAssumption
  <2> QED  BY <2>4, <2>5
<1> QED  BY <1>1, FeedInvariantCorrect, PTL

\* Every step of the hub and its handlers is a step of Feed, or none that a
\* subscriber can see: it gets the events of its project in order, none twice and
\* none left out, until its stream ends (hub.go:52-54, events_handler.go:104-107).
THEOREM ImplementsFeedSafely == Spec => Promise!Spec
<1>1. Init => Promise!Init
  BY InitImplements
<1>2. FInv /\ [Next]_vars => [Promise!Next]_(Promise!vars)
  BY NextImplements
<1> QED  BY <1>1, <1>2, FeedInvariantCorrect, PTL DEF Spec, Promise!Spec
=============================================================================
