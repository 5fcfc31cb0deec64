-------------------------------- MODULE Feed --------------------------------
(***************************************************************************)
(* What the change feed promises a subscriber, with no channels and no     *)
(* buffers in it: from the moment it subscribes it gets the events of its  *)
(* project one after the other, none twice and none left out, until its    *)
(* feed ends.  A feed may end at any time.  An event it has not got yet    *)
(* comes, or the feed ends.                                                *)
(*                                                                         *)
(* The events of a project are numbered as they are published.  Hub.tla    *)
(* implements this.                                                        *)
(***************************************************************************)
EXTENDS Naturals

CONSTANTS Project, Stream, None

VARIABLES
  published, \* how many events of each project there have been
  feed       \* the feed of each subscriber, or None

vars == <<published, feed>>

-----------------------------------------------------------------------------
Init ==
  /\ published = [p \in Project |-> 0]
  /\ feed = [i \in Stream |-> None]

Publish(p) ==
  /\ published' = [published EXCEPT ![p] = @ + 1]
  /\ UNCHANGED feed

Begin(i, p) ==
  /\ feed[i] = None
  /\ feed' = [feed EXCEPT ![i] = [project |-> p, got |-> published[p], live |-> TRUE]]
  /\ UNCHANGED published

Waiting(i) ==
  /\ feed[i] # None
  /\ feed[i].live
  /\ feed[i].got < published[feed[i].project]

\* The next event, and no other.
Deliver(i) ==
  /\ Waiting(i)
  /\ feed' = [feed EXCEPT ![i].got = @ + 1]
  /\ UNCHANGED published

End(i) ==
  /\ feed[i] # None
  /\ feed[i].live
  /\ feed' = [feed EXCEPT ![i].live = FALSE]
  /\ UNCHANGED published

Next ==
  \/ \E p \in Project : Publish(p)
  \/ \E i \in Stream : (\E p \in Project : Begin(i, p)) \/ Deliver(i) \/ End(i)

Spec == Init /\ [][Next]_vars

FairSpec == Spec /\ \A i \in Stream : WF_vars(Deliver(i) \/ (Waiting(i) /\ End(i)))
=============================================================================
