------------------------------- MODULE Outbox -------------------------------
(***************************************************************************)
(* What the send queue of a room promises its user: messages wait in the   *)
(* order they were sent in, reach the server in that order and once, and   *)
(* leave the queue only when they were delivered, when the one whose turn  *)
(* it is was given up, or when the whole queue is thrown away because the  *)
(* server reset the timeline.                                              *)
(***************************************************************************)
EXTENDS Naturals, Sequences

CONSTANT Msgs

VARIABLES
  waiting,    \* messages that wait
  before,     \* their order: the pairs of which the first was sent earlier
  delivered   \* messages the server has, in the order it got them

Delivered == {delivered[i] : i \in DOMAIN delivered}

Init == waiting = {} /\ before = {} /\ delivered = <<>>

\* The messages of W go on waiting, in the order they waited in.
Keep(W) == waiting' = W /\ before' = before \cap (W \X W)

Submit(m) ==
  /\ m \notin waiting \cup Delivered
  /\ waiting' = waiting \cup {m}
  /\ before' = before \cup (waiting \X {m})
  /\ UNCHANGED delivered

\* In turn: all that waits before m is delivered already.  A message that no
\* longer waits (given up or thrown away on the way) may still arrive.
Deliver(m) ==
  /\ m \notin Delivered
  /\ \A p \in waiting : <<p, m>> \in before => p \in Delivered
  /\ delivered' = Append(delivered, m)
  /\ UNCHANGED <<waiting, before>>

Confirm(S) ==
  /\ S \subseteq Delivered
  /\ Keep(waiting \ S)
  /\ UNCHANGED delivered

GiveUp(m) ==
  /\ m \in waiting /\ \A p \in waiting : <<p, m>> \notin before
  /\ Keep(waiting \ {m})
  /\ UNCHANGED delivered

Reset ==
  /\ Keep({})
  /\ UNCHANGED delivered

Next ==
  \/ \E m \in Msgs : Submit(m) \/ Deliver(m) \/ GiveUp(m)
  \/ \E S \in SUBSET Msgs : Confirm(S)
  \/ Reset

Spec == Init /\ [][Next]_<<waiting, before, delivered>>
=============================================================================
