------------------------------ MODULE SendQueue ------------------------------
(***************************************************************************)
(* The send queue of one room: EventStore (src/src/timeline) drives it,    *)
(* Cache (src/src/Cache.cpp) keeps it on disk.                             *)
(*                                                                         *)
(* A message the user sends is stored as a local echo under its            *)
(* transaction id and put in the room's "pending" database under the       *)
(* current millisecond.  EventStore sends the oldest pending message, one  *)
(* at a time; the answer comes back as a queued signal.  The /sync loop    *)
(* delivers the message a second time, as an event that carries the        *)
(* transaction id.  A restart keeps the databases and forgets the rest.    *)
(*                                                                         *)
(* A message stands for its transaction id and for the event id the        *)
(* server gives it; the sets below say under which of the two it is known. *)
(***************************************************************************)
EXTENDS Naturals, Sequences, FiniteSets

CONSTANTS
  Msgs,              \* the messages the user may send, one transaction id each
  NoMsg,             \* no message: the empty current_txn, no relation
  MaxErrors,         \* failures tolerated before a message is given up (10)
  MaxClock,          \* bound: the last millisecond
  MaxRestarts,       \* bound: how often the program restarts
  SharedMillisecond, \* environment: two messages may be queued in one millisecond
  LostResponses,     \* environment: the server may accept a request and its answer be lost
  LimitedSyncs,      \* environment: /sync may answer with limited timelines
  Encrypted          \* the room is encrypted: replacing a relation needs a session

ASSUME ConstantsOK ==
  /\ NoMsg \notin Msgs
  /\ {MaxErrors, MaxClock, MaxRestarts} \subseteq Nat
  /\ {SharedMillisecond, LostResponses, LimitedSyncs, Encrypted} \subseteq BOOLEAN

VARIABLES
  \* on disk (Cache)
  pending,       \* messages in the pending database
  stamp,         \* the millisecond a message was queued at, its key in pending
  echoes,        \* messages in the order databases under their transaction id
  confirmed,     \* messages in the order databases under their event id
  relTo,         \* the message a message relates to (reply, edit, reaction)
  byTxn,         \* messages whose stored relation names a transaction id
  synced,        \* how much of the server's log this device has synced
  \* in memory (EventStore)
  current,       \* current_txn
  errors,        \* current_txn_error_count
  requests,      \* messages with an HTTP request of this run unanswered
  signals,       \* messageSent / messageFailed queued to the main thread
  timers,        \* 1000 ms retry timers that are running
  \* environment
  now,           \* the clock, in milliseconds
  net,           \* requests the server may still receive
  log,           \* the messages the server has accepted, in order
  restarts,      \* how often the program has been restarted
  \* history
  awake,         \* processPending has been emitted since the program started
  pendingReply   \* messages that related to a pending message when queued

disk   == <<pending, stamp, echoes, confirmed, relTo, byTxn, synced, pendingReply>>
memory == <<current, errors, requests, signals, timers, awake>>
env    == <<now, net, log, restarts>>
vars   == <<disk, memory, env>>

------------------------------------------------------------------------------

Signal   == [kind : {"sent", "failed"}, msg : Msgs]
Accepted == {log[i] : i \in DOMAIN log}

(* A definition marked "Variant" is the one after it with a mistake in it; *)
(* Next does not use it.  It shows which mistake a property would reveal.  *)

\* Variant: the newest message first.
IsFirstNewest(m, P) == m \in P /\ \A p \in P : stamp'[m] >= stamp'[p]

\* The pending database iterates in key order; firstPendingMessage is its head.
IsFirst(m, P) == m \in P /\ \A p \in P : stamp'[m] <= stamp'[p]

\* Variant: processPending is emitted before current_txn is cleared.
SendFirstTooEarly(P, open) ==
  IF P = {} \/ current # NoMsg
    THEN current' = NoMsg /\ requests' = open /\ net' = net
    ELSE \E m \in Msgs :
           /\ IsFirst(m, P)
           /\ current' = m
           /\ requests' = open \cup {m}
           /\ net' = net \cup {m}

(***************************************************************************)
(* EventStore's processPending slot, run when current_txn is empty: the    *)
(* first pending message becomes current_txn and its request leaves.  That *)
(* of a message whose txn id does not start with 'm' would not: its pending*)
(* row goes, and current_txn stays (lines 123-127).  None is queued with   *)
(* such an id, for Timeline::addPendingMessage puts the 'm' before each.   *)
(***************************************************************************)
SendFirst(P, open) ==
  IF P = {}
    THEN current' = NoMsg /\ requests' = open /\ net' = net
    ELSE \E m \in Msgs :
           /\ IsFirst(m, P)
           /\ current' = m
           /\ requests' = open \cup {m}
           /\ net' = net \cup {m}

(***************************************************************************)
(* EventStore::addPending.  The relation names the target by the id its    *)
(* row has in the timeline.  pending.put overwrites an entry with the same *)
(* key.  When a message is being sent, processPending returns at once.     *)
(***************************************************************************)
AddPending(m, target) ==
  /\ stamp[m] = MaxClock + 1
  /\ target \in echoes \cup confirmed \cup {NoMsg}
  /\ SharedMillisecond \/ \A p \in Msgs : stamp[p] # now
  /\ stamp' = [stamp EXCEPT ![m] = now]
  /\ pending' = {p \in pending : stamp[p] # now} \cup {m}
  /\ echoes' = echoes \cup {m}
  /\ relTo' = [relTo EXCEPT ![m] = target]
  /\ byTxn' = IF target \in echoes THEN byTxn \cup {m} ELSE byTxn
  /\ pendingReply' = IF target \in pending THEN pendingReply \cup {m} ELSE pendingReply
  /\ awake' = TRUE
  /\ IF current = NoMsg
       THEN SendFirst(pending', requests)
       ELSE UNCHANGED <<current, requests, net>>
  /\ UNCHANGED <<confirmed, synced, errors, signals, timers, now, log, restarts>>

(***************************************************************************)
(* The HTTP request.  The server accepts a transaction id once; an error   *)
(* may hide an accepted request, or one that is accepted later.            *)
(***************************************************************************)
ServerAccept(m) ==
  /\ m \in net
  /\ net' = net \ {m}
  /\ log' = IF m \in Accepted THEN log ELSE Append(log, m)
  /\ UNCHANGED <<disk, memory, now, restarts>>

RespondOk(m) ==
  /\ m \in requests
  /\ m \in Accepted
  /\ requests' = requests \ {m}
  /\ signals' = signals \cup {[kind |-> "sent", msg |-> m]}
  /\ UNCHANGED <<disk, env, current, errors, timers, awake>>

RespondError(m) ==
  /\ m \in requests
  /\ requests' = requests \ {m}
  /\ signals' = signals \cup {[kind |-> "failed", msg |-> m]}
  /\ IF LostResponses
       THEN net' = net
       ELSE m \notin Accepted /\ net' = net \ {m}
  /\ UNCHANGED <<disk, current, errors, timers, awake, now, log, restarts>>

\* The failure that is one too many for the message being sent
GiveUp(m) == m = current /\ errors + 1 > MaxErrors

(***************************************************************************)
(* EventStore's messageFailed slot.  The timer is started whatever         *)
(* current_txn is, and the count is not tied to a message.                 *)
(***************************************************************************)
MessageFailed(m) ==
  /\ [kind |-> "failed", msg |-> m] \in signals
  /\ signals' = signals \ {[kind |-> "failed", msg |-> m]}
  /\ errors' = IF GiveUp(m) THEN 0 ELSE IF m = current THEN errors + 1 ELSE errors
  /\ pending' = IF GiveUp(m) THEN pending \ {m} ELSE pending
  /\ timers' = timers + 1
  /\ UNCHANGED <<stamp, echoes, confirmed, relTo, byTxn, synced, pendingReply,
                 current, requests, awake, env>>

\* Variant: the timer is not single-shot.
RetryForever ==
  /\ timers > 0
  /\ UNCHANGED <<stamp, timers>>
  /\ SendFirst(pending, requests)
  /\ awake' = TRUE
  /\ UNCHANGED <<pending, echoes, confirmed, relTo, byTxn, synced, pendingReply,
                 errors, signals, now, log, restarts>>

RetryTimeout ==
  /\ timers > 0
  /\ timers' = timers - 1
  /\ UNCHANGED stamp
  /\ SendFirst(pending, requests)
  /\ awake' = TRUE
  /\ UNCHANGED <<pending, echoes, confirmed, relTo, byTxn, synced, pendingReply,
                 errors, signals, now, log, restarts>>

Referring(m) == {p \in pending : relTo[p] = m}

(***************************************************************************)
(* EventStore's messageSent slot: relations of the pending messages to m   *)
(* are rewritten to its event id (in an encrypted room only if the         *)
(* outbound session is still there), m leaves the queue, the next follows. *)
(***************************************************************************)
MessageSent(m) ==
  /\ [kind |-> "sent", msg |-> m] \in signals
  /\ signals' = signals \ {[kind |-> "sent", msg |-> m]}
  /\ \/ byTxn' = byTxn \ Referring(m)
     \/ Encrypted /\ byTxn' = byTxn
  /\ pending' = pending \ {m}
  /\ errors' = 0
  /\ UNCHANGED stamp
  /\ SendFirst(pending', requests)
  /\ awake' = TRUE
  /\ UNCHANGED <<echoes, confirmed, relTo, synced, pendingReply, timers, now, log, restarts>>

(***************************************************************************)
(* Cache::saveTimelineMessages for the next events of the log.  An event   *)
(* whose transaction id is in the order database replaces that row and     *)
(* leaves the queue; another one gets a row of its own.                    *)
(***************************************************************************)
SyncTimeline(n) ==
  LET events == {log[i] : i \in synced + 1 .. n}
  IN  /\ n \in synced + 1 .. Len(log)
      /\ synced' = n
      /\ confirmed' = confirmed \cup events
      /\ echoes' = echoes \ events
      /\ pending' = pending \ (events \cap echoes)
      /\ UNCHANGED <<stamp, relTo, byTxn, pendingReply, memory, env>>

(***************************************************************************)
(* The same with res.limited: the order databases and the pending database *)
(* are dropped first; events of the log may be missing from the answer.    *)
(***************************************************************************)
SyncLimited(first, n) ==
  /\ LimitedSyncs
  /\ first \in synced + 1 .. Len(log) + 1
  /\ n \in first - 1 .. Len(log)
  /\ synced' = n
  /\ confirmed' = {log[i] : i \in first .. n}
  /\ echoes' = {}
  /\ pending' = {}
  /\ UNCHANGED <<stamp, relTo, byTxn, pendingReply, memory, env>>

\* The program ends or crashes and is started again: EventStore's constructor
\* reads the timeline range and does not emit processPending.
Restart ==
  /\ restarts < MaxRestarts
  /\ restarts' = restarts + 1
  /\ current' = NoMsg
  /\ errors' = 0
  /\ requests' = {}
  /\ signals' = {}
  /\ timers' = 0
  /\ awake' = FALSE
  /\ UNCHANGED <<disk, now, net, log>>

Tick ==
  /\ now < MaxClock
  /\ now' = now + 1
  /\ UNCHANGED <<disk, memory, net, log, restarts>>

------------------------------------------------------------------------------

Init ==
  /\ pending = {}
  /\ stamp = [m \in Msgs |-> MaxClock + 1]
  /\ echoes = {}
  /\ confirmed = {}
  /\ relTo = [m \in Msgs |-> NoMsg]
  /\ byTxn = {}
  /\ synced = 0
  /\ current = NoMsg
  /\ errors = 0
  /\ requests = {}
  /\ signals = {}
  /\ timers = 0
  /\ now = 0
  /\ net = {}
  /\ log = <<>>
  /\ restarts = 0
  /\ awake = FALSE
  /\ pendingReply = {}

User   == \E m \in Msgs, target \in Msgs \cup {NoMsg} : AddPending(m, target)
Server == \E m \in Msgs : ServerAccept(m) \/ RespondOk(m) \/ RespondError(m)
Slots  == (\E m \in Msgs : MessageFailed(m) \/ MessageSent(m)) \/ RetryTimeout
Sync   == \/ \E n \in DOMAIN log : SyncTimeline(n)
          \/ \E first \in 1 .. Len(log) + 1, n \in 0 .. Len(log) : SyncLimited(first, n)

Next == User \/ Server \/ Slots \/ Sync \/ Restart \/ Tick

Spec == Init /\ [][Next]_vars

\* Every request is answered, if only by a timeout of the HTTP client; the Qt
\* event loop delivers queued signals and expired timers.
Fairness ==
  /\ \A m \in Msgs : WF_vars(RespondOk(m) \/ RespondError(m))
  /\ \A m \in Msgs : WF_vars(MessageFailed(m)) /\ WF_vars(MessageSent(m))
  /\ WF_vars(RetryTimeout)

FairSpec == Spec /\ Fairness

------------------------------------------------------------------------------
\* Properties

\* Every variable stays in its range.
TypeOK ==
  /\ pending \subseteq Msgs /\ echoes \subseteq Msgs /\ confirmed \subseteq Msgs
  /\ stamp \in [Msgs -> 0 .. MaxClock + 1]
  /\ relTo \in [Msgs -> Msgs \cup {NoMsg}]
  /\ byTxn \subseteq Msgs /\ pendingReply \subseteq Msgs
  /\ current \in Msgs \cup {NoMsg}
  /\ errors \in 0 .. MaxErrors
  /\ requests \subseteq Msgs /\ net \subseteq Msgs
  /\ signals \subseteq Signal
  /\ timers \in Nat
  /\ now \in 0 .. MaxClock
  /\ log \in Seq(Msgs)
  /\ synced \in 0 .. Len(log)
  /\ restarts \in 0 .. MaxRestarts
  /\ awake \in BOOLEAN

(***************************************************************************)
(* processPending's guard on current_txn keeps one message in flight: when *)
(* current_txn is set exactly one of its request, its answer or its retry  *)
(* timer is outstanding, and nothing is when it is not.  The retry timer,  *)
(* which clears current_txn whatever it holds, never cuts a request short. *)
(***************************************************************************)
OneInFlight ==
  IF current = NoMsg
    THEN requests = {} /\ signals = {} /\ timers = 0
    ELSE \/ requests = {current} /\ signals = {} /\ timers = 0
         \/ requests = {} /\ timers = 0 /\ \E k \in {"sent", "failed"} :
                             signals = {[kind |-> k, msg |-> current]}
         \/ requests = {} /\ signals = {} /\ timers = 1

\* The queue sleeps on pending messages only between a restart and the next
\* message: no order of answers, syncs and timers loses the wake-up.
NoLostWakeup == awake /\ pending # {} => current # NoMsg

\* No message reaches the server while one queued in an earlier millisecond
\* still waits for its turn.
NoOvertaking ==
  \A p \in pending, m \in Accepted :
    stamp[p] < stamp[m] => p \in Accepted

\* A pending message has its local echo in the timeline, and a message whose
\* event came by /sync has neither echo nor pending entry: it has one row and
\* is not sent again.
OneRowPerMessage ==
  /\ pending \subseteq echoes
  /\ echoes \cap confirmed = {}

(***************************************************************************)
(* EventStore.cpp:188-190, on messageSent: "Replace the event_id in        *)
(* pending edits/replies/redactions with the actual event_id of this       *)
(* event.  This allows one to edit and reply to events that are currently  *)
(* pending."  A reply to a pending message is never sent with the          *)
(* transaction id of a message the server has accepted.                    *)
(***************************************************************************)
PendingRepliesResolved ==
  \A m \in requests \cap byTxn \cap pendingReply : relTo[m] \notin Accepted

\* A pending message of a woken queue is sent, given up or dropped, unless
\* the program restarts: retries and answers never starve a later message.
QueueDrains ==
  \A m \in Msgs : (m \in pending /\ awake) ~> (m \notin pending \/ ~awake)

\* The order of the pending database, of which the key is the millisecond.
Before == {ab \in pending \X pending : stamp[ab[1]] < stamp[ab[2]]}

Abstract == INSTANCE Outbox WITH waiting <- pending, before <- Before, delivered <- log

(***************************************************************************)
(* The databases and slots of EventStore implement the outbox when no two  *)
(* messages are queued in one millisecond: syncs, answers, retries and     *)
(* restarts never reorder, resend or drop a message on their own.          *)
(***************************************************************************)
ImplementsOutbox == Abstract!Spec
==============================================================================
