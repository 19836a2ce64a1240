----------------------------- MODULE RoomProofs -----------------------------
(***************************************************************************)
(* Safety of the send queue of a room, and of the list of rooms: for any   *)
(* messages, clock, rooms, users and bounds, in every environment the      *)
(* constants of SendQueue and of Rooms allow.                              *)
(***************************************************************************)
EXTENDS SendQueue, Rooms, SequenceTheorems, TLAPS

------------------------------------------------------------------------------
\* The send queue

\* A message is known anywhere only after it was queued, at a millisecond
\* that has come.
Known  == pending \cup echoes \cup confirmed \cup net \cup Accepted
Queued == \A m \in Known : stamp[m] <= now

\* NoOvertaking is inductive once it also speaks of the requests on their way.
InTurn ==
  \A p \in pending, m \in Accepted \cup net :
    stamp[p] < stamp[m] => p \in Accepted

IInv ==
  /\ TypeOK
  /\ OneInFlight
  /\ NoLostWakeup
  /\ OneRowPerMessage
  /\ Queued
  /\ InTurn

------------------------------------------------------------------------------

\* Appending to the log adds one accepted message; a slice of it is accepted.
LEMMA LogAppend ==
  ASSUME log \in Seq(Msgs), NEW m \in Msgs, log' = Append(log, m)
  PROVE  /\ log' \in Seq(Msgs)
         /\ Len(log') = Len(log) + 1
         /\ Accepted' = Accepted \cup {m}
<1>1. /\ log' \in Seq(Msgs)
      /\ Len(log') = Len(log) + 1
      /\ \A i \in 1 .. Len(log) : log'[i] = log[i]
      /\ log'[Len(log) + 1] = m
  OBVIOUS
<1>2. DOMAIN log = 1 .. Len(log) /\ DOMAIN log' = 1 .. Len(log) + 1
  BY <1>1
<1>3. Accepted' \subseteq Accepted \cup {m}
  BY <1>1, <1>2 DEF Accepted
<1>4. Accepted \cup {m} \subseteq Accepted'
  BY <1>1, <1>2 DEF Accepted
<1>5. QED
  BY <1>1, <1>3, <1>4

\* What the server accepted are messages.
LEMMA AcceptedType ==
  ASSUME log \in Seq(Msgs)
  PROVE  Accepted \subseteq Msgs
BY DEF Accepted

\* So is every slice of its log.
LEMMA LogSlice ==
  ASSUME log \in Seq(Msgs), NEW lo \in Nat \ {0}, NEW hi \in 0 .. Len(log)
  PROVE  {log[i] : i \in lo .. hi} \subseteq Accepted
<1>1. lo .. hi \subseteq DOMAIN log
  OBVIOUS
<1>2. QED
  BY <1>1 DEF Accepted

\* What processPending does: it takes a first pending message, or rests.
LEMMA SendFirstStep ==
  ASSUME NEW P \in SUBSET Msgs, requests = {}, SendFirst(P, requests), NoMsg \notin Msgs
  PROVE  \/ /\ P = {} /\ current' = NoMsg /\ requests' = {} /\ net' = net
         \/ /\ current' \in P
            /\ \A p \in P : stamp'[current'] <= stamp'[p]
            /\ requests' = {current'}
            /\ net' = net \cup {current'}
            /\ current' # NoMsg
BY DEF SendFirst, IsFirst

------------------------------------------------------------------------------

\* Nothing is queued at the start.
LEMMA InitIInv == Init => IInv
<1> SUFFICES ASSUME Init PROVE IInv
  OBVIOUS
<1> USE ConstantsOK DEF ConstantsOK
<1>1. log \in Seq(Msgs) /\ Len(log) = 0 /\ Accepted = {}
  BY DEF Init, Accepted
<1>2. /\ MaxErrors \in Nat /\ MaxClock \in Nat /\ MaxRestarts \in Nat
      /\ awake \in BOOLEAN
  BY DEF Init
<1>3. /\ stamp \in [Msgs -> 0 .. MaxClock + 1]
      /\ relTo \in [Msgs -> Msgs \cup {NoMsg}]
  BY <1>2 DEF Init
<1>4. TypeOK
  BY <1>1, <1>2, <1>3 DEF Init, TypeOK
<1>5. QED
  BY <1>1, <1>4 DEF Init, IInv, OneInFlight, NoLostWakeup, OneRowPerMessage,
                    Queued, Known, InTurn

LEMMA AddPendingIInv ==
  ASSUME IInv, NEW m \in Msgs, NEW target \in Msgs \cup {NoMsg}, AddPending(m, target)
  PROVE  IInv'
<1> USE ConstantsOK DEF ConstantsOK
<1>0. TypeOK /\ OneInFlight /\ NoLostWakeup /\ OneRowPerMessage /\ Queued /\ InTurn
  BY DEF IInv
<1>1. /\ pending' \in SUBSET Msgs /\ m \in pending'
      /\ pending' \subseteq pending \cup {m}
      /\ stamp' \in [Msgs -> 0 .. MaxClock + 1] /\ stamp'[m] = now
      /\ \A x \in Msgs : x # m => stamp'[x] = stamp[x]
      /\ now \in Nat /\ MaxClock \in Nat /\ now <= MaxClock
      /\ now' = now /\ log' = log
  BY <1>0 DEF AddPending, TypeOK
<1>2. Accepted' = Accepted /\ Accepted \subseteq Msgs
  BY <1>0, <1>1, AcceptedType DEF Accepted, TypeOK
<1>3. m \notin Known
  BY <1>0, <1>1 DEF AddPending, Queued
<1>4. \/ current = NoMsg /\ requests = {} /\ SendFirst(pending', requests)
      \/ current # NoMsg /\ UNCHANGED <<current, requests, net>>
  BY <1>0 DEF AddPending, OneInFlight
<1>5. \/ /\ current = NoMsg /\ requests = {}
         /\ current' \in pending'
         /\ \A p \in pending' : stamp'[current'] <= stamp'[p]
         /\ requests' = {current'}
         /\ net' = net \cup {current'}
         /\ current' # NoMsg
      \/ current # NoMsg /\ UNCHANGED <<current, requests, net>>
  BY <1>1, <1>4, SendFirstStep
<1>6. TypeOK'
  BY <1>0, <1>1, <1>5 DEF AddPending, TypeOK, Signal
<1>7. OneInFlight'
  BY <1>0, <1>5 DEF AddPending, OneInFlight
<1>8. NoLostWakeup'
  BY <1>5 DEF NoLostWakeup
<1>9. OneRowPerMessage'
  BY <1>0, <1>1, <1>3 DEF AddPending, OneRowPerMessage, Known
<1>10. Known' \subseteq Known \cup {m}
  BY <1>1, <1>2, <1>5 DEF AddPending, Known
<1>11. Queued'
  <2>1. Known \subseteq Msgs
    BY <1>0, <1>2 DEF Known, TypeOK
  <2>2. QED
    BY <1>0, <1>1, <1>10, <2>1 DEF Queued
<1>12. InTurn'
  <2> SUFFICES ASSUME NEW p \in pending', NEW x \in Accepted' \cup net', stamp'[p] < stamp'[x]
               PROVE  p \in Accepted'
    BY DEF InTurn
  <2>1. x = current' \/ x \in Accepted \cup net
    BY <1>2, <1>5
  <2>2. CASE x \in Accepted \cup net
    <3>1. x \in Msgs /\ x # m /\ stamp'[x] = stamp[x] /\ stamp[x] <= now
      BY <2>2, <1>0, <1>1, <1>2, <1>3 DEF Known, Queued, TypeOK
    <3>2. p # m
      BY <3>1, <1>1, <1>0 DEF TypeOK
    <3>3. p \in pending /\ stamp'[p] = stamp[p]
      BY <3>2, <1>1
    <3>4. QED
      BY <2>2, <3>1, <3>3, <1>0, <1>2 DEF InTurn
  <2>3. CASE x \notin Accepted \cup net
    <3>1. x = current' /\ stamp'[x] <= stamp'[p]
      BY <2>1, <2>3, <1>5, <1>2
    <3>2. x \in Msgs /\ p \in Msgs
      BY <3>1, <1>1, <1>2, <1>5, <2>3
    <3>3. QED
      BY <3>1, <3>2, <1>1
  <2>4. QED
    BY <2>2, <2>3
<1>13. QED
  BY <1>6, <1>7, <1>8, <1>9, <1>11, <1>12 DEF IInv
\* The server's side of a request: OneInFlight has one request at most.
LEMMA ServerAcceptIInv ==
  ASSUME IInv, NEW m \in Msgs, ServerAccept(m)
  PROVE  IInv'
<1> USE ConstantsOK DEF ConstantsOK
<1>0. TypeOK /\ OneInFlight /\ NoLostWakeup /\ OneRowPerMessage /\ Queued /\ InTurn
  BY DEF IInv
<1>1. UNCHANGED <<disk, memory, now, restarts>> /\ m \in net /\ net' = net \ {m}
  BY DEF ServerAccept
<1>2. /\ log' \in Seq(Msgs) /\ Len(log') >= Len(log)
      /\ Accepted' = Accepted \cup {m}
  <2>1. CASE m \in Accepted
    BY <2>1, <1>0 DEF ServerAccept, TypeOK, Accepted
  <2>2. CASE m \notin Accepted
    <3>1. log' = Append(log, m) /\ log \in Seq(Msgs)
      BY <2>2, <1>0 DEF ServerAccept, TypeOK
    <3>2. QED
      BY <3>1, LogAppend
  <2>3. QED
    BY <2>1, <2>2
<1>3. TypeOK'
  <2>1. synced' \in 0 .. Len(log')
    BY <1>0, <1>1, <1>2 DEF TypeOK, disk
  <2>2. QED
    BY <2>1, <1>0, <1>1, <1>2 DEF TypeOK, disk, memory, Signal
<1>4. OneInFlight' /\ NoLostWakeup' /\ OneRowPerMessage'
  BY <1>0, <1>1 DEF OneInFlight, NoLostWakeup, OneRowPerMessage, disk, memory
<1>5. Queued'
  <2>1. Known' = Known
    BY <1>1, <1>2 DEF Known, disk
  <2>2. QED
    BY <2>1, <1>0, <1>1 DEF Queued, disk
<1>6. InTurn'
  BY <1>0, <1>1, <1>2 DEF InTurn, disk
<1>7. QED
  BY <1>3, <1>4, <1>5, <1>6 DEF IInv

LEMMA RespondIInv ==
  ASSUME IInv, NEW m \in Msgs, RespondOk(m) \/ RespondError(m)
  PROVE  IInv'
<1> USE ConstantsOK DEF ConstantsOK
<1>0. TypeOK /\ OneInFlight /\ NoLostWakeup /\ OneRowPerMessage /\ Queued /\ InTurn
  BY DEF IInv
<1>1. /\ UNCHANGED <<disk, current, errors, timers, awake, now, log, restarts>>
      /\ m \in requests /\ requests' = requests \ {m}
      /\ net' \subseteq net
  BY DEF RespondOk, RespondError, env
<1>2. PICK k \in {"sent", "failed"} : signals' = signals \cup {[kind |-> k, msg |-> m]}
  BY DEF RespondOk, RespondError
<1>3. /\ current # NoMsg /\ requests = {current} /\ m = current
      /\ signals = {} /\ timers = 0
  BY <1>0, <1>1 DEF OneInFlight
<1>4. Accepted' = Accepted
  BY <1>1 DEF Accepted
<1>5. TypeOK'
  BY <1>0, <1>1, <1>2 DEF TypeOK, disk, Signal
<1>6. OneInFlight'
  <2>1. /\ requests' = {} /\ timers' = 0 /\ current' = m /\ current' # NoMsg
        /\ signals' = {[kind |-> k, msg |-> m]}
    BY <1>1, <1>2, <1>3
  <2>2. QED
    BY <2>1 DEF OneInFlight
<1>7. NoLostWakeup' /\ OneRowPerMessage'
  BY <1>0, <1>1 DEF NoLostWakeup, OneRowPerMessage, disk
<1>8. Queued'
  <2>1. Known' \subseteq Known
    BY <1>1, <1>4 DEF Known, disk
  <2>2. QED
    BY <2>1, <1>0, <1>1 DEF Queued, disk
<1>9. InTurn'
  BY <1>0, <1>1, <1>4 DEF InTurn, disk
<1>10. QED
  BY <1>5, <1>6, <1>7, <1>8, <1>9 DEF IInv

\* An answer is outstanding: nothing else is, and it is for current_txn.
LEMMA AnswerOutstanding ==
  ASSUME OneInFlight, NEW k \in {"sent", "failed"}, NEW m,
         [kind |-> k, msg |-> m] \in signals
  PROVE  /\ current = m /\ current # NoMsg
         /\ signals = {[kind |-> k, msg |-> m]}
         /\ requests = {} /\ timers = 0
<1>1. signals # {}
  OBVIOUS
<1>2. /\ current # NoMsg /\ requests = {} /\ timers = 0
      /\ \E j \in {"sent", "failed"} : signals = {[kind |-> j, msg |-> current]}
  BY <1>1 DEF OneInFlight
<1>3. PICK j \in {"sent", "failed"} : signals = {[kind |-> j, msg |-> current]}
  BY <1>2
<1>4. [kind |-> k, msg |-> m] = [kind |-> j, msg |-> current]
  BY <1>3
<1>5. [kind |-> k, msg |-> m].msg = [kind |-> j, msg |-> current].msg
  BY <1>4
<1>6. m = current
  BY <1>5
<1>7. QED
  BY <1>2, <1>3, <1>4, <1>6

LEMMA MessageFailedIInv ==
  ASSUME IInv, NEW m \in Msgs, MessageFailed(m)
  PROVE  IInv'
<1> USE ConstantsOK DEF ConstantsOK
<1>0. TypeOK /\ OneInFlight /\ NoLostWakeup /\ OneRowPerMessage /\ Queued /\ InTurn
  BY DEF IInv
<1>1. /\ current = m /\ current # NoMsg /\ requests = {} /\ timers = 0
      /\ signals = {[kind |-> "failed", msg |-> m]}
  BY <1>0, AnswerOutstanding DEF MessageFailed
<1>2. /\ UNCHANGED <<stamp, echoes, confirmed, relTo, byTxn, synced, pendingReply,
                     current, requests, awake, now, net, log, restarts>>
      /\ pending' \subseteq pending
      /\ timers' = timers + 1
      /\ signals' = signals \ {[kind |-> "failed", msg |-> m]}
  BY DEF MessageFailed, env
<1>3. Accepted' = Accepted
  BY <1>2 DEF Accepted
<1>4. errors' \in 0 .. MaxErrors
  BY <1>0, <1>1 DEF MessageFailed, GiveUp, TypeOK
<1>5. TypeOK'
  BY <1>0, <1>2, <1>4 DEF TypeOK, Signal
<1>6. OneInFlight'
  BY <1>1, <1>2 DEF OneInFlight
<1>7. NoLostWakeup' /\ OneRowPerMessage'
  BY <1>0, <1>1, <1>2 DEF NoLostWakeup, OneRowPerMessage
<1>8. Queued' /\ InTurn'
  BY <1>0, <1>2, <1>3 DEF Queued, Known, InTurn
<1>9. QED
  BY <1>5, <1>6, <1>7, <1>8 DEF IInv

\* The two slots that send the next message.
LEMMA SendNextIInv ==
  ASSUME IInv, SendFirst(pending', requests), requests = {},
         pending' \subseteq pending,
         UNCHANGED <<stamp, echoes, confirmed, relTo, synced, pendingReply,
                     now, log, restarts>>,
         byTxn' \subseteq byTxn, errors' \in 0 .. MaxErrors,
         signals' = {}, timers' = 0, awake' = TRUE
  PROVE  IInv'
<1> USE ConstantsOK DEF ConstantsOK
<1>0. TypeOK /\ OneInFlight /\ NoLostWakeup /\ OneRowPerMessage /\ Queued /\ InTurn
  BY DEF IInv
<1>1. pending' \in SUBSET Msgs
  BY <1>0 DEF TypeOK
<1>2. \/ /\ pending' = {} /\ current' = NoMsg /\ requests' = {} /\ net' = net
      \/ /\ current' \in pending'
         /\ \A p \in pending' : stamp[current'] <= stamp[p]
         /\ requests' = {current'}
         /\ net' = net \cup {current'}
         /\ current' # NoMsg
  BY <1>1, SendFirstStep
<1>3. Accepted' = Accepted
  BY DEF Accepted
<1>4. TypeOK'
  BY <1>0, <1>1, <1>2 DEF TypeOK, Signal
<1>5. OneInFlight' /\ NoLostWakeup' /\ OneRowPerMessage'
  BY <1>0, <1>2 DEF OneInFlight, NoLostWakeup, OneRowPerMessage
<1>6. Queued'
  <2>1. Known' \subseteq Known
    BY <1>2, <1>3 DEF Known
  <2>2. QED
    BY <2>1, <1>0 DEF Queued
<1>7. InTurn'
  <2> SUFFICES ASSUME NEW p \in pending', NEW x \in Accepted' \cup net', stamp'[p] < stamp'[x]
               PROVE  p \in Accepted'
    BY DEF InTurn
  <2>1. stamp[p] \in Nat /\ stamp[p] < stamp[x]
    BY <1>0, <1>1 DEF TypeOK
  <2>2. x \in Accepted \cup net
    <3>1. CASE x = current' /\ current' \in pending'
      BY <3>1, <1>0, <1>1, <1>2, <2>1 DEF TypeOK
    <3>2. QED
      BY <3>1, <1>2, <1>3
  <2>3. QED
    BY <2>1, <2>2, <1>0, <1>3 DEF InTurn
<1>8. QED
  BY <1>4, <1>5, <1>6, <1>7 DEF IInv

LEMMA RetryTimeoutIInv ==
  ASSUME IInv, RetryTimeout
  PROVE  IInv'
<1>1. TypeOK /\ OneInFlight
  BY DEF IInv
<1>2. requests = {} /\ signals = {} /\ timers = 1
  BY <1>1 DEF RetryTimeout, OneInFlight, TypeOK
<1>3. SendFirst(pending', requests)
  BY DEF RetryTimeout, SendFirst, IsFirst
<1>4. errors' \in 0 .. MaxErrors /\ signals' = {} /\ timers' = 0 /\ awake' = TRUE
  BY <1>1, <1>2 DEF RetryTimeout, TypeOK
<1>5. QED
  BY <1>2, <1>3, <1>4, SendNextIInv DEF RetryTimeout

LEMMA MessageSentIInv ==
  ASSUME IInv, NEW m \in Msgs, MessageSent(m)
  PROVE  IInv'
<1> USE ConstantsOK DEF ConstantsOK
<1>1. OneInFlight
  BY DEF IInv
<1>2. requests = {} /\ signals = {[kind |-> "sent", msg |-> m]} /\ timers = 0
  BY <1>1, AnswerOutstanding DEF MessageSent
<1>3. signals' = {} /\ timers' = 0 /\ errors' \in 0 .. MaxErrors
  BY <1>2 DEF MessageSent
<1>4. pending' \subseteq pending /\ byTxn' \subseteq byTxn
  BY DEF MessageSent
<1>5. QED
  BY <1>2, <1>3, <1>4, SendNextIInv DEF MessageSent

\* Both answers of /sync only move echoes to confirmed rows and shrink the queue.
LEMMA SyncIInv ==
  ASSUME IInv, NEW events \in SUBSET Accepted,
         UNCHANGED <<stamp, relTo, byTxn, pendingReply, memory, env>>,
         synced' \in 0 .. Len(log),
         pending' \subseteq pending, pending' \subseteq echoes',
         echoes' \subseteq echoes, echoes' \cap confirmed' = {},
         confirmed' \subseteq confirmed \cup events
  PROVE  IInv'
<1>0. TypeOK /\ OneInFlight /\ NoLostWakeup /\ OneRowPerMessage /\ Queued /\ InTurn
  BY DEF IInv
<1>1. Accepted' = Accepted /\ Accepted \subseteq Msgs
  BY <1>0, AcceptedType DEF Accepted, env, TypeOK
<1>2. TypeOK'
  BY <1>0, <1>1 DEF TypeOK, memory, env, Signal
<1>3. OneInFlight' /\ NoLostWakeup' /\ OneRowPerMessage'
  BY <1>0 DEF OneInFlight, NoLostWakeup, OneRowPerMessage, memory
<1>4. Queued'
  <2>1. Known' \subseteq Known
    BY <1>1 DEF Known, env
  <2>2. QED
    BY <2>1, <1>0 DEF Queued, env
<1>5. InTurn'
  BY <1>0, <1>1 DEF InTurn, env
<1>6. QED
  BY <1>2, <1>3, <1>4, <1>5 DEF IInv

LEMMA SyncTimelineIInv ==
  ASSUME IInv, NEW n \in DOMAIN log, SyncTimeline(n)
  PROVE  IInv'
<1>1. TypeOK /\ OneRowPerMessage
  BY DEF IInv
<1> DEFINE events == {log[i] : i \in synced + 1 .. n}
<1>2. log \in Seq(Msgs) /\ synced \in 0 .. Len(log) /\ n \in 0 .. Len(log)
  BY <1>1 DEF TypeOK, SyncTimeline
<1>3. events \subseteq Accepted
  BY <1>2, LogSlice
<1>4. /\ UNCHANGED <<stamp, relTo, byTxn, pendingReply, memory, env>>
      /\ synced' = n
      /\ confirmed' = confirmed \cup events
      /\ echoes' = echoes \ events
      /\ pending' = pending \ (events \cap echoes)
  BY DEF SyncTimeline
<1> HIDE DEF events
<1>5. /\ pending' \subseteq echoes' /\ echoes' \cap confirmed' = {}
      /\ pending' \subseteq pending /\ echoes' \subseteq echoes
      /\ confirmed' \subseteq confirmed \cup events
  BY <1>1, <1>4 DEF OneRowPerMessage
<1>6. QED
  BY <1>2, <1>3, <1>4, <1>5, SyncIInv

LEMMA SyncLimitedIInv ==
  ASSUME IInv, NEW first \in 1 .. Len(log) + 1, NEW n \in 0 .. Len(log), SyncLimited(first, n)
  PROVE  IInv'
<1> DEFINE events == {log[i] : i \in first .. n}
<1>1. log \in Seq(Msgs)
  BY DEF IInv, TypeOK
<1>2. events \subseteq Accepted
  BY <1>1, LogSlice
<1>3. /\ UNCHANGED <<stamp, relTo, byTxn, pendingReply, memory, env>>
      /\ synced' = n
      /\ confirmed' = events
      /\ echoes' = {} /\ pending' = {}
  BY DEF SyncLimited
<1> HIDE DEF events
<1>4. QED
  BY <1>2, <1>3, SyncIInv

LEMMA RestartIInv ==
  ASSUME IInv, Restart
  PROVE  IInv'
<1> USE ConstantsOK DEF ConstantsOK
<1>0. TypeOK /\ OneRowPerMessage /\ Queued /\ InTurn
  BY DEF IInv
<1>1. TypeOK'
  <2>1. restarts' \in 0 .. MaxRestarts /\ errors' \in 0 .. MaxErrors /\ timers' \in Nat
    BY <1>0 DEF TypeOK, Restart
  <2>2. /\ current' = NoMsg /\ requests' = {} /\ signals' = {} /\ awake' = FALSE
        /\ UNCHANGED <<disk, now, net, log>>
    BY DEF Restart
  <2>3. QED
    BY <2>1, <2>2, <1>0 DEF TypeOK, disk
<1>2. OneInFlight' /\ NoLostWakeup' /\ OneRowPerMessage'
  BY <1>0 DEF OneInFlight, NoLostWakeup, OneRowPerMessage, Restart, disk
<1>3. Accepted' = Accepted
  BY DEF Restart, Accepted
<1>4. Queued' /\ InTurn'
  BY <1>0, <1>3 DEF Queued, Known, InTurn, Restart, disk
<1>5. QED
  BY <1>1, <1>2, <1>4 DEF IInv

LEMMA TickIInv ==
  ASSUME IInv, Tick
  PROVE  IInv'
<1> USE ConstantsOK DEF ConstantsOK
<1>0. TypeOK /\ OneInFlight /\ NoLostWakeup /\ OneRowPerMessage /\ Queued /\ InTurn
  BY DEF IInv
<1>1. Accepted' = Accepted /\ Accepted \subseteq Msgs
  BY <1>0, AcceptedType DEF Tick, Accepted, TypeOK
<1>2. TypeOK'
  BY <1>0 DEF TypeOK, Tick, disk, memory, Signal
<1>3. OneInFlight' /\ NoLostWakeup' /\ OneRowPerMessage' /\ InTurn'
  BY <1>0, <1>1 DEF OneInFlight, NoLostWakeup, OneRowPerMessage, InTurn, Tick, disk, memory
<1>4. Queued'
  <2>1. Known' = Known /\ Known \subseteq Msgs /\ stamp' = stamp
    BY <1>0, <1>1 DEF Known, Tick, disk, TypeOK
  <2>2. QED
    BY <2>1, <1>0 DEF Queued, Tick, TypeOK
<1>5. QED
  BY <1>2, <1>3, <1>4 DEF IInv

\* Every action has its lemma above.
LEMMA NextIInv == IInv /\ [Next]_vars => IInv'
<1> SUFFICES ASSUME IInv, [Next]_vars PROVE IInv'
  OBVIOUS
<1>1. CASE User
  BY <1>1, AddPendingIInv DEF User
<1>2. CASE Server
  BY <1>2, ServerAcceptIInv, RespondIInv DEF Server
<1>3. CASE Slots
  BY <1>3, MessageFailedIInv, MessageSentIInv, RetryTimeoutIInv DEF Slots
<1>4. CASE Sync
  BY <1>4, SyncTimelineIInv, SyncLimitedIInv DEF Sync
<1>5. CASE Restart
  BY <1>5, RestartIInv
<1>6. CASE Tick
  BY <1>6, TickIInv
<1>7. CASE UNCHANGED vars
  <2>1. UNCHANGED <<disk, memory, env>> /\ Accepted' = Accepted /\ Known' = Known
    BY <1>7 DEF vars, disk, env, Accepted, Known
  <2>2. TypeOK'
    BY <1>7 DEF IInv, TypeOK, vars, disk, memory, env, Signal
  <2>3. OneInFlight' /\ NoLostWakeup' /\ OneRowPerMessage'
    BY <2>1 DEF IInv, OneInFlight, NoLostWakeup, OneRowPerMessage, disk, memory
  <2>4. Queued' /\ InTurn'
    BY <2>1 DEF IInv, Queued, InTurn, disk, env
  <2>5. QED
    BY <2>2, <2>3, <2>4 DEF IInv
<1>8. QED
  BY <1>1, <1>2, <1>3, <1>4, <1>5, <1>6, <1>7 DEF Next

\* The inductive invariant holds in every reachable state.
THEOREM Invariance == Spec => []IInv
BY InitIInv, NextIInv, PTL DEF Spec

------------------------------------------------------------------------------

\* Every variable of the queue stays in its range.
THEOREM TypeCorrect == Spec => []TypeOK
<1>1. IInv => TypeOK
  BY DEF IInv
<1>2. QED
  BY <1>1, Invariance, PTL

\* current_txn serialises requests, answers and retry timers.
THEOREM Serialised == Spec => []OneInFlight
<1>1. IInv => OneInFlight
  BY DEF IInv
<1>2. QED
  BY <1>1, Invariance, PTL

\* The queue never sleeps on pending messages, except after a restart.
THEOREM WakeupKept == Spec => []NoLostWakeup
<1>1. IInv => NoLostWakeup
  BY DEF IInv
<1>2. QED
  BY <1>1, Invariance, PTL

\* Messages reach the server in the order they were queued.
THEOREM InOrder == Spec => []NoOvertaking
<1>1. IInv => NoOvertaking
  BY DEF IInv, InTurn, NoOvertaking
<1>2. QED
  BY <1>1, Invariance, PTL

\* An echo is replaced by its event and never shown beside it.
THEOREM OneRow == Spec => []OneRowPerMessage
<1>1. IInv => OneRowPerMessage
  BY DEF IInv
<1>2. QED
  BY <1>1, Invariance, PTL

------------------------------------------------------------------------------
(* The refinement of Outbox                                                 *)

\* The message being sent was queued and is a first one, and an answer that
\* came is for a message the server has.
FirstOfQueue ==
  current # NoMsg => /\ stamp[current] <= now
                     /\ current \in pending => \A p \in pending : stamp[current] <= stamp[p]
SentIsThere  == \A m \in Msgs : [kind |-> "sent", msg |-> m] \in signals => m \in Accepted

OutboxInv == FirstOfQueue /\ SentIsThere

\* Steps that queue nothing and send nothing.
LEMMA OutboxStays ==
  ASSUME OutboxInv, pending' \subseteq pending, stamp' = stamp, now' = now,
         current' \in {current, NoMsg}, Accepted \subseteq Accepted',
         \A m \in Msgs : [kind |-> "sent", msg |-> m] \in signals'
                           => [kind |-> "sent", msg |-> m] \in signals \/ m \in Accepted
  PROVE  OutboxInv'
BY DEF OutboxInv, FirstOfQueue, SentIsThere

\* processPending takes a first one.
LEMMA OutboxSends ==
  ASSUME IInv', OutboxInv, requests = {}, pending' \subseteq Msgs, SendFirst(pending', requests),
         signals' \subseteq signals, UNCHANGED log
  PROVE  OutboxInv'
<1>1. \A p \in pending' : stamp'[p] <= now'
  BY DEF IInv, Queued, Known
<1>2. current' # NoMsg => current' \in pending' /\ \A p \in pending' : stamp'[current'] <= stamp'[p]
  BY SendFirstStep, ConstantsOK
<1>3. FirstOfQueue'
  BY <1>1, <1>2 DEF FirstOfQueue
<1>4. SentIsThere'
  BY DEF OutboxInv, SentIsThere, Accepted
<1>5. QED
  BY <1>3, <1>4 DEF OutboxInv

LEMMA AddPendingOutbox ==
  ASSUME IInv, IInv', OutboxInv, NEW m \in Msgs, NEW target \in Msgs \cup {NoMsg},
         AddPending(m, target)
  PROVE  OutboxInv'
<1>1. TypeOK /\ OneInFlight /\ Queued
  BY DEF IInv
<1>2. /\ stamp' = [stamp EXCEPT ![m] = now] /\ stamp[m] = MaxClock + 1
      /\ pending' = {p \in pending : stamp[p] # now} \cup {m}
      /\ UNCHANGED <<signals, log, now>>
      /\ IF current = NoMsg THEN SendFirst(pending', requests) ELSE UNCHANGED current
  BY DEF AddPending
<1>3. CASE current = NoMsg
  BY <1>1, <1>2, <1>3, OutboxSends DEF OneInFlight, TypeOK
<1>4. CASE current # NoMsg
  <2>1. /\ current' = current /\ current \in Msgs
        /\ now \in Nat /\ MaxClock \in Nat /\ now <= MaxClock /\ pending \subseteq Msgs
        /\ stamp \in [Msgs -> 0 .. MaxClock + 1] /\ \A x \in pending : stamp[x] <= now
    BY <1>1, <1>2, <1>4, ConstantsOK DEF TypeOK, Queued, Known
  <2>2. stamp[current] <= now /\ current # m
    BY <1>2, <1>4, <2>1 DEF OutboxInv, FirstOfQueue
  <2>3. m \notin pending /\ stamp'[m] = now /\ stamp'[current] = stamp[current]
        /\ \A x \in pending : stamp'[x] = stamp[x]
    BY <1>2, <2>1, <2>2
  <2>4. ASSUME current \in pending', NEW p \in pending' PROVE stamp'[current] <= stamp'[p]
    BY <1>2, <1>4, <2>1, <2>2, <2>3, <2>4 DEF OutboxInv, FirstOfQueue
  <2>5. FirstOfQueue'
    BY <1>2, <2>1, <2>2, <2>3, <2>4 DEF FirstOfQueue
  <2>6. SentIsThere'
    BY <1>2 DEF OutboxInv, SentIsThere, Accepted
  <2>7. QED
    BY <2>5, <2>6 DEF OutboxInv
<1>5. QED
  BY <1>3, <1>4

LEMMA NextOutbox ==
  ASSUME IInv, IInv', OutboxInv, [Next]_vars PROVE OutboxInv'
<1> USE DEF disk, memory, env
<1>1. TypeOK /\ OneInFlight /\ log \in Seq(Msgs)
  BY DEF IInv, TypeOK
<1>2. ASSUME NEW m \in Msgs, ServerAccept(m) PROVE OutboxInv'
  <2>1. Accepted \subseteq Accepted'
    BY <1>1, <1>2, LogAppend DEF ServerAccept, Accepted
  <2>2. QED
    BY <1>2, <2>1, OutboxStays DEF ServerAccept
<1>3. ASSUME NEW m \in Msgs, RespondOk(m) PROVE OutboxInv'
  <2>1. /\ UNCHANGED <<pending, stamp, now, current, log>> /\ m \in Accepted
        /\ signals' = signals \cup {[kind |-> "sent", msg |-> m]}
    BY <1>3 DEF RespondOk
  <2>2. ASSUME NEW x \in Msgs, [kind |-> "sent", msg |-> x] \in signals'
        PROVE  [kind |-> "sent", msg |-> x] \in signals \/ x \in Accepted
    <3>1. CASE [kind |-> "sent", msg |-> x] = [kind |-> "sent", msg |-> m]
      <4>1. [kind |-> "sent", msg |-> x].msg = [kind |-> "sent", msg |-> m].msg
        BY <3>1
      <4>2. QED
        BY <2>1, <4>1
    <3>2. QED
      BY <2>1, <2>2, <3>1
  <2>3. QED
    BY <2>1, <2>2, OutboxStays DEF Accepted
<1>4. ASSUME NEW m \in Msgs, RespondError(m) PROVE OutboxInv'
  <2>1. /\ UNCHANGED <<pending, stamp, now, current, log>>
        /\ signals' = signals \cup {[kind |-> "failed", msg |-> m]}
    BY <1>4 DEF RespondError
  <2>2. ASSUME NEW x \in Msgs, [kind |-> "sent", msg |-> x] \in signals'
        PROVE  [kind |-> "sent", msg |-> x] \in signals
    BY <2>1, <2>2
  <2>3. QED
    BY <2>1, <2>2, OutboxStays DEF Accepted
<1>5. ASSUME NEW m \in Msgs, MessageFailed(m) PROVE OutboxInv'
  BY <1>5, OutboxStays DEF MessageFailed, Accepted
<1>6. ASSUME NEW m \in Msgs, MessageSent(m) PROVE OutboxInv'
  <2>1. requests = {}
    BY <1>1, <1>6, AnswerOutstanding DEF MessageSent
  <2>2. pending' \subseteq Msgs /\ SendFirst(pending', requests) /\ UNCHANGED log
        /\ signals' \subseteq signals
    BY <1>1, <1>6 DEF MessageSent, TypeOK
  <2>3. QED
    BY <2>1, <2>2, OutboxSends
<1>7. CASE RetryTimeout
  <2>1. requests = {}
    BY <1>1, <1>7 DEF RetryTimeout, OneInFlight, TypeOK
  <2>2. /\ pending' \subseteq Msgs /\ UNCHANGED <<log, signals>>
        /\ SendFirst(pending', requests)
    BY <1>1, <1>7 DEF RetryTimeout, TypeOK, SendFirst, IsFirst
  <2>3. QED
    BY <2>1, <2>2, OutboxSends
<1>8. CASE Sync
  <2>1. pending' \subseteq pending /\ UNCHANGED <<stamp, now, current, log, signals>>
    BY <1>8 DEF Sync, SyncTimeline, SyncLimited
  <2>2. QED
    BY <2>1, OutboxStays DEF Accepted
<1>9. CASE Restart
  BY <1>9, OutboxStays DEF Restart, Accepted
<1>10. CASE Tick
  <2>1. /\ now' = now + 1 /\ UNCHANGED <<pending, stamp, current, log, signals>>
    BY <1>10 DEF Tick
  <2>2. now \in Nat /\ (current # NoMsg => stamp[current] \in Nat)
    BY <1>1, ConstantsOK DEF TypeOK
  <2>3. QED
    BY <2>1, <2>2 DEF OutboxInv, FirstOfQueue, SentIsThere, Accepted
<1>11. CASE UNCHANGED vars
  BY <1>11, OutboxStays DEF vars, Accepted
<1>12. QED
  BY <1>2, <1>3, <1>4, <1>5, <1>6, <1>7, <1>8, <1>9, <1>10, <1>11, AddPendingOutbox
     DEF Next, User, Server, Slots

\* The message under way heads the queue, and only what was sent is confirmed.
LEMMA OutboxInvariance == Spec => []OutboxInv
<1>1. Init => OutboxInv
  BY DEF Init, OutboxInv, FirstOfQueue, SentIsThere
<1>2. IInv /\ IInv' /\ OutboxInv /\ [Next]_vars => OutboxInv'
  BY NextOutbox
<1>3. QED
  BY <1>1, <1>2, Invariance, PTL DEF Spec

\* What goes on waiting waits in the order it waited in.
LEMMA KeepsOrder ==
  ASSUME pending' \subseteq pending, stamp' = stamp
  PROVE  Abstract!Keep(pending')
BY DEF Abstract!Keep, Before

LEMMA OutboxInit == Init => Abstract!Init
BY DEF Init, Abstract!Init, Before

\* A new message has the latest millisecond.
LEMMA AddPendingSubmits ==
  ASSUME IInv, ~SharedMillisecond, NEW m \in Msgs, NEW target \in Msgs \cup {NoMsg},
         AddPending(m, target)
  PROVE  Abstract!Submit(m)
<1>1. TypeOK /\ Queued
  BY DEF IInv
<1>2. /\ stamp' = [stamp EXCEPT ![m] = now] /\ stamp[m] = MaxClock + 1 /\ log' = log
      /\ pending' = {p \in pending : stamp[p] # now} \cup {m}
      /\ \A p \in Msgs : stamp[p] # now
  BY DEF AddPending
<1>3. /\ now \in Nat /\ MaxClock \in Nat /\ now <= MaxClock /\ pending \subseteq Msgs
      /\ stamp \in [Msgs -> 0 .. MaxClock + 1]
      /\ \A x \in pending \cup Accepted : stamp[x] <= now
  BY <1>1, ConstantsOK DEF TypeOK, Queued, Known
<1>4. m \notin pending \cup Accepted
  BY <1>2, <1>3
<1>5. pending' = pending \cup {m}
  BY <1>2, <1>3
<1>6. stamp'[m] = now /\ \A x \in pending : stamp'[x] = stamp[x] /\ stamp[x] < now /\ stamp[x] \in Nat
  BY <1>2, <1>3, <1>4
<1>7. Before' = Before \cup (pending \X {m})
  <2>1. ASSUME NEW a \in pending', NEW b \in pending'
        PROVE  <<a, b>> \in Before' <=> <<a, b>> \in Before \/ (a \in pending /\ b = m)
    BY <1>3, <1>4, <1>5, <1>6, <2>1 DEF Before
  <2>2. Before' \subseteq pending' \X pending' /\ Before \subseteq pending \X pending
    BY DEF Before
  <2>3. pending \X pending \subseteq pending' \X pending' /\ pending \X {m} \subseteq pending' \X pending'
    BY <1>5
  <2>4. ASSUME NEW ab \in pending' \X pending'
        PROVE  ab \in Before' <=> ab \in Before \cup (pending \X {m})
    BY <2>1, <2>4
  <2>5. QED
    BY <2>2, <2>3, <2>4
<1>8. QED
  BY <1>2, <1>4, <1>5, <1>7 DEF Abstract!Submit, Abstract!Delivered, Accepted

\* The server takes a request for the first time, in turn, or again.
LEMMA ServerAcceptDelivers ==
  ASSUME IInv, NEW m \in Msgs, ServerAccept(m)
  PROVE  Abstract!Deliver(m) \/ UNCHANGED <<pending, Before, log>>
<1>1. m \in net /\ UNCHANGED <<pending, stamp>>
      /\ log' = IF m \in Accepted THEN log ELSE Append(log, m)
  BY DEF ServerAccept, disk
<1>2. Before' = Before
  BY <1>1 DEF Before
<1>3. CASE m \in Accepted
  BY <1>1, <1>2, <1>3
<1>4. CASE m \notin Accepted
  <2>1. \A p \in pending : stamp[p] < stamp[m] => p \in Accepted
    BY <1>1 DEF IInv, InTurn
  <2>2. \A p \in pending : <<p, m>> \in Before => p \in Accepted
    BY <2>1 DEF Before
  <2>3. QED
    BY <1>1, <1>2, <1>4, <2>2 DEF Abstract!Deliver, Abstract!Delivered, Accepted
<1>5. QED
  BY <1>3, <1>4

LEMMA MessageFailedGivesUp ==
  ASSUME IInv, OutboxInv, NEW m \in Msgs, MessageFailed(m)
  PROVE  Abstract!GiveUp(m) \/ UNCHANGED <<pending, Before, log>>
<1>1. /\ pending' = (IF GiveUp(m) THEN pending \ {m} ELSE pending)
      /\ stamp' = stamp /\ log' = log
  BY DEF MessageFailed, env
<1>2. CASE GiveUp(m) /\ m \in pending
  <2>1. current = m /\ current # NoMsg
    BY <1>2, ConstantsOK DEF GiveUp
  <2>2. \A p \in pending : stamp[m] <= stamp[p]
    BY <1>2, <2>1 DEF OutboxInv, FirstOfQueue
  <2>3. pending \subseteq Msgs /\ \A p \in Msgs : stamp[p] \in Nat
    BY ConstantsOK DEF IInv, TypeOK
  <2>4. \A p \in pending : <<p, m>> \notin Before
    BY <1>2, <2>2, <2>3 DEF Before
  <2>5. Abstract!Keep(pending \ {m})
    BY <1>1, <1>2, KeepsOrder
  <2>6. QED
    BY <1>1, <1>2, <2>4, <2>5 DEF Abstract!GiveUp
<1>3. CASE ~(GiveUp(m) /\ m \in pending)
  <2>1. pending' = pending
    BY <1>1, <1>3
  <2>2. QED
    BY <1>1, <2>1 DEF Before
<1>4. QED
  BY <1>2, <1>3

\* messageSent and /sync take what the server has out of the queue.
LEMMA Confirms ==
  ASSUME NEW S \in SUBSET Msgs, S \subseteq Accepted, pending' = pending \ S,
         stamp' = stamp, log' = log
  PROVE  Abstract!Confirm(S)
<1>1. Abstract!Keep(pending \ S)
  BY KeepsOrder
<1>2. QED
  BY <1>1 DEF Abstract!Confirm, Abstract!Delivered, Accepted

LEMMA NextImplements ==
  ASSUME IInv, OutboxInv, ~SharedMillisecond, [Next]_vars
  PROVE  Abstract!Next \/ UNCHANGED <<pending, Before, log>>
<1> USE DEF disk, memory, env
<1>1. TypeOK /\ log \in Seq(Msgs) /\ synced \in 0 .. Len(log)
  BY DEF IInv, TypeOK
<1>2. CASE User
  BY <1>2, AddPendingSubmits DEF User, Abstract!Next
<1>3. CASE Server
  <2>1. ASSUME NEW m \in Msgs, ServerAccept(m) PROVE Abstract!Next \/ UNCHANGED <<pending, Before, log>>
    BY <2>1, ServerAcceptDelivers DEF Abstract!Next
  <2>2. ASSUME NEW m \in Msgs, RespondOk(m) \/ RespondError(m) PROVE UNCHANGED <<pending, Before, log>>
    BY <2>2 DEF RespondOk, RespondError, Before
  <2>3. QED
    BY <1>3, <2>1, <2>2 DEF Server
<1>4. ASSUME NEW m \in Msgs, MessageFailed(m) PROVE Abstract!Next \/ UNCHANGED <<pending, Before, log>>
  BY <1>4, MessageFailedGivesUp DEF Abstract!Next
<1>5. ASSUME NEW m \in Msgs, MessageSent(m) PROVE Abstract!Next
  <2>1. {m} \subseteq Accepted /\ {m} \in SUBSET Msgs
    BY <1>5 DEF MessageSent, OutboxInv, SentIsThere
  <2>2. Abstract!Confirm({m})
    BY <1>5, <2>1, Confirms DEF MessageSent
  <2>3. QED
    BY <2>1, <2>2 DEF Abstract!Next
<1>6. CASE RetryTimeout \/ Restart \/ Tick \/ UNCHANGED vars
  BY <1>6 DEF RetryTimeout, Restart, Tick, vars, Before
<1>7. ASSUME NEW n \in DOMAIN log, SyncTimeline(n) PROVE Abstract!Next
  <2> DEFINE events == {log[i] : i \in synced + 1 .. n}
  <2>1. events \subseteq Accepted /\ Accepted \subseteq Msgs
    BY <1>1, <1>7, LogSlice, AcceptedType DEF SyncTimeline
  <2>2. pending' = pending \ (events \cap echoes) /\ UNCHANGED <<stamp, log>>
    BY <1>7 DEF SyncTimeline
  <2> HIDE DEF events
  <2>3. Abstract!Confirm(events \cap echoes)
    BY <2>1, <2>2, Confirms
  <2>4. QED
    BY <2>1, <2>3 DEF Abstract!Next
<1>8. ASSUME NEW first, NEW n, SyncLimited(first, n) PROVE Abstract!Next
  <2>1. pending' = {} /\ UNCHANGED <<stamp, log>>
    BY <1>8 DEF SyncLimited
  <2>2. Abstract!Keep({})
    BY <2>1, KeepsOrder
  <2>3. QED
    BY <2>1, <2>2 DEF Abstract!Reset, Abstract!Next
<1>9. QED
  BY <1>2, <1>3, <1>4, <1>5, <1>6, <1>7, <1>8 DEF Next, Slots, Sync

\* EventStore and Cache implement the outbox, if no two messages are queued in
\* one millisecond: what waits reaches the server in order and once, and leaves
\* the queue for no other reason than Outbox names.
THEOREM OutboxImplemented == ASSUME ~SharedMillisecond PROVE Spec => ImplementsOutbox
<1>1. Init => Abstract!Init
  BY OutboxInit
<1>2. IInv /\ OutboxInv /\ [Next]_vars => [Abstract!Next]_<<pending, Before, log>>
  BY NextImplements
<1>3. QED
  BY <1>1, <1>2, Invariance, OutboxInvariance, PTL DEF Spec, ImplementsOutbox, Abstract!Spec

------------------------------------------------------------------------------
\* The rooms

\* Every variable keeps its type; moved, joined and the like are sets of rooms.
RoomsTypeOK ==
  /\ here \in [Rooms -> Memberships] /\ moved \subseteq Rooms
  /\ state \in [Rooms -> [title : Titles, people : SUBSET Others]]
  /\ child \in [Rooms -> Marks] /\ parent \in [Rooms -> Marks] /\ power \in {"enough", "short"}
  /\ since \in Snapshots /\ answer \in Snapshots \cup {NoAnswer}
  /\ joined \subseteq Rooms /\ invited \subseteq Rooms
  /\ members \in [Rooms -> SUBSET ({Me} \cup Others)] /\ titles \in [Rooms -> Titles]
  /\ levels \in {"none", "enough", "short"}
  /\ kids \subseteq Rooms /\ names \subseteq Rooms /\ links \subseteq Rooms
  /\ timelines \subseteq Rooms /\ heard \subseteq Rooms
  /\ calls \in [Rooms -> {"idle", "join", "leave", "create", "joinOk", "leaveOk", "createOk"}]
  /\ slots \subseteq Rooms
  /\ unread \in {"none", "unread", "read"} /\ marked \in BOOLEAN /\ notified \in Nat
  /\ asks \in Seq({"none", "asked", "unread", "read"})
  /\ changes \in Nat /\ uses \in Nat

\* The snapshot that is in force once the answer under way is handled, and
\* whether the next answer brings the whole state of a room.
Coming == IF answer = NoAnswer THEN since ELSE answer
NextFull(r) == IF answer = NoAnswer THEN r \in moved ELSE r \in answer.moved

\* The server changed a room since the last answer was made only if it is in
\* moved, unless it forgot the room while that answer was under way; a
\* membership or a parent event never goes away.
ServerInv ==
  \A r \in Rooms :
    /\ ~May("late") =>
         /\ r \notin moved => here[r] = Coming.here[r]
         /\ r \in moved => here[r] # "none"
         /\ here[r] = "none" => Coming.here[r] = "none"
    /\ parent[r] = "never" => Coming.parent[r] = "never"

\* The same of the answer under way and the one before it.
AnswerInv ==
  answer # NoAnswer => \A r \in Rooms :
    /\ ~May("late") =>
         /\ r \notin answer.moved => answer.here[r] = since.here[r]
         /\ r \in answer.moved => answer.here[r] # "none"
         /\ answer.here[r] = "none" => since.here[r] = "none"
    /\ answer.parent[r] = "never" => since.parent[r] = "never"

Orderly == may \cap {"late", "reinvite"} = {}

\* Without a second invite, what is an invite was not joined before.
InviteInv ==
  Orderly => \A r \in Rooms :
     /\ here[r] = "invite" => since.here[r] # "join" /\ Coming.here[r] # "join"
     /\ Coming.here[r] = "invite" => since.here[r] # "join"

\* Without a late answer, a call that was answered has its effect on the
\* server, and a join is asked for the invite there is.
CallsInv ==
  ~May("late") => \A r \in Rooms :
     /\ r \in slots \/ calls[r] = "leaveOk" => here[r] = "leave"
     /\ calls[r] \in {"joinOk", "createOk"} => here[r] = "join"
     /\ calls[r] = "join" => r \notin moved \cup OnTheWay

\* The lists are those of the last answer, but for rooms that are under way.
ListsInv ==
  Orderly => \A r \in Rooms :
   /\ r \in joined => since.here[r] = "join"
   /\ since.here[r] = "join" => r \in joined \cup moved \cup OnTheWay
   /\ r \in invited => since.here[r] = "invite"
   /\ since.here[r] = "invite" => r \in invited \cup moved \cup OnTheWay

\* A joined room has a timeline, and a timeline is of a room in a list or of
\* one that is under way.
ShownInv ==
   /\ joined \subseteq timelines
   /\ Orderly /\ ~May("gone") => timelines \subseteq joined \cup invited \cup moved \cup OnTheWay

\* The call manager hears of a room that is joined as soon as the call that
\* joined it is answered; no leave of it is under way then.
HeardEnv == may \cap {"late", "reinvite", "elsewhere", "create", "restart"} = {}

HeardInv ==
   HeardEnv =>
     /\ invited \subseteq timelines
     /\ \A r \in Rooms :
       /\ here[r] = "join" => r \in heard \/ calls[r] = "joinOk"
       /\ r \in OnTheWay /\ answer.here[r] = "leave" => here[r] # "join"
       /\ calls[r] \in {"join", "joinOk"} => r \in timelines
       /\ calls[r] \notin {"create", "createOk"}

\* The members, the title and the RoomInfo of a joined room are those of the
\* last answer.
InfoInv ==
  may \cap {"late", "redact"} = {} => \A r \in Rooms : since.here[r] = "join" =>
     /\ members[r] = {Me} \cup since.state[r].people
     /\ titles[r] = since.state[r].title
     /\ info[r] = RoomInfo(titles[r], members[r])

\* The children of the space: its child events, and rooms that name it if
\* who wrote that had the power; updateSpaces looks at joined rooms, and a room
\* that comes with its whole state is looked at again.
Counted(S) == IF levels = "enough" THEN S \cap names ELSE {}

SpaceInv ==
  /\ \A r \in names : since.parent[r] # "never"
  /\ Orderly /\ since.here[Space] = "join" =>
       /\ kids \cup Counted(joined) \subseteq links
       /\ links \subseteq kids \cup Counted(Rooms)
       /\ Counted({r \in Rooms : since.here[r] = "join" /\ ~NextFull(r)}) \subseteq links

\* Answers come in the order they were asked for, first those that call the
\* event unread; the event was shown at most once and is marked until one that
\* calls it read, after which none calls it unread.
NotifyInv ==
 ~May("overtake") =>
  /\ asks # <<>> => unread # "none"
  /\ \A i \in 1 .. Len(asks) :
       /\ asks[i] # "none" /\ (asks[i] = "read" => unread = "read")
       /\ \A j \in 1 .. i - 1 : /\ asks[i] = "unread" => asks[j] = "unread"
                                /\ asks[i] = "read" => asks[j] # "asked"
  /\ notified \in {0, 1}
  /\ \/ notified = 0 \/ marked
     \/ unread = "read" /\ \A i \in 1 .. Len(asks) : asks[i] # "unread"

------------------------------------------------------------------------------

\* The program starts in sync with the rooms it has.
LEMMA RoomsInitTypes == RoomsInit => RoomsTypeOK
  <1> SUFFICES ASSUME RoomsInit PROVE RoomsTypeOK
    OBVIOUS
  <1> USE RoomsOK DEF RoomsInit
  <1>1. /\ here \in [Rooms -> Memberships] /\ moved \subseteq Rooms
        /\ state \in [Rooms -> [title : Titles, people : SUBSET Others]]
        /\ child \in [Rooms -> Marks] /\ parent \in [Rooms -> Marks]
    BY DEF Memberships, Titles, Marks
  <1>2. power \in {"enough", "short"}
    OBVIOUS
  <1>3. since \in Snapshots
    BY <1>1, <1>2 DEF Snapshot, Snapshots
  <1>4. /\ joined \subseteq Rooms /\ titles \in [Rooms -> Titles]
        /\ levels \in {"none", "enough", "short"}
        /\ calls \in [Rooms -> {"idle", "join", "leave", "create", "joinOk", "leaveOk", "createOk"}]
    BY <1>2 DEF Titles
  <1>5. members \in [Rooms -> SUBSET ({Me} \cup Others)]
    OBVIOUS
  <1>6. asks \in Seq({"none", "asked", "unread", "read"})
    OBVIOUS
  <1>. QED
    BY <1>1, <1>2, <1>3, <1>4, <1>5, <1>6 DEF RoomsTypeOK

\* An answer of the server is one of the snapshots.
LEMMA SnapshotType == RoomsTypeOK => Snapshot \in Snapshots
  BY DEF RoomsTypeOK, Snapshot, Snapshots

\* What does not touch a group of variables keeps its types.
LEMMA HandleSyncTypes ==
  ASSUME RoomsTypeOK, HandleSync
  PROVE  RoomsTypeOK'
  <1> USE RoomsOK, NoAnswerOK
  <1>1. answer \in Snapshots
    BY DEF RoomsTypeOK, HandleSync
  <1>2. /\ Joins \subseteq Rooms /\ Invites \subseteq Rooms /\ Leaves \subseteq Rooms
        /\ ChildEvents \subseteq Rooms /\ ParentEvents \subseteq Rooms
    BY <1>1 DEF Joins, Invites, Leaves, ChildEvents, ParentEvents, Snapshots
  <1>3. joined' \subseteq Rooms /\ invited' \subseteq Rooms
    BY <1>2 DEF HandleSync, RoomsTypeOK, SaveRooms, RemoveLeftRooms, SaveInvites, RemoveInvites
  <1>4. timelines' \subseteq Rooms /\ heard' \subseteq Rooms
    BY <1>2 DEF HandleSync, RoomsTypeOK, SyncTimelines
  <1>5. kids' \subseteq Rooms /\ names' \subseteq Rooms
    BY DEF HandleSync, SaveSpaces
  <1>6. links' \subseteq Rooms
    BY <1>2, <1>3, <1>5 DEF HandleSync, SaveSpaces, UpdateSpaces, RoomsTypeOK
  <1>7. levels' \in {"none", "enough", "short"}
    BY <1>1 DEF HandleSync, SaveSpaces, RoomsTypeOK, Snapshots
  <1>8. members' \in [Rooms -> SUBSET ({Me} \cup Others)]
    <2>1. ASSUME NEW r \in Rooms PROVE MembersOf(r) \subseteq {Me} \cup Others
      <3>1. answer.state[r].people \subseteq Others
        BY <1>1 DEF Snapshots
      <3>2. members[r] \subseteq {Me} \cup Others
        BY DEF RoomsTypeOK
      <3>. QED
        BY <3>1, <3>2 DEF MembersOf
    <2>2. ASSUME NEW r \in Rooms PROVE members[r] \subseteq {Me} \cup Others
      BY DEF RoomsTypeOK
    <2>. QED
      BY <2>1, <2>2 DEF HandleSync, SaveInfo, SaveMembers
  <1>9. titles' \in [Rooms -> Titles]
    <2>1. ASSUME NEW r \in Rooms PROVE answer.state[r].title \in Titles /\ titles[r] \in Titles
      BY <1>1 DEF Snapshots, RoomsTypeOK
    <2>. QED
      BY <2>1 DEF HandleSync, SaveInfo, SaveTitles, Titles
  <1>10. since' \in Snapshots /\ answer' \in Snapshots \cup {NoAnswer}
    BY <1>1 DEF HandleSync
  <1>. QED
    BY <1>3, <1>4, <1>5, <1>6, <1>7, <1>8, <1>9, <1>10
    DEF HandleSync, RoomsTypeOK, server, notes, bounds

\* A request changes the state of a call alone.
LEMMA AskTypes ==
  ASSUME RoomsTypeOK, NEW r \in Rooms, Ask(r, "join") \/ Ask(r, "leave") \/ Ask(r, "create")
  PROVE  RoomsTypeOK'
  BY DEF RoomsTypeOK, Ask, Use, server, sync, roomsDb, spacesDb, client, notes

LEMMA UserInTypes ==
  ASSUME RoomsTypeOK, NEW r \in Rooms, UserIn(r)
  PROVE  RoomsTypeOK'
  <1> USE DEF server, sync, roomsDb, spacesDb, client, notes, bounds
  <1>1. CASE JoinRoom(r) \/ LeaveRoom(r) \/ CreateRoom(r)
    BY <1>1, AskTypes DEF JoinRoom, LeaveRoom, CreateRoom
  <1>2. CASE Accept(r)
    BY <1>2 DEF Accept, RoomsTypeOK, Memberships
  <1>3. CASE Refuse(r)
    BY <1>3 DEF Refuse, RoomsTypeOK
  <1>4. CASE LeaveUnknown(r)
    <2>1. since' \in Snapshots
      BY <1>4 DEF LeaveUnknown, RoomsTypeOK, Snapshots, Memberships
    <2>. QED
      BY <2>1, <1>4 DEF LeaveUnknown, RoomsTypeOK, Memberships, RemoveInvites
  <1>5. CASE JoinAnswered(r)
    BY <1>5 DEF JoinAnswered, RoomsTypeOK, RemoveInvites
  <1>6. CASE CreateAnswered(r)
    BY <1>6 DEF CreateAnswered, RoomsTypeOK
  <1>7. CASE LeaveAnswered(r)
    BY <1>7 DEF LeaveAnswered, RoomsTypeOK
  <1>8. CASE RemoveRoom(r)
    BY <1>8 DEF RemoveRoom, RoomsTypeOK, RemoveInvites
  <1>. QED
    BY <1>1, <1>2, <1>3, <1>4, <1>5, <1>6, <1>7, <1>8 DEF UserIn

LEMMA ServerInTypes ==
  ASSUME RoomsTypeOK, NEW r \in Rooms, ServerIn(r)
  PROVE  RoomsTypeOK'
  <1> USE DEF server, sync, roomsDb, spacesDb, client, notes, bounds
  <1>1. CASE Invite(r) \/ Kick(r) \/ JoinElsewhere(r)
    BY <1>1 DEF Invite, Kick, JoinElsewhere, Moves, Change, RoomsTypeOK, Memberships
  <1>2. ASSUME NEW to \in {"yes", "no"}, NameChild(r, to) \/ NameParent(r, to)
        PROVE  RoomsTypeOK'
    <2>1. CASE NameChild(r, to)
      BY <2>1 DEF NameChild, Tell, Change, RoomsTypeOK, Marks
    <2>2. CASE NameParent(r, to)
      BY <2>2 DEF NameParent, Tell, Change, RoomsTypeOK, Marks
    <2>. QED
      BY <1>2, <2>1, <2>2
  <1>3. ASSUME NEW title \in Titles, SetTitle(r, title)
        PROVE  RoomsTypeOK'
    <2>1. state' \in [Rooms -> [title : Titles, people : SUBSET Others]]
      BY <1>3 DEF SetTitle, RoomsTypeOK
    <2>2. /\ UNCHANGED <<here, moved, child, parent, power, since, answer, joined, invited, members,
                         titles, levels, kids, names, links, timelines, heard, calls, slots, unread,
                         marked, asks, notified, uses>>
          /\ changes' = changes + 1
      BY <1>3 DEF SetTitle, Tell, Change
    <2>. QED
      BY <2>1, <2>2 DEF RoomsTypeOK
  <1>4. ASSUME NEW u \in Others, MemberMoves(r, u)
        PROVE  RoomsTypeOK'
    <2>1. state' \in [Rooms -> [title : Titles, people : SUBSET Others]]
      BY <1>4 DEF MemberMoves, RoomsTypeOK
    <2>. QED
      BY <2>1, <1>4 DEF MemberMoves, Tell, Change, RoomsTypeOK
  <1>5. CASE RedactTitle(r)
    <2>1. state' \in [Rooms -> [title : Titles, people : SUBSET Others]]
      BY <1>5 DEF RedactTitle, RoomsTypeOK, Titles
    <2>2. PICK told : told = [since.state EXCEPT ![r].title = "none"]
      OBVIOUS
    <2>3. told \in [Rooms -> [title : Titles, people : SUBSET Others]]
      <3>1. since.state \in [Rooms -> [title : Titles, people : SUBSET Others]]
        BY DEF RoomsTypeOK, Snapshots
      <3>2. "none" \in Titles
        BY DEF Titles
      <3>. QED
        BY <2>2, <3>1, <3>2
    <2>4. since' = [since EXCEPT !.state = told]
      BY <2>2, <1>5 DEF RedactTitle
    <2>5. since' \in Snapshots
      BY <2>3, <2>4 DEF RoomsTypeOK, Snapshots
    <2>. QED
      BY <2>1, <2>5, <1>5, SMTT(30) DEF RedactTitle, Change, RoomsTypeOK
  <1>. QED
    BY <1>1, <1>2, <1>3, <1>4, <1>5 DEF ServerIn

LEMMA NotifyTypes ==
  ASSUME RoomsTypeOK, Notify
  PROVE  RoomsTypeOK'
  <1> USE DEF server, sync, roomsDb, spacesDb, client, bounds, Quiet
  <1>1. CASE Event
    BY <1>1 DEF Event, Change, RoomsTypeOK
  <1>2. CASE AskNotifications
    BY <1>2 DEF AskNotifications, Use, RoomsTypeOK
  <1>3. ASSUME NEW i \in DOMAIN asks, ServeNotifications(i)
        PROVE  RoomsTypeOK'
    <2>1. asks' \in Seq({"none", "asked", "unread", "read"})
      <3> DEFINE S == {"none", "asked", "unread", "read"}
      <3>1. asks \in Seq(S)
        BY DEF RoomsTypeOK
      <3>2. unread \in S
        BY DEF RoomsTypeOK
      <3>3. asks' = [asks EXCEPT ![i] = unread]
        BY <1>3 DEF ServeNotifications
      <3> HIDE DEF S
      <3>4. asks' \in Seq(S)
        BY <3>1, <3>3, <3>2, ExceptSeq, LenProperties
      <3>. QED
        BY <3>4 DEF S
    <2>. QED
      BY <2>1, <1>3 DEF ServeNotifications, RoomsTypeOK
  <1>4. ASSUME NEW i \in DOMAIN asks, SendNotifications(i)
        PROVE  RoomsTypeOK'
    <2>1. asks' \in Seq({"none", "asked", "unread", "read"})
      BY <1>4 DEF SendNotifications, RoomsTypeOK
    <2>2. CASE asks[i] = "read"
      <3>1. marked' = FALSE /\ notified' = notified
        BY <2>2, <1>4 DEF SendNotifications, RemoveReadNotification
      <3>. QED
        BY <2>1, <3>1, <1>4 DEF SendNotifications, RoomsTypeOK
    <2>3. CASE asks[i] # "read" /\ marked
      <3>1. marked' = marked /\ notified' = notified
        BY <2>3, <1>4 DEF SendNotifications, SendOnce
      <3>. QED
        BY <2>1, <3>1, <1>4 DEF SendNotifications, RoomsTypeOK
    <2>4. CASE asks[i] # "read" /\ ~marked
      <3>1. marked' = TRUE /\ notified' = notified + 1
        BY <2>4, <1>4 DEF SendNotifications, SendOnce
      <3>. QED
        BY <2>1, <3>1, <1>4 DEF SendNotifications, RoomsTypeOK
    <2>. QED
      BY <2>2, <2>3, <2>4
  <1>. QED
    BY <1>1, <1>2, <1>3, <1>4 DEF Notify

\* Every step keeps the types; the lemmas above take them group by group.
LEMMA RoomsStepTypes == RoomsTypeOK /\ [RoomsNext]_roomsVars => RoomsTypeOK'
  <1> SUFFICES ASSUME RoomsTypeOK, [RoomsNext]_roomsVars PROVE RoomsTypeOK'
    OBVIOUS
  <1> USE DEF server, sync, roomsDb, spacesDb, client, notes, bounds
  <1>1. CASE Serve
    BY <1>1, SnapshotType DEF Serve, RoomsTypeOK
  <1>2. CASE HandleSync
    BY <1>2, HandleSyncTypes
  <1>3. CASE SetPower
    BY <1>3 DEF SetPower, Tell, Change, RoomsTypeOK
  <1>4. CASE RestartRooms
    <2>1. OnTheWay \subseteq Rooms
      BY DEF OnTheWay, RoomsTypeOK, Snapshots
    <2>. QED
      BY <2>1, <1>4 DEF RestartRooms, Use, RoomsTypeOK
  <1>5. CASE Notify
    BY <1>5, NotifyTypes
  <1>6. ASSUME NEW r \in Rooms, UserIn(r) \/ ServerIn(r) PROVE RoomsTypeOK'
    BY <1>6, UserInTypes, ServerInTypes
  <1>7. CASE UNCHANGED roomsVars
    BY <1>7 DEF roomsVars, RoomsTypeOK
  <1>. QED
    BY <1>1, <1>2, <1>3, <1>4, <1>5, <1>6, <1>7 DEF RoomsNext

\* What the proofs below distinguish: the steps of the rooms, and all others,
\* which at most give a room a parent event.
UserStep(r) ==
  \/ Ask(r, "join") /\ JoinRoom(r)
  \/ Ask(r, "leave")
  \/ Ask(r, "create") /\ CreateRoom(r)

Elsewhere(r) ==
  /\ UNCHANGED <<here, moved, since, answer, joined, invited, members, titles, info, levels, kids,
                 names, links, timelines, heard, calls, slots, may>>
  /\ \A q \in Rooms \ {r} : parent'[q] = parent[q]
  /\ parent'[r] = "never" => parent[r] = "never"

\* What the invariants tell apart of a step: the requests of the user, and all
\* that is elsewhere, are one case each.
LEMMA RoomsSteps ==
  ASSUME RoomsTypeOK, [RoomsNext]_roomsVars
  PROVE  \/ Serve \/ HandleSync \/ RestartRooms
         \/ \E r \in Rooms :
              \/ UserStep(r) \/ Accept(r) \/ Refuse(r) \/ LeaveUnknown(r)
              \/ JoinAnswered(r) \/ CreateAnswered(r) \/ LeaveAnswered(r) \/ RemoveRoom(r)
              \/ Invite(r) \/ Kick(r) \/ JoinElsewhere(r) \/ RedactTitle(r) \/ Elsewhere(r)
  <1> DEFINE Goal == \E r \in Rooms :
              \/ UserStep(r) \/ Accept(r) \/ Refuse(r) \/ LeaveUnknown(r)
              \/ JoinAnswered(r) \/ CreateAnswered(r) \/ LeaveAnswered(r) \/ RemoveRoom(r)
              \/ Invite(r) \/ Kick(r) \/ JoinElsewhere(r) \/ RedactTitle(r) \/ Elsewhere(r)
  <1> USE DEF server, sync, roomsDb, spacesDb, client, notes, bounds
  <1>1. ASSUME NEW r \in Rooms, UserIn(r) PROVE Goal
    BY <1>1 DEF UserIn, UserStep, JoinRoom, LeaveRoom, CreateRoom
  <1>2. CASE SetPower
    BY <1>2, RoomsOK DEF SetPower, Tell, Elsewhere
  <1>3. CASE Notify
    BY <1>3, RoomsOK DEF Notify, Event, AskNotifications, ServeNotifications, SendNotifications, Quiet,
       Elsewhere
  <1>4. CASE UNCHANGED roomsVars
    BY <1>4, RoomsOK DEF roomsVars, Elsewhere
  <1>5. ASSUME NEW r \in Rooms, ServerIn(r) PROVE Goal
    <2>1. ASSUME NEW to \in {"yes", "no"}, NameChild(r, to)
          PROVE  Goal
      BY <2>1 DEF NameChild, Tell, Elsewhere
    <2>2. ASSUME NEW to \in {"yes", "no"}, NameParent(r, to)
          PROVE  Goal
      <3>1. parent' = [parent EXCEPT ![r] = to] /\ to # "never" /\ DOMAIN parent = Rooms
        BY <2>2 DEF NameParent, RoomsTypeOK
      <3>2. Elsewhere(r)
        BY <3>1, <2>2 DEF NameParent, Tell, Elsewhere
      <3>. QED
        BY <3>2
    <2>3. ASSUME NEW title \in Titles, SetTitle(r, title)
          PROVE  Goal
      BY <2>3 DEF SetTitle, Tell, Elsewhere
    <2>4. ASSUME NEW u \in Others, MemberMoves(r, u)
          PROVE  Goal
      BY <2>4 DEF MemberMoves, Tell, Elsewhere
    <2>. QED
      BY <1>5, <2>1, <2>2, <2>3, <2>4 DEF ServerIn
  <1>. QED
    BY <1>1, <1>2, <1>3, <1>4, <1>5 DEF RoomsNext

\* What may happen in a behaviour stays.
LEMMA MayStays ==
  ASSUME RoomsTypeOK, [RoomsNext]_roomsVars
  PROVE  may' = may
  BY RoomsSteps DEF Serve, HandleSync, RestartRooms, UserStep, Ask, Accept, Refuse, LeaveUnknown,
     JoinAnswered, CreateAnswered, LeaveAnswered, RemoveRoom, Invite, Kick, JoinElsewhere, Moves,
     RedactTitle, Elsewhere, bounds

\* What LeaveUnknown and RedactTitle do to the last answer's snapshot.
LEMMA LeaveUnknownSince ==
  ASSUME RoomsTypeOK, NEW r \in Rooms, LeaveUnknown(r)
  PROVE  /\ since'.here = [since.here EXCEPT ![r] = "leave"]
         /\ since'.state = since.state /\ since'.parent = since.parent
         /\ since.here \in [Rooms -> Memberships] /\ here \in [Rooms -> Memberships]
         /\ here' = [here EXCEPT ![r] = "leave"]
         /\ answer' = answer /\ may' = may /\ (answer = NoAnswer \/ May("late"))
  BY DEF RoomsTypeOK, LeaveUnknown, Snapshots, bounds

\* A redaction is told to both sides at once.
LEMMA RedactTitleSince ==
  ASSUME RoomsTypeOK, NEW r \in Rooms, RedactTitle(r)
  PROVE  /\ since'.here = since.here /\ since'.parent = since.parent
         /\ answer = NoAnswer /\ answer' = NoAnswer
  BY DEF RoomsTypeOK, RedactTitle, Snapshots, sync

\* What Invite, Kick and JoinElsewhere share.
LEMMA MovesOfRoom ==
  ASSUME RoomsTypeOK, NEW r \in Rooms, Invite(r) \/ Kick(r) \/ JoinElsewhere(r)
  PROVE  /\ \E to \in {"invite", "leave", "join"} : here' = [here EXCEPT ![r] = to]
         /\ moved' = moved \cup {r}
         /\ May("late") \/ (calls[r] = "idle" /\ r \notin slots)
         /\ UNCHANGED <<state, child, parent, power, since, answer, joined, invited, members, titles,
                        info, levels, kids, names, links, timelines, heard, calls, slots, may>>
  BY DEF Invite, Kick, JoinElsewhere, Moves, sync, roomsDb, spacesDb, client

\* And what the server's answer to a call changes.
LEMMA AcceptedCall ==
  ASSUME RoomsTypeOK, NEW r \in Rooms, Accept(r)
  PROVE  /\ \/ calls[r] = "join" /\ here[r] = "invite" /\ here'[r] = "join" /\ calls'[r] = "joinOk"
            \/ calls[r] = "leave" /\ here[r] \in {"join", "invite"} /\ here'[r] = "leave"
               /\ calls'[r] = "leaveOk"
            \/ calls[r] = "create" /\ here[r] = "none" /\ here'[r] = "join" /\ calls'[r] = "createOk"
         /\ \A q \in Rooms \ {r} : here'[q] = here[q] /\ calls'[q] = calls[q]
         /\ moved' = moved \cup {r}
         /\ UNCHANGED <<state, child, parent, power, since, answer, joined, invited, members, titles,
                        info, levels, kids, names, links, timelines, heard, slots, may>>
  BY DEF Accept, RoomsTypeOK, sync, roomsDb, spacesDb, client, bounds

\* At the start the lists are those of the account.
LEMMA InitCore ==
  RoomsInit => ServerInv /\ AnswerInv /\ InviteInv /\ CallsInv /\ ListsInv /\ ShownInv /\ HeardInv
  <1> SUFFICES ASSUME RoomsInit
      PROVE ServerInv /\ AnswerInv /\ InviteInv /\ CallsInv /\ ListsInv /\ ShownInv /\ HeardInv
    OBVIOUS
  <1>1. /\ answer = NoAnswer /\ moved = {} /\ slots = {} /\ invited = {}
        /\ since.here = here /\ since.parent = parent
        /\ here \in [Rooms -> {"none", "join"}]
        /\ \A r \in Rooms : calls[r] = "idle"
        /\ joined = {r \in Rooms : here[r] = "join"} /\ timelines = joined /\ heard = joined
    BY DEF RoomsInit, Snapshot
  <1>2. OnTheWay = {} /\ Coming = since
    BY <1>1 DEF OnTheWay, Coming
  <1>3. ServerInv /\ AnswerInv
    BY <1>1, <1>2 DEF ServerInv, AnswerInv
  <1>4. InviteInv /\ CallsInv
    BY <1>1, <1>2 DEF InviteInv, CallsInv
  <1>5. ListsInv /\ ShownInv /\ HeardInv
    BY <1>1, <1>2 DEF ListsInv, ShownInv, HeardInv
  <1>. QED
    BY <1>3, <1>4, <1>5

\* What an answer has yet to tell: Serve puts it on its way, a restart takes it
\* back to moved, and no other step changes a membership without noting it.
LEMMA AccountStep ==
  ASSUME RoomsTypeOK, ServerInv, AnswerInv, [RoomsNext]_roomsVars
  PROVE  ServerInv' /\ AnswerInv'
  <1>may. may' = may
    BY MayStays
  <1> USE NoAnswerOK, <1>may DEF May
  <1> USE DEF server, sync, roomsDb, spacesDb, client, notes, bounds
  <1>1. CASE Serve
    <2>1. answer = NoAnswer /\ answer' = Snapshot /\ answer' # NoAnswer /\ moved' = {}
          /\ UNCHANGED <<here, parent, since>>
      BY <1>1, SnapshotType DEF Serve
    <2>2. Coming = since /\ Coming' = Snapshot
      BY <2>1 DEF Coming
    <2>3. Snapshot.here = here /\ Snapshot.moved = moved /\ Snapshot.parent = parent
      BY DEF Snapshot
    <2>4. ServerInv'
      BY <2>1, <2>2, <2>3 DEF ServerInv
    <2>5. AnswerInv'
      BY <2>1, <2>2, <2>3 DEF ServerInv, AnswerInv
    <2>. QED
      BY <2>4, <2>5
  <1>2. CASE HandleSync
    <2>1. /\ answer # NoAnswer /\ since' = answer /\ answer' = NoAnswer
          /\ UNCHANGED <<here, moved, parent>>
      BY <1>2 DEF HandleSync
    <2>2. Coming = answer /\ Coming' = answer
      BY <2>1 DEF Coming
    <2>. QED
      BY <2>1, <2>2 DEF ServerInv, AnswerInv
  <1>3. CASE RestartRooms
    <2>1. /\ answer' = NoAnswer /\ UNCHANGED <<here, parent, since>>
          /\ moved' = moved \cup OnTheWay
      BY <1>3 DEF RestartRooms
    <2>2. Coming' = since
      BY <2>1 DEF Coming
    <2>. QED
      BY <2>1, <2>2 DEF ServerInv, AnswerInv, Coming, OnTheWay
  <1>4. ASSUME NEW r \in Rooms, Accept(r) PROVE ServerInv' /\ AnswerInv'
    <2>1. Coming' = Coming /\ AnswerInv'
      BY <1>4, AcceptedCall DEF Coming, AnswerInv
    <2>. QED
      BY <2>1, <1>4, AcceptedCall DEF ServerInv
  <1>5. ASSUME NEW r \in Rooms, LeaveUnknown(r) PROVE ServerInv' /\ AnswerInv'
    <2>1. /\ May("late") \/ (Coming = since /\ Coming' = since')
          /\ Coming'.parent = Coming.parent
          /\ \A q \in Rooms : Coming'.here[q] = "none" => Coming.here[q] = "none"
          /\ \A q \in Rooms \ {r} : Coming'.here[q] = Coming.here[q]
      BY <1>5, LeaveUnknownSince DEF Coming
    <2>2. moved' = moved \ {r} /\ parent' = parent
      BY <1>5 DEF LeaveUnknown
    <2>3. AnswerInv'
      BY <1>5, LeaveUnknownSince DEF AnswerInv
    <2>4. here'[r] = "leave" /\ since'.here[r] = "leave" /\ since'.parent = since.parent
      BY <1>5, LeaveUnknownSince
    <2>5. \A q \in Rooms \ {r} : here'[q] = here[q] /\ since'.here[q] = since.here[q]
      BY <1>5, LeaveUnknownSince
    <2>. QED
      BY <2>1, <2>2, <2>3, <2>4, <2>5 DEF ServerInv
  <1>6. ASSUME NEW r \in Rooms, Invite(r) \/ Kick(r) \/ JoinElsewhere(r)
        PROVE  ServerInv' /\ AnswerInv'
    <2>1. PICK to \in {"invite", "leave", "join"} : here' = [here EXCEPT ![r] = to]
      BY <1>6, MovesOfRoom
    <2>2. moved' = moved \cup {r} /\ UNCHANGED <<parent, since, answer>>
      BY <1>6, MovesOfRoom
    <2>3. Coming' = Coming /\ AnswerInv'
      BY <2>2 DEF Coming, AnswerInv
    <2>. QED
      BY <2>1, <2>2, <2>3 DEF ServerInv, RoomsTypeOK
  <1>7. ASSUME NEW r \in Rooms, RedactTitle(r) PROVE ServerInv' /\ AnswerInv'
    <2>1. UNCHANGED <<here, moved, parent>>
      BY <1>7 DEF RedactTitle
    <2>. QED
      BY <2>1, <1>7, RedactTitleSince DEF ServerInv, AnswerInv, Coming
  <1>8. ASSUME NEW r \in Rooms, Elsewhere(r) PROVE ServerInv' /\ AnswerInv'
    <2>1. UNCHANGED <<here, moved, since, answer>>
      BY <1>8 DEF Elsewhere
    <2>2. Coming' = Coming /\ AnswerInv'
      BY <2>1 DEF Coming, AnswerInv
    <2>3. \A q \in Rooms : parent'[q] = "never" => parent[q] = "never"
      BY <1>8 DEF Elsewhere
    <2>. QED
      BY <2>1, <2>2, <2>3 DEF ServerInv
  <1>9. ASSUME NEW r \in Rooms,
               \/ UserStep(r) \/ Refuse(r) \/ JoinAnswered(r) \/ CreateAnswered(r)
               \/ LeaveAnswered(r) \/ RemoveRoom(r)
        PROVE  ServerInv' /\ AnswerInv'
    <2>1. UNCHANGED <<here, moved, parent, since, answer>>
      BY <1>9 DEF UserStep, Ask, Refuse, JoinAnswered, CreateAnswered, LeaveAnswered, RemoveRoom
    <2>. QED
      BY <2>1 DEF ServerInv, AnswerInv, Coming
  <1>. QED
    BY RoomsSteps, <1>1, <1>2, <1>3, <1>4, <1>5, <1>6, <1>7, <1>8, <1>9

\* Only who is not joined, as far as the answers tell, is invited.
LEMMA InviteStep ==
  ASSUME RoomsTypeOK, InviteInv, [RoomsNext]_roomsVars
  PROVE  InviteInv'
  <1> USE NoAnswerOK
  <1> USE DEF server, sync, roomsDb, spacesDb, client, notes, bounds
  <1>1. CASE Serve
    <2>1. answer = NoAnswer /\ answer' = Snapshot /\ answer' # NoAnswer
          /\ UNCHANGED <<here, since, may>>
      BY <1>1, SnapshotType DEF Serve
    <2>2. Coming = since /\ Coming' = Snapshot
      BY <2>1 DEF Coming
    <2>3. Snapshot.here = here
      BY DEF Snapshot
    <2>. QED
      BY <2>1, <2>2, <2>3 DEF InviteInv, Orderly
  <1>2. CASE HandleSync
    <2>1. /\ answer # NoAnswer /\ since' = answer /\ answer' = NoAnswer
          /\ UNCHANGED <<here, may>>
      BY <1>2 DEF HandleSync
    <2>2. Coming = answer /\ Coming' = answer
      BY <2>1 DEF Coming
    <2>. QED
      BY <2>1, <2>2 DEF InviteInv, Orderly
  <1>3. CASE RestartRooms
    <2>1. /\ answer' = NoAnswer /\ UNCHANGED <<here, since, may>>
      BY <1>3 DEF RestartRooms
    <2>2. Coming' = since
      BY <2>1 DEF Coming
    <2>. QED
      BY <2>1, <2>2 DEF InviteInv, Orderly
  <1>4. ASSUME NEW r \in Rooms, Accept(r) PROVE InviteInv'
    <2>1. Coming' = Coming /\ since' = since /\ may' = may
      BY <1>4, AcceptedCall DEF Coming
    <2>. QED
      BY <2>1, <1>4, AcceptedCall DEF InviteInv, Orderly
  <1>5. ASSUME NEW r \in Rooms, LeaveUnknown(r) PROVE InviteInv'
    <2>1. Orderly => Orderly' /\ Coming = since /\ Coming' = since'
      BY <1>5, LeaveUnknownSince DEF Coming, Orderly, May
    <2>2. Orderly' => Orderly
      BY <1>5, LeaveUnknownSince DEF Orderly
    <2>. QED
      BY <2>1, <2>2, <1>5, LeaveUnknownSince DEF InviteInv
  <1>6. ASSUME NEW r \in Rooms, Invite(r) PROVE InviteInv'
    <2>1. here' = [here EXCEPT ![r] = "invite"] /\ UNCHANGED <<since, answer, may>>
      BY <1>6 DEF Invite, Moves
    <2>2. Coming' = Coming
      BY <2>1 DEF Coming
    <2>3. May("reinvite") \/ (since.here[r] # "join" /\ Coming.here[r] # "join")
      <3>1. May("reinvite") \/ "join" \notin {since.here[r], Coming.here[r]}
        BY <1>6 DEF Invite, Coming
      <3>. QED
        BY <3>1
    <2>. QED
      BY <2>1, <2>2, <2>3 DEF InviteInv, Orderly, May, RoomsTypeOK
  <1>7. ASSUME NEW r \in Rooms, Kick(r) \/ JoinElsewhere(r) PROVE InviteInv'
    <2>1. PICK to \in {"leave", "join"} : here' = [here EXCEPT ![r] = to]
      BY <1>7 DEF Kick, JoinElsewhere, Moves
    <2>2. UNCHANGED <<since, answer, may>>
      BY <1>7 DEF Kick, JoinElsewhere, Moves
    <2>3. Coming' = Coming
      BY <2>2 DEF Coming
    <2>. QED
      BY <2>1, <2>2, <2>3 DEF InviteInv, Orderly, RoomsTypeOK
  <1>8. ASSUME NEW r \in Rooms, RedactTitle(r) PROVE InviteInv'
    <2>1. UNCHANGED <<here, may>>
      BY <1>8 DEF RedactTitle
    <2>. QED
      BY <2>1, <1>8, RedactTitleSince DEF InviteInv, Coming, Orderly
  <1>9. ASSUME NEW r \in Rooms,
               \/ UserStep(r) \/ Refuse(r) \/ JoinAnswered(r) \/ CreateAnswered(r)
               \/ LeaveAnswered(r) \/ RemoveRoom(r) \/ Elsewhere(r)
        PROVE  InviteInv'
    <2>1. UNCHANGED <<here, since, answer, may>>
      BY <1>9 DEF UserStep, Ask, Refuse, JoinAnswered, CreateAnswered, LeaveAnswered, RemoveRoom,
         Elsewhere
    <2>. QED
      BY <2>1 DEF InviteInv, Coming, Orderly
  <1>. QED
    BY RoomsSteps, <1>1, <1>2, <1>3, <1>4, <1>5, <1>6, <1>7, <1>8, <1>9

\* A call is answered by the step that has its effect; unless it may be late,
\* nothing else happens to the room until the answer and its slot are handled.
LEMMA CallsStep ==
  ASSUME RoomsTypeOK, CallsInv, [RoomsNext]_roomsVars
  PROVE  CallsInv'
  <1> USE NoAnswerOK
  <1> USE DEF server, sync, roomsDb, spacesDb, client, notes, bounds
  <1>1. CASE Serve
    <2>1. answer = NoAnswer /\ answer' = Snapshot /\ answer' # NoAnswer /\ moved' = {}
          /\ UNCHANGED <<here, calls, slots, may>>
      BY <1>1, SnapshotType DEF Serve
    <2>2. OnTheWay = {} /\ OnTheWay' = moved
      BY <2>1 DEF OnTheWay, Snapshot
    <2>. QED
      BY <2>1, <2>2 DEF CallsInv, May
  <1>2. CASE HandleSync
    <2>1. answer' = NoAnswer /\ UNCHANGED <<here, moved, calls, slots, may>>
      BY <1>2 DEF HandleSync
    <2>2. OnTheWay' = {}
      BY <2>1 DEF OnTheWay
    <2>. QED
      BY <2>1, <2>2 DEF CallsInv, May
  <1>3. CASE RestartRooms
    <2>1. slots' = {} /\ \A r \in Rooms : calls'[r] = "idle"
      BY <1>3 DEF RestartRooms
    <2>. QED
      BY <2>1 DEF CallsInv
  <1>4. ASSUME NEW r \in Rooms, Accept(r) PROVE CallsInv'
    <2>1. OnTheWay' = OnTheWay /\ may' = may /\ slots' = slots
      BY <1>4, AcceptedCall DEF OnTheWay
    <2>2. May("late") \/ r \notin slots
      BY <1>4, AcceptedCall DEF CallsInv
    <2>. QED
      BY <2>1, <2>2, <1>4, AcceptedCall DEF CallsInv, May
  <1>5. ASSUME NEW r \in Rooms, LeaveUnknown(r) PROVE CallsInv'
    <2>1. /\ calls' = [calls EXCEPT ![r] = "idle"] /\ moved' = moved \ {r}
          /\ UNCHANGED <<slots, may>>
      BY <1>5 DEF LeaveUnknown
    <2>2. OnTheWay' = OnTheWay
      BY <1>5, LeaveUnknownSince DEF OnTheWay
    <2>3. calls'[r] = "idle" /\ \A q \in Rooms \ {r} : calls'[q] = calls[q]
      BY <2>1 DEF RoomsTypeOK
    <2>4. here'[r] = "leave" /\ \A q \in Rooms \ {r} : here'[q] = here[q]
      BY <1>5, LeaveUnknownSince
    <2>. QED
      BY <2>1, <2>2, <2>3, <2>4 DEF CallsInv, May
  <1>6. ASSUME NEW r \in Rooms, Invite(r) \/ Kick(r) \/ JoinElsewhere(r)
        PROVE  CallsInv'
    <2>1. PICK to \in {"invite", "leave", "join"} : here' = [here EXCEPT ![r] = to]
      BY <1>6, MovesOfRoom
    <2>2. moved' = moved \cup {r} /\ UNCHANGED <<answer, calls, slots, may>>
          /\ (May("late") \/ (calls[r] = "idle" /\ r \notin slots))
      BY <1>6, MovesOfRoom
    <2>3. OnTheWay' = OnTheWay
      BY <2>2 DEF OnTheWay
    <2>4. \A q \in Rooms \ {r} : here'[q] = here[q]
      BY <2>1 DEF RoomsTypeOK
    <2>. QED
      BY <2>2, <2>3, <2>4 DEF CallsInv, May
  <1>7. ASSUME NEW r \in Rooms, UserStep(r) PROVE CallsInv'
    <2>1. PICK what \in {"join", "leave", "create"} : calls' = [calls EXCEPT ![r] = what]
      BY <1>7 DEF UserStep, Ask
    <2>2. UNCHANGED <<here, moved, answer, slots, may>>
      BY <1>7 DEF UserStep, Ask
    <2>3. OnTheWay' = OnTheWay
      BY <2>2 DEF OnTheWay
    <2>4. May("late") \/ calls'[r] # "join" \/ r \notin moved \cup OnTheWay
      BY <1>7 DEF UserStep, Ask, JoinRoom, Current, RoomsTypeOK
    <2>5. calls'[r] = what /\ \A q \in Rooms \ {r} : calls'[q] = calls[q]
      BY <2>1 DEF RoomsTypeOK
    <2>. QED
      BY <2>2, <2>3, <2>4, <2>5 DEF CallsInv, May
  <1>8. ASSUME NEW r \in Rooms,
               Refuse(r) \/ JoinAnswered(r) \/ CreateAnswered(r) \/ LeaveAnswered(r)
        PROVE  CallsInv'
    <2>1. /\ calls' = [calls EXCEPT ![r] = "idle"] /\ UNCHANGED <<here, moved, answer, may>>
          /\ slots' = slots \/ (slots' = slots \cup {r} /\ calls[r] = "leaveOk")
      BY <1>8 DEF Refuse, JoinAnswered, CreateAnswered, LeaveAnswered
    <2>2. OnTheWay' = OnTheWay
      BY <2>1 DEF OnTheWay
    <2>3. calls'[r] = "idle" /\ \A q \in Rooms \ {r} : calls'[q] = calls[q]
      BY <2>1 DEF RoomsTypeOK
    <2>. QED
      BY <2>1, <2>2, <2>3 DEF CallsInv, May
  <1>9. ASSUME NEW r \in Rooms, RemoveRoom(r) \/ RedactTitle(r) \/ Elsewhere(r)
        PROVE  CallsInv'
    <2>1. UNCHANGED <<here, moved, answer, calls, may>> /\ slots' \subseteq slots
      BY <1>9, RedactTitleSince DEF RemoveRoom, RedactTitle, Elsewhere
    <2>2. OnTheWay' = OnTheWay
      BY <2>1 DEF OnTheWay
    <2>. QED
      BY <2>1, <2>2 DEF CallsInv, May
  <1>. QED
    BY RoomsSteps, <1>1, <1>2, <1>3, <1>4, <1>5, <1>6, <1>7, <1>8, <1>9

\* What is under way when the program ends comes with the next answer.
LEMMA PendingRooms ==
  ASSUME RoomsTypeOK
  PROVE  /\ Serve => moved' \cup OnTheWay' = moved \cup OnTheWay
         /\ RestartRooms => moved' \cup OnTheWay' = moved \cup OnTheWay
         /\ HandleSync => moved' \cup OnTheWay' = moved
         /\ HandleSync => OnTheWay = answer.moved
  <1>1. ASSUME Serve PROVE moved' \cup OnTheWay' = moved \cup OnTheWay
    BY <1>1, SnapshotType, NoAnswerOK DEF Serve, OnTheWay, Snapshot
  <1>2. ASSUME RestartRooms PROVE moved' \cup OnTheWay' = moved \cup OnTheWay
    BY <1>2 DEF RestartRooms, OnTheWay
  <1>3. ASSUME HandleSync PROVE moved' \cup OnTheWay' = moved /\ OnTheWay = answer.moved
    BY <1>3 DEF HandleSync, OnTheWay, server
  <1>. QED
    BY <1>1, <1>2, <1>3

\* A room that is not under way is as the last answer said.
LEMMA SettledRoom ==
  ASSUME ServerInv, AnswerInv, ~May("late"), NEW r \in Rooms, r \notin moved \cup OnTheWay
  PROVE  here[r] = since.here[r]
  BY DEF ServerInv, AnswerInv, OnTheWay, Coming

\* The sections of a sync answer, by what it says of a room.
LEMMA Sections ==
  ASSUME answer # NoAnswer, AnswerInv, NEW r \in Rooms
  PROVE  /\ r \in Joins => answer.here[r] = "join"
         /\ answer.here[r] = "join" /\ r \in answer.moved => r \in Joins
         /\ r \in Invites <=> r \in answer.moved /\ answer.here[r] = "invite"
         /\ r \in Leaves <=> r \in answer.moved /\ answer.here[r] = "leave"
         /\ r \notin answer.moved /\ ~May("late") => answer.here[r] = since.here[r]
         /\ r \in answer.moved /\ ~May("late") => answer.here[r] # "none"
  <1>1. r \notin answer.moved /\ ~May("late") => answer.here[r] = since.here[r]
    BY DEF AnswerInv
  <1>2. r \in answer.moved /\ ~May("late") => answer.here[r] # "none"
    BY DEF AnswerInv
  <1>3. answer.here[r] = "join" /\ r \in answer.moved => r \in Joins
    BY DEF Joins, Full
  <1>4. r \in Joins => answer.here[r] = "join"
    BY DEF Joins
  <1>5. r \in Invites <=> r \in answer.moved /\ answer.here[r] = "invite"
    BY DEF Invites
  <1>6. r \in Leaves <=> r \in answer.moved /\ answer.here[r] = "leave"
    BY DEF Leaves
  <1>. QED
    BY <1>1, <1>2, <1>3, <1>4, <1>5, <1>6

\* What a sync answer makes of the lists.
LEMMA ListsAfterSync ==
  ASSUME HandleSync
  PROVE  /\ joined' = (joined \cup Joins) \ Leaves
         /\ invited' = ((invited \ Joins) \cup Invites) \ Leaves
         /\ timelines' = (timelines \cup Joins \cup Invites) \ Leaves
         /\ heard' = heard \ Leaves
         /\ answer # NoAnswer /\ since' = answer /\ answer' = NoAnswer
         /\ UNCHANGED <<here, moved, calls, slots, may>>
  BY DEF HandleSync, SaveRooms, RemoveLeftRooms, SaveInvites, RemoveInvites, SyncTimelines, server,
     bounds

\* HandleSync brings the lists to the answer; a callback that takes a room off a
\* list does so for a room whose change is under way.
LEMMA ListsStep ==
  ASSUME RoomsTypeOK, ServerInv, AnswerInv, InviteInv, CallsInv, ListsInv, [RoomsNext]_roomsVars
  PROVE  ListsInv'
  <1> DEFINE Settled(r) == r \notin moved \cup OnTheWay
  <1> DEFINE Listed(r) ==
        /\ r \in joined' => since'.here[r] = "join"
        /\ since'.here[r] = "join" => r \in joined' \cup moved' \cup OnTheWay'
        /\ r \in invited' => since'.here[r] = "invite"
        /\ since'.here[r] = "invite" => r \in invited' \cup moved' \cup OnTheWay'
  <1> SUFFICES ASSUME Orderly, may' = may
               PROVE  \A r \in Rooms : Listed(r)
    <2>1. may' = may
      BY MayStays
    <2>. QED
      BY <2>1 DEF ListsInv, Orderly
  <1>1. \A r \in Rooms :
          /\ r \in joined => since.here[r] = "join"
          /\ since.here[r] = "join" => r \in joined \cup moved \cup OnTheWay
          /\ r \in invited => since.here[r] = "invite"
          /\ since.here[r] = "invite" => r \in invited \cup moved \cup OnTheWay
    BY DEF ListsInv
  <1>c. \A r \in Rooms :
          /\ r \in slots => here[r] = "leave"
          /\ calls[r] = "joinOk" => here[r] = "join"
    BY DEF CallsInv, Orderly, May
  <1>t. ~May("late")
    BY DEF Orderly, May
  <1>2. CASE Serve \/ RestartRooms
    <2>1. moved' \cup OnTheWay' = moved \cup OnTheWay
      BY <1>2, PendingRooms
    <2>2. UNCHANGED <<since, joined, invited>>
      BY <1>2 DEF Serve, RestartRooms, roomsDb
    <2>. QED
      BY <1>1, <2>1, <2>2
  <1>3. CASE HandleSync
    <2> SUFFICES ASSUME NEW r \in Rooms PROVE Listed(r)
      OBVIOUS
    <2>1. OnTheWay = answer.moved /\ moved' \cup OnTheWay' = moved
      BY <1>3, PendingRooms
    <2>2. ~(since.here[r] = "join" /\ answer.here[r] = "invite")
      BY <1>3, ListsAfterSync DEF InviteInv, Orderly, May, Coming
    <2>3. answer.here[r] = "none" => since.here[r] = "none"
      BY <1>3, <1>t, ListsAfterSync DEF AnswerInv
    <2>4. answer.here[r] \in Memberships /\ since.here[r] \in Memberships
      BY <1>3, ListsAfterSync DEF RoomsTypeOK, Snapshots
    <2>5. CASE r \in answer.moved
      BY <2>1, <2>2, <2>3, <2>4, <2>5, <1>1, <1>3, <1>t, ListsAfterSync, Sections DEF Memberships
    <2>6. CASE r \notin answer.moved
      BY <2>1, <2>6, <1>1, <1>3, <1>t, ListsAfterSync, Sections
    <2>. QED
      BY <2>5, <2>6
  <1>4. ASSUME NEW r \in Rooms, RemoveRoom(r) PROVE \A q \in Rooms : Listed(q)
    <2>1. /\ r \in slots /\ joined' = joined \ {r} /\ invited' = invited \ {r}
          /\ UNCHANGED <<since, moved, answer>>
      BY <1>4 DEF RemoveRoom, RemoveInvites, server, sync
    <2>2. OnTheWay' = OnTheWay
      BY <2>1 DEF OnTheWay
    <2>3. Settled(r) => since.here[r] = "leave"
      BY <2>1, <1>c, <1>t, SettledRoom
    <2>. QED
      BY <1>1, <2>1, <2>2, <2>3
  <1>5. ASSUME NEW r \in Rooms, JoinAnswered(r) PROVE \A q \in Rooms : Listed(q)
    <2>1. /\ calls[r] = "joinOk" /\ joined' = joined /\ invited' = invited \ {r}
          /\ UNCHANGED <<since, moved, answer>>
      BY <1>5 DEF JoinAnswered, RemoveInvites, server, sync
    <2>2. OnTheWay' = OnTheWay
      BY <2>1 DEF OnTheWay
    <2>3. Settled(r) => since.here[r] = "join"
      BY <2>1, <1>c, <1>t, SettledRoom
    <2>. QED
      BY <1>1, <2>1, <2>2, <2>3
  <1>6. ASSUME NEW r \in Rooms, LeaveUnknown(r) PROVE \A q \in Rooms : Listed(q)
    <2>1. /\ joined' = joined \ {r} /\ invited' = invited \ {r} /\ moved' = moved \ {r}
      BY <1>6 DEF LeaveUnknown, RemoveInvites
    <2>2. since'.here[r] = "leave" /\ \A q \in Rooms \ {r} : since'.here[q] = since.here[q]
      BY <1>6, LeaveUnknownSince
    <2>3. OnTheWay = {} /\ OnTheWay' = {}
      BY <1>6, <1>t, LeaveUnknownSince DEF OnTheWay
    <2>. QED
      BY <1>1, <2>1, <2>2, <2>3
  <1>7. ASSUME NEW r \in Rooms, Accept(r) \/ Invite(r) \/ Kick(r) \/ JoinElsewhere(r)
        PROVE  \A q \in Rooms : Listed(q)
    <2>1. moved' = moved \cup {r} /\ UNCHANGED <<since, answer, joined, invited>>
      BY <1>7, AcceptedCall, MovesOfRoom
    <2>2. OnTheWay' = OnTheWay
      BY <2>1 DEF OnTheWay
    <2>. QED
      BY <1>1, <2>1, <2>2
  <1>8. ASSUME NEW r \in Rooms, RedactTitle(r) PROVE \A q \in Rooms : Listed(q)
    <2>1. UNCHANGED <<moved, joined, invited>> /\ since'.here = since.here
      BY <1>8, RedactTitleSince DEF RedactTitle, roomsDb
    <2>2. OnTheWay' = OnTheWay
      BY <1>8, RedactTitleSince DEF OnTheWay
    <2>. QED
      BY <1>1, <2>1, <2>2
  <1>9. ASSUME NEW r \in Rooms,
               UserStep(r) \/ Refuse(r) \/ CreateAnswered(r) \/ LeaveAnswered(r) \/ Elsewhere(r)
        PROVE  \A q \in Rooms : Listed(q)
    <2>1. UNCHANGED <<since, answer, moved, joined, invited>>
      BY <1>9 DEF UserStep, Ask, Refuse, CreateAnswered, LeaveAnswered, Elsewhere, server, sync, roomsDb
    <2>2. OnTheWay' = OnTheWay
      BY <2>1 DEF OnTheWay
    <2>. QED
      BY <1>1, <2>1, <2>2
  <1>. QED
    BY RoomsSteps, <1>2, <1>3, <1>4, <1>5, <1>6, <1>7, <1>8, <1>9

\* syncTimelines makes and removes timelines with the rooms of an answer.
LEMMA ShownStep ==
  ASSUME RoomsTypeOK, ServerInv, AnswerInv, InviteInv, CallsInv, ListsInv, ShownInv,
         [RoomsNext]_roomsVars
  PROVE  ShownInv'
  <1> DEFINE Listed == joined \cup invited \cup moved \cup OnTheWay
             Kept  == Orderly /\ ~May("gone") /\ may' = may
  <1> SUFFICES joined' \subseteq timelines' /\ (Kept => timelines' \subseteq Listed')
    <2>1. may' = may
      BY MayStays
    <2>. QED
      BY <2>1 DEF ShownInv, Orderly, May
  <1>1. joined \subseteq timelines /\ (Kept => timelines \subseteq Listed)
    BY DEF ShownInv
  <1>l. Kept => \A r \in Rooms : /\ r \in joined => since.here[r] = "join"
                                 /\ r \in invited => since.here[r] = "invite"
    BY DEF ListsInv
  <1>c. Kept => \A r \in Rooms : /\ r \in slots => here[r] = "leave"
                                 /\ calls[r] = "joinOk" => here[r] = "join"
    BY DEF CallsInv, Orderly, May
  <1>t. Kept => ~May("late")
    BY DEF Orderly, May
  <1>2. CASE Serve
    <2>1. moved' \cup OnTheWay' = moved \cup OnTheWay
      BY <1>2, PendingRooms
    <2>2. UNCHANGED <<timelines, joined, invited>>
      BY <1>2 DEF Serve, roomsDb, client
    <2>. QED
      BY <1>1, <2>1, <2>2
  <1>3. CASE HandleSync
    <2>1. OnTheWay = answer.moved /\ moved' \cup OnTheWay' = moved
      BY <1>3, PendingRooms
    <2>2. joined' \subseteq timelines'
      BY <1>1, <1>3, ListsAfterSync
    <2>3. ASSUME Kept, NEW r \in timelines' PROVE r \in Listed'
      <3>1. r \in Rooms
        BY <1>3, ListsAfterSync DEF RoomsTypeOK, Snapshots, Joins, Invites
      <3>2. answer.here[r] \in Memberships
        BY <3>1, <1>3, ListsAfterSync DEF RoomsTypeOK, Snapshots
      <3>. QED
        BY <1>1, <2>1, <2>3, <3>1, <3>2, <1>3, <1>t, ListsAfterSync, Sections DEF Memberships
    <2>. QED
      BY <2>2, <2>3
  <1>4. CASE RestartRooms
    BY <1>4 DEF RestartRooms, roomsDb
  <1>5. ASSUME NEW r \in Rooms, RemoveRoom(r)
        PROVE  joined' \subseteq timelines' /\ (Kept => timelines' \subseteq Listed')
    <2>1. /\ r \in slots /\ joined' = joined \ {r} /\ invited' = invited \ {r}
          /\ UNCHANGED <<moved, answer, timelines>>
      BY <1>5 DEF RemoveRoom, RemoveInvites, server, sync, client
    <2>2. OnTheWay' = OnTheWay
      BY <2>1 DEF OnTheWay
    <2>3. Kept /\ r \notin moved \cup OnTheWay => since.here[r] = "leave"
      BY <2>1, <1>c, <1>t, SettledRoom
    <2>. QED
      BY <1>1, <1>l, <2>1, <2>2, <2>3
  <1>6. ASSUME NEW r \in Rooms, JoinAnswered(r)
        PROVE  joined' \subseteq timelines' /\ (Kept => timelines' \subseteq Listed')
    <2>1. /\ calls[r] = "joinOk" /\ joined' = joined /\ invited' = invited \ {r}
          /\ UNCHANGED <<moved, answer, timelines>>
      BY <1>6 DEF JoinAnswered, RemoveInvites, server, sync, client
    <2>2. OnTheWay' = OnTheWay
      BY <2>1 DEF OnTheWay
    <2>3. Kept /\ r \notin moved \cup OnTheWay => since.here[r] = "join"
      BY <2>1, <1>c, <1>t, SettledRoom
    <2>. QED
      BY <1>1, <1>l, <2>1, <2>2, <2>3
  <1>7. ASSUME NEW r \in Rooms, LeaveUnknown(r)
        PROVE  joined' \subseteq timelines' /\ (Kept => timelines' \subseteq Listed')
    BY <1>1, <1>7 DEF LeaveUnknown, client
  <1>8. ASSUME NEW r \in Rooms, Accept(r) \/ Invite(r) \/ Kick(r) \/ JoinElsewhere(r)
        PROVE  joined' \subseteq timelines' /\ (Kept => timelines' \subseteq Listed')
    <2>1. moved' = moved \cup {r} /\ UNCHANGED <<answer, joined, invited, timelines>>
      BY <1>8, AcceptedCall, MovesOfRoom
    <2>2. OnTheWay' = OnTheWay
      BY <2>1 DEF OnTheWay
    <2>. QED
      BY <1>1, <2>1, <2>2
  <1>9. ASSUME NEW r \in Rooms,
               \/ UserStep(r) \/ Refuse(r) \/ CreateAnswered(r) \/ LeaveAnswered(r) \/ Elsewhere(r)
               \/ RedactTitle(r)
        PROVE  joined' \subseteq timelines' /\ (Kept => timelines' \subseteq Listed')
    <2>1. UNCHANGED <<moved, joined, invited, timelines, answer>>
      BY <1>9 DEF UserStep, Ask, Refuse, CreateAnswered, LeaveAnswered, Elsewhere, RedactTitle, server,
         sync, roomsDb, client
    <2>2. OnTheWay' = OnTheWay
      BY <2>1 DEF OnTheWay
    <2>. QED
      BY <1>1, <2>1, <2>2
  <1>. QED
    BY RoomsSteps, <1>2, <1>3, <1>4, <1>5, <1>6, <1>7, <1>8, <1>9

\* A join is of an invite with a timeline, which the callback connects.
LEMMA HeardStep ==
  ASSUME RoomsTypeOK, AnswerInv, CallsInv, HeardInv, [RoomsNext]_roomsVars
  PROVE  HeardInv'
  <1> DEFINE Heard(r) ==
        /\ here[r] = "join" => r \in heard \/ calls[r] = "joinOk"
        /\ r \in OnTheWay /\ answer.here[r] = "leave" => here[r] # "join"
        /\ calls[r] \in {"join", "joinOk"} => r \in timelines
        /\ calls[r] \notin {"create", "createOk"}
  <1> SUFFICES ASSUME HeardEnv, may' = may
               PROVE  invited' \subseteq timelines' /\ \A r \in Rooms : Heard(r)'
    <2>1. may' = may
      BY MayStays
    <2>. QED
      BY <2>1 DEF HeardInv, HeardEnv
  <1>1. invited \subseteq timelines /\ \A r \in Rooms : Heard(r)
    BY DEF HeardInv
  <1>e. ~May("late") /\ ~May("elsewhere") /\ ~May("create") /\ ~May("restart")
    BY DEF HeardEnv, May
  <1>c. \A r \in Rooms :
          /\ calls[r] = "joinOk" => here[r] = "join"
          /\ calls[r] = "join" => r \notin moved \cup OnTheWay
    BY <1>e DEF CallsInv
  <1>2. CASE Serve
    <2>1. answer' = Snapshot /\ answer' # NoAnswer
          /\ UNCHANGED <<here, heard, calls, timelines, invited>>
      BY <1>2, SnapshotType, NoAnswerOK DEF Serve, roomsDb, client
    <2>2. answer'.here = here
      BY <2>1 DEF Snapshot
    <2>. QED
      BY <1>1, <2>1, <2>2
  <1>3. CASE HandleSync
    <2>1. OnTheWay = answer.moved /\ OnTheWay' = {}
      BY <1>3, PendingRooms, ListsAfterSync DEF OnTheWay
    <2>2. invited' \subseteq timelines'
      BY <1>1, <1>3, ListsAfterSync
    <2>3. ASSUME NEW r \in Rooms PROVE Heard(r)'
      <3>1. r \in Leaves => here[r] # "join" /\ calls[r] # "join"
        BY <1>1, <1>c, <1>3, <2>1, ListsAfterSync, Sections
      <3>. QED
        BY <1>1, <1>c, <1>3, <2>1, <3>1, ListsAfterSync
    <2>. QED
      BY <2>2, <2>3
  <1>4. CASE RestartRooms
    BY <1>e, <1>4 DEF RestartRooms
  <1>5. ASSUME NEW r \in Rooms, Accept(r) PROVE invited' \subseteq timelines' /\ \A q \in Rooms : Heard(q)'
    <2>1. UNCHANGED <<answer, heard, timelines, invited>> /\ OnTheWay' = OnTheWay
      BY <1>5, AcceptedCall DEF OnTheWay
    <2>2. Heard(r)'
      BY <1>1, <1>c, <1>5, <2>1, AcceptedCall
    <2>3. ASSUME NEW q \in Rooms \ {r} PROVE Heard(q)'
      BY <1>1, <1>5, <2>1, AcceptedCall
    <2>. QED
      BY <1>1, <2>1, <2>2, <2>3
  <1>6. ASSUME NEW r \in Rooms, LeaveUnknown(r)
        PROVE  invited' \subseteq timelines' /\ \A q \in Rooms : Heard(q)'
    <2>1. /\ calls' = [calls EXCEPT ![r] = "idle"] /\ UNCHANGED <<heard, timelines>>
          /\ invited' \subseteq invited
      BY <1>6 DEF LeaveUnknown, client, RemoveInvites
    <2>2. calls'[r] = "idle" /\ \A q \in Rooms \ {r} : calls'[q] = calls[q]
      BY <2>1 DEF RoomsTypeOK
    <2>3. here'[r] = "leave" /\ (\A q \in Rooms \ {r} : here'[q] = here[q]) /\ OnTheWay' = {}
      BY <1>6, <1>e, LeaveUnknownSince DEF OnTheWay, May
    <2>. QED
      BY <1>1, <2>1, <2>2, <2>3
  <1>7. ASSUME NEW r \in Rooms, Invite(r) \/ Kick(r)
        PROVE  invited' \subseteq timelines' /\ \A q \in Rooms : Heard(q)'
    <2>1. PICK to \in {"invite", "leave"} : here' = [here EXCEPT ![r] = to]
      BY <1>7 DEF Invite, Kick, Moves
    <2>2. UNCHANGED <<answer, heard, calls, timelines, invited>>
      BY <1>7, MovesOfRoom
    <2>3. OnTheWay' = OnTheWay
      BY <2>2 DEF OnTheWay
    <2>4. here'[r] = to /\ \A q \in Rooms \ {r} : here'[q] = here[q]
      BY <2>1 DEF RoomsTypeOK
    <2>. QED
      BY <1>1, <2>2, <2>3, <2>4
  <1>8. ASSUME NEW r \in Rooms, UserStep(r)
        PROVE  invited' \subseteq timelines' /\ \A q \in Rooms : Heard(q)'
    <2>1. PICK what \in {"join", "leave"} : /\ calls' = [calls EXCEPT ![r] = what]
                                            /\ what = "join" => r \in invited
      BY <1>e, <1>8 DEF UserStep, Ask, JoinRoom, CreateRoom
    <2>2. UNCHANGED <<here, answer, heard, timelines, invited>> /\ calls[r] = "idle"
      BY <1>8 DEF UserStep, Ask, server, sync, roomsDb, client
    <2>3. OnTheWay' = OnTheWay
      BY <2>2 DEF OnTheWay
    <2>4. calls'[r] = what /\ \A q \in Rooms \ {r} : calls'[q] = calls[q]
      BY <2>1 DEF RoomsTypeOK
    <2>. QED
      BY <1>1, <2>1, <2>2, <2>3, <2>4
  <1>9. ASSUME NEW r \in Rooms, Refuse(r) \/ LeaveAnswered(r) \/ JoinAnswered(r) \/ CreateAnswered(r)
        PROVE  invited' \subseteq timelines' /\ \A q \in Rooms : Heard(q)'
    <2>1. /\ calls' = [calls EXCEPT ![r] = "idle"] /\ UNCHANGED <<here, answer, timelines>>
          /\ invited' \subseteq invited /\ heard \subseteq heard'
          /\ calls[r] = "joinOk" /\ r \in timelines => r \in heard'
      BY <1>9 DEF Refuse, LeaveAnswered, JoinAnswered, CreateAnswered, RemoveInvites, server, sync,
         roomsDb, client
    <2>2. OnTheWay' = OnTheWay
      BY <2>1 DEF OnTheWay
    <2>3. calls'[r] = "idle" /\ \A q \in Rooms \ {r} : calls'[q] = calls[q]
      BY <2>1 DEF RoomsTypeOK
    <2>. QED
      BY <1>1, <2>1, <2>2, <2>3
  <1>10. ASSUME NEW r \in Rooms, RemoveRoom(r) \/ RedactTitle(r) \/ Elsewhere(r)
        PROVE  invited' \subseteq timelines' /\ \A q \in Rooms : Heard(q)'
    <2>1. UNCHANGED <<here, answer, heard, calls, timelines>> /\ invited' \subseteq invited
      BY <1>10 DEF RemoveRoom, RedactTitle, Elsewhere, RemoveInvites, server, sync, roomsDb, client
    <2>2. OnTheWay' = OnTheWay
      BY <2>1 DEF OnTheWay
    <2>. QED
      BY <1>1, <2>1, <2>2
  <1>11. ASSUME NEW r \in Rooms PROVE ~JoinElsewhere(r)
    BY <1>e DEF JoinElsewhere
  <1>. QED
    BY RoomsSteps, <1>2, <1>3, <1>4, <1>5, <1>6, <1>7, <1>8, <1>9, <1>10, <1>11

\* Name, members and picture of the rooms a sync answer brings.
LEMMA InfoAfterSync ==
  ASSUME RoomsTypeOK, AnswerInv, InfoInv, ~May("late"), ~May("redact"), HandleSync,
         NEW r \in Rooms, answer.here[r] = "join"
  PROVE  /\ members'[r] = {Me} \cup answer.state[r].people
         /\ titles'[r] = answer.state[r].title
         /\ info'[r] = RoomInfo(titles'[r], members'[r])
  <1>1. r \notin Leaves /\ (r \in answer.moved => r \in Joins)
        /\ (r \notin answer.moved => since.here[r] = "join")
    BY Sections DEF HandleSync
  <1>2. /\ members'[r] = IF r \in Joins THEN MembersOf(r) ELSE members[r]
        /\ titles'[r] = IF r \in Joins /\ (Full(r) \/ answer.state[r].title # since.state[r].title)
                          THEN answer.state[r].title ELSE titles[r]
        /\ info'[r] = IF r \in Joins THEN RoomInfo(titles'[r], members'[r]) ELSE info[r]
    BY <1>1 DEF HandleSync, SaveInfo, SaveMembers, SaveTitles
  <1>3. CASE r \in answer.moved
    BY <1>1, <1>2, <1>3 DEF MembersOf, Full
  <1>4. CASE r \notin answer.moved
    <2>1. /\ members[r] = {Me} \cup since.state[r].people
          /\ titles[r] = since.state[r].title
          /\ info[r] = RoomInfo(titles[r], members[r])
      BY <1>1, <1>4 DEF InfoInv, May
    <2>2. CASE r \in Joins
      <3>1. since.state[r].people \subseteq Others /\ Me \notin Others
        BY RoomsOK DEF RoomsTypeOK, Snapshots, Me
      <3>2. MembersOf(r) = (members[r] \cup (answer.state[r].people \ since.state[r].people))
                             \ (since.state[r].people \ answer.state[r].people)
        BY <1>4 DEF MembersOf, Full
      <3>3. MembersOf(r) = {Me} \cup answer.state[r].people
        BY <2>1, <3>1, <3>2
      <3>. QED
        BY <1>2, <1>4, <2>1, <2>2, <3>3 DEF Full
    <2>3. CASE r \notin Joins
      <3>1. answer.state[r] = since.state[r]
        BY <2>3 DEF Joins
      <3>. QED
        BY <1>2, <2>1, <2>3, <3>1
    <2>. QED
      BY <2>2, <2>3
  <1>. QED
    BY <1>3, <1>4

\* HandleSync makes the RoomInfo of what it has just stored; only a redaction
\* changes what was told.
LEMMA InfoStep ==
  ASSUME RoomsTypeOK, AnswerInv, InfoInv, [RoomsNext]_roomsVars
  PROVE  InfoInv'
  <1> DEFINE Kept == /\ UNCHANGED <<members, titles, info, may>>
                     /\ since'.state = since.state /\ since'.here = since.here
  <1>1. Kept => InfoInv'
    BY DEF InfoInv, May
  <1>2. CASE Serve \/ RestartRooms
    BY <1>1, <1>2 DEF Serve, RestartRooms, roomsDb, bounds
  <1>3. CASE HandleSync
    <2>1. since' = answer /\ may' = may
      BY <1>3 DEF HandleSync, bounds
    <2>2. ASSUME ~May("late"), ~May("redact"), NEW r \in Rooms, answer.here[r] = "join"
          PROVE  /\ members'[r] = {Me} \cup since'.state[r].people
                 /\ titles'[r] = since'.state[r].title
                 /\ info'[r] = RoomInfo(titles'[r], members'[r])
      BY <1>3, <2>1, <2>2, InfoAfterSync
    <2>. QED
      BY <2>1, <2>2 DEF InfoInv, May
  <1>4. ASSUME NEW r \in Rooms, LeaveUnknown(r) PROVE InfoInv'
    <2>1. UNCHANGED <<members, titles, info, may>>
      BY <1>4 DEF LeaveUnknown, bounds
    <2>2. since'.state = since.state /\ since'.here[r] = "leave"
          /\ \A q \in Rooms \ {r} : since'.here[q] = since.here[q]
      BY <1>4, LeaveUnknownSince
    <2>. QED
      BY <2>1, <2>2 DEF InfoInv, May
  <1>5. ASSUME NEW r \in Rooms, RedactTitle(r) PROVE InfoInv'
    BY <1>5 DEF RedactTitle, InfoInv, May
  <1>6. ASSUME NEW r \in Rooms,
               \/ UserStep(r) \/ Accept(r) \/ Refuse(r) \/ JoinAnswered(r) \/ CreateAnswered(r)
               \/ LeaveAnswered(r) \/ RemoveRoom(r)
               \/ Invite(r) \/ Kick(r) \/ JoinElsewhere(r) \/ Elsewhere(r)
        PROVE  InfoInv'
    <2>1. UNCHANGED <<since, members, titles, info, may>>
      BY <1>6, AcceptedCall, MovesOfRoom
      DEF UserStep, Ask, Refuse, JoinAnswered, CreateAnswered, LeaveAnswered, RemoveRoom, Elsewhere,
          sync, roomsDb, bounds
    <2>. QED
      BY <1>1, <2>1
  <1>. QED
    BY RoomsSteps, <1>2, <1>3, <1>4, <1>5, <1>6

\* At the start nobody else is in a room and none has a name.
LEMMA InitInfo == RoomsInit => InfoInv
  <1> SUFFICES ASSUME RoomsInit PROVE InfoInv
    OBVIOUS
  <1>1. /\ since.here = here /\ since.state = [r \in Rooms |-> [title |-> "none", people |-> {}]]
        /\ joined = {r \in Rooms : here[r] = "join"}
        /\ members = [r \in Rooms |-> IF r \in joined THEN {Me} ELSE {}]
        /\ titles = [r \in Rooms |-> "none"]
        /\ info = [r \in Rooms |-> RoomInfo("none", {Me})]
    BY DEF RoomsInit, Snapshot
  <1>. QED
    BY <1>1 DEF InfoInv

\* Which rooms the space names after a sync answer, while it is joined.
LEMMA SpaceAfterSync ==
  ASSUME RoomsTypeOK, ServerInv, AnswerInv, InviteInv, CallsInv, ListsInv, SpaceInv, Orderly,
         HandleSync, [RoomsNext]_roomsVars, answer.here[Space] = "join"
  PROVE  /\ kids' \cup (IF levels' = "enough" THEN joined' \cap names' ELSE {}) \subseteq links'
         /\ links' \subseteq kids' \cup (IF levels' = "enough" THEN names' ELSE {})
         /\ \A r \in names' \ moved : levels' = "enough" /\ answer.here[r] = "join" => r \in links'
  <1> DEFINE Power == Space \in Joins /\ (Full(Space) \/ answer.power # since.power)
             Anew  == ChildEvents \cup ParentEvents # {} \/ Power
  <1>1. /\ kids' = {r \in Rooms : IF r \in ChildEvents THEN answer.child[r] = "yes" ELSE r \in kids}
        /\ names' = {r \in Rooms : IF r \in ParentEvents THEN answer.parent[r] = "yes" ELSE r \in names}
        /\ levels' = IF Space \in Leaves THEN "none" ELSE IF Power THEN answer.power ELSE levels
        /\ UpdateSpaces(Anew, ParentEvents)
    BY DEF HandleSync, SaveSpaces
  <1>2. ASSUME NEW r \in Rooms, answer.here[r] = "join", r \notin moved
        PROVE  r \in joined'
    <2>1. ListsInv' /\ Orderly'
      BY ListsStep, ListsAfterSync DEF Orderly
    <2>2. since' = answer /\ moved' = moved /\ OnTheWay' = {}
      BY ListsAfterSync DEF OnTheWay
    <2>. QED
      BY <1>2, <2>1, <2>2 DEF ListsInv
  <1>3. CASE Anew
    <2>1. links' = kids' \cup (IF levels' = "enough"
                                 THEN (ParentEvents \cup (joined' \cap names')) \cap names' ELSE {})
      BY <1>1, <1>3 DEF UpdateSpaces
    <2>2. names' \subseteq Rooms
      BY <1>1
    <2>. QED
      BY <1>2, <2>1, <2>2
  <1>4. CASE ~Anew
    <2>1. ChildEvents = {} /\ ParentEvents = {} /\ ~Power
      BY <1>4
    <2>2. Space \in Rooms /\ Space \notin answer.moved /\ since.here[Space] = "join" /\ Space \notin Leaves
      BY <2>1, RoomsOK, Sections DEF HandleSync, Full, Orderly, May
    <2>3. kids' = kids /\ names' = names /\ levels' = levels
      BY <1>1, <2>1, <2>2 DEF RoomsTypeOK
    <2>4. links' = links
      BY <1>1, <2>1 DEF UpdateSpaces
    <2>5. /\ kids \cup Counted(joined) \subseteq links
          /\ links \subseteq kids \cup Counted(Rooms)
          /\ Counted({r \in Rooms : since.here[r] = "join" /\ ~NextFull(r)}) \subseteq links
          /\ \A r \in names : since.parent[r] # "never"
      BY <2>2 DEF SpaceInv
    <2>6. ASSUME NEW r \in names, answer.here[r] = "join"
          PROVE  since.here[r] = "join" /\ ~NextFull(r)
      <3>1. r \in Rooms /\ answer # NoAnswer
        BY DEF RoomsTypeOK, HandleSync
      <3>2. answer.parent[r] # "never"
        BY <3>1, <2>5 DEF AnswerInv
      <3>3. r \notin answer.moved
        <4>1. SUFFICES ASSUME r \in answer.moved PROVE FALSE
          OBVIOUS
        <4>2. r \in Joins
          BY <4>1, <3>1, <2>6, Sections
        <4>. QED
          BY <4>1, <4>2, <3>2, <2>1 DEF ParentEvents, Full
      <3>. QED
        BY <3>1, <3>3, <2>6 DEF AnswerInv, NextFull, Orderly, May
    <2>7. \A r \in names : levels = "enough" /\ answer.here[r] = "join" => r \in links
      BY <2>5, <2>6 DEF Counted, RoomsTypeOK
    <2>8. ASSUME NEW r \in joined' \cap names PROVE answer.here[r] = "join"
      <3>1. r \in Rooms /\ ListsInv' /\ Orderly' /\ since' = answer
        BY ListsStep, ListsAfterSync DEF Orderly, RoomsTypeOK
      <3>. QED
        BY <3>1, <2>8 DEF ListsInv
    <2>. QED
      BY <2>3, <2>4, <2>5, <2>7, <2>8 DEF Counted
  <1>. QED
    BY <1>3, <1>4

\* updateSpaces starts again or adds; who comes onto the list by an answer is
\* looked at then, or was counted before.
LEMMA SpaceStep ==
  ASSUME RoomsTypeOK, ServerInv, AnswerInv, InviteInv, CallsInv, ListsInv, SpaceInv,
         [RoomsNext]_roomsVars
  PROVE  SpaceInv'
  <1> DEFINE Named == /\ kids \cup Counted(joined) \subseteq links
                      /\ links \subseteq kids \cup Counted(Rooms)
                      /\ Counted({r \in Rooms : since.here[r] = "join" /\ ~NextFull(r)}) \subseteq links
  <1>1. /\ \A r \in names : since.parent[r] # "never"
        /\ Orderly /\ since.here[Space] = "join" => Named
    BY DEF SpaceInv
  <1>2. ASSUME /\ UNCHANGED <<levels, kids, names, links, may>> /\ joined' \subseteq joined
               /\ since'.parent = since.parent
               /\ \A r \in Rooms : since'.here[r] = "join" => since.here[r] = "join"
               /\ \A r \in Rooms : since'.here[r] = "join" /\ NextFull(r) => NextFull(r)'
        PROVE  SpaceInv'
    <2>1. \A r \in names' : since'.parent[r] # "never"
      BY <1>1, <1>2
    <2>2. Orderly' /\ since'.here[Space] = "join" => Named
      BY <1>1, <1>2, RoomsOK DEF Orderly
    <2>3. Counted(joined)' \subseteq Counted(joined) /\ Counted(Rooms)' = Counted(Rooms)
      BY <1>2 DEF Counted
    <2>4. Counted({r \in Rooms : since.here[r] = "join" /\ ~NextFull(r)})'
            \subseteq Counted({r \in Rooms : since.here[r] = "join" /\ ~NextFull(r)})
      BY <1>2 DEF Counted
    <2>. QED
      BY <1>2, <2>1, <2>2, <2>3, <2>4 DEF SpaceInv
  <1>3. CASE Serve
    <2>1. answer = NoAnswer /\ answer' # NoAnswer /\ answer'.moved = moved
          /\ UNCHANGED <<levels, kids, names, links, may, joined, since>>
      BY <1>3, SnapshotType, NoAnswerOK DEF Serve, Snapshot, spacesDb, roomsDb, bounds
    <2>2. \A r \in Rooms : NextFull(r) => NextFull(r)'
      BY <2>1 DEF NextFull
    <2>. QED
      BY <1>2, <2>1, <2>2
  <1>4. CASE RestartRooms
    <2>1. answer' = NoAnswer /\ moved' = moved \cup OnTheWay
          /\ UNCHANGED <<levels, kids, names, links, may, joined, since>>
      BY <1>4 DEF RestartRooms, spacesDb, roomsDb, bounds
    <2>2. \A r \in Rooms : NextFull(r) => NextFull(r)'
      BY <2>1 DEF NextFull, OnTheWay
    <2>. QED
      BY <1>2, <2>1, <2>2
  <1>5. CASE HandleSync
    <2>1. /\ answer # NoAnswer /\ since' = answer /\ answer' = NoAnswer
          /\ UNCHANGED <<moved, may>>
      BY <1>5, ListsAfterSync
    <2>2. ASSUME NEW r \in names' PROVE since'.parent[r] # "never"
      <3>1. r \in Rooms /\ (r \in names \/ answer.parent[r] = "yes")
        BY <1>5, <2>2 DEF HandleSync, SaveSpaces
      <3>. QED
        BY <1>1, <2>1, <3>1 DEF AnswerInv
    <2>3. ASSUME Orderly', since'.here[Space] = "join" PROVE Named'
      <3>1. /\ kids' \cup (IF levels' = "enough" THEN joined' \cap names' ELSE {}) \subseteq links'
            /\ links' \subseteq kids' \cup (IF levels' = "enough" THEN names' ELSE {})
            /\ \A r \in names' \ moved : levels' = "enough" /\ answer.here[r] = "join" => r \in links'
        BY <1>5, <2>1, <2>3, SpaceAfterSync DEF Orderly
      <3>2. names' \subseteq Rooms
        BY <1>5, HandleSyncTypes DEF RoomsTypeOK
      <3>3. \A r \in Rooms : ~NextFull(r)' => r \notin moved
        BY <2>1 DEF NextFull
      <3>. QED
        BY <2>1, <3>1, <3>2, <3>3 DEF Counted
    <2>. QED
      BY <2>2, <2>3 DEF SpaceInv
  <1>6. ASSUME NEW r \in Rooms, LeaveUnknown(r) PROVE SpaceInv'
    <2>1. UNCHANGED <<levels, kids, names, links, may>> /\ joined' \subseteq joined
          /\ moved' = moved \ {r}
      BY <1>6 DEF LeaveUnknown, spacesDb, bounds
    <2>2. \A q \in Rooms : since'.here[q] = "join" => since.here[q] = "join" /\ q # r
      BY <1>6, LeaveUnknownSince
    <2>3. \A q \in Rooms \ {r} : NextFull(q) => NextFull(q)'
      BY <1>6, <2>1, LeaveUnknownSince DEF NextFull
    <2>. QED
      BY <1>2, <1>6, <2>1, <2>2, <2>3, LeaveUnknownSince
  <1>7. ASSUME NEW r \in Rooms, Accept(r) \/ Invite(r) \/ Kick(r) \/ JoinElsewhere(r)
        PROVE  SpaceInv'
    <2>1. moved' = moved \cup {r} /\ UNCHANGED <<levels, kids, names, links, may, joined, since, answer>>
      BY <1>7, AcceptedCall, MovesOfRoom
    <2>2. \A q \in Rooms : NextFull(q) => NextFull(q)'
      BY <2>1 DEF NextFull
    <2>. QED
      BY <1>2, <2>1, <2>2
  <1>8. ASSUME NEW r \in Rooms, RedactTitle(r) PROVE SpaceInv'
    <2>1. UNCHANGED <<levels, kids, names, links, may, joined, moved>>
      BY <1>8 DEF RedactTitle, spacesDb, roomsDb
    <2>2. \A q \in Rooms : NextFull(q) => NextFull(q)'
      BY <1>8, <2>1, RedactTitleSince DEF NextFull
    <2>. QED
      BY <1>2, <1>8, <2>1, <2>2, RedactTitleSince
  <1>9. ASSUME NEW r \in Rooms,
               \/ UserStep(r) \/ Refuse(r) \/ JoinAnswered(r) \/ CreateAnswered(r)
               \/ LeaveAnswered(r) \/ RemoveRoom(r) \/ Elsewhere(r)
        PROVE  SpaceInv'
    <2>1. UNCHANGED <<levels, kids, names, links, may, since, answer, moved>> /\ joined' \subseteq joined
      BY <1>9 DEF UserStep, Ask, Refuse, JoinAnswered, CreateAnswered, LeaveAnswered, RemoveRoom,
         Elsewhere, server, sync, roomsDb, spacesDb, bounds
    <2>2. \A q \in Rooms : NextFull(q) => NextFull(q)'
      BY <2>1 DEF NextFull
    <2>. QED
      BY <1>2, <2>1, <2>2
  <1>. QED
    BY RoomsSteps, <1>3, <1>4, <1>5, <1>6, <1>7, <1>8, <1>9

\* At the start nothing names a child.
LEMMA InitSpace == RoomsInit => SpaceInv
  BY RoomsOK DEF RoomsInit, SpaceInv, Counted

\* The steps that concern notifications.
LEMMA NotesSteps ==
  ASSUME [RoomsNext]_roomsVars
  PROVE  \/ UNCHANGED <<unread, marked, asks, notified, may>>
         \/ RestartRooms \/ Event \/ AskNotifications
         \/ \E i \in DOMAIN asks : ServeNotifications(i) \/ SendNotifications(i)
  <1> USE DEF notes, bounds
  <1>1. CASE Serve \/ HandleSync \/ SetPower
    BY <1>1 DEF Serve, HandleSync, SetPower, Tell
  <1>2. ASSUME NEW r \in Rooms, UserIn(r)
        PROVE  UNCHANGED <<unread, marked, asks, notified, may>>
    BY <1>2 DEF UserIn, JoinRoom, LeaveRoom, CreateRoom, Ask, Accept, Refuse, LeaveUnknown, JoinAnswered,
       CreateAnswered, LeaveAnswered, RemoveRoom
  <1>3. ASSUME NEW r \in Rooms, ServerIn(r)
        PROVE  UNCHANGED <<unread, marked, asks, notified, may>>
    BY <1>3 DEF ServerIn, Invite, Kick, JoinElsewhere, Moves, NameChild, NameParent, SetTitle,
       MemberMoves, Tell, RedactTitle
  <1>4. CASE UNCHANGED roomsVars
    BY <1>4 DEF roomsVars
  <1>. QED
    BY <1>1, <1>2, <1>3, <1>4 DEF RoomsNext, Notify

(***************************************************************************)
(* The answers to the notification requests come in the order asked: those *)
(* that call the event unread, those that call it read, and those that are *)
(* still to come.  Once it is shown, it is marked, or was read and no      *)
(* answer that calls it unread is left.                                    *)
(***************************************************************************)
LEMMA NotifyStep ==
  ASSUME RoomsTypeOK, NotifyInv, [RoomsNext]_roomsVars
  PROVE  NotifyInv'
  <1> DEFINE S == {"none", "asked", "unread", "read"}
             Ordered == \A i, j \in 1 .. Len(asks) : j < i =>
                          /\ asks[i] = "unread" => asks[j] = "unread"
                          /\ asks[i] = "read" => asks[j] # "asked"
             Told == \A i \in 1 .. Len(asks) :
                       asks[i] # "none" /\ (asks[i] = "read" => unread = "read")
             Once == \/ notified = 0
                     \/ notified = 1 /\ marked
                     \/ /\ notified = 1 /\ unread = "read"
                        /\ \A i \in 1 .. Len(asks) : asks[i] # "unread"
             Inv == (asks # <<>> => unread # "none") /\ Told /\ Ordered /\ Once
  <1>1. asks \in Seq(S) /\ Len(asks) \in Nat /\ DOMAIN asks = 1 .. Len(asks)
        /\ unread \in {"none", "unread", "read"} /\ marked \in BOOLEAN
    BY LenProperties DEF RoomsTypeOK
  <1>2. asks' \in Seq(S) /\ Len(asks') \in Nat /\ DOMAIN asks' = 1 .. Len(asks')
    <2>1. asks' \in Seq(S)
      BY RoomsStepTypes DEF RoomsTypeOK
    <2>. QED
      BY <2>1, LenProperties
  <1>3. ~May("overtake") => Inv
    BY <1>1 DEF NotifyInv
  <1>4. may' = may /\ Inv' => NotifyInv'
    BY <1>2 DEF NotifyInv, May
  <1>5. CASE may' = may /\ May("overtake")
    BY <1>5 DEF NotifyInv, May
  <1>6. CASE UNCHANGED <<unread, marked, asks, notified, may>>
    BY <1>6 DEF NotifyInv, May
  <1> HIDE DEF S
  <1>7. ASSUME RestartRooms, ~May("overtake") PROVE Inv'
    <2>1. asks' = <<>> /\ Len(asks') = 0 /\ UNCHANGED <<unread, marked, notified>>
      BY <1>7 DEF RestartRooms
    <2>. QED
      BY <1>3, <1>7, <2>1
  <1>8. ASSUME Event, ~May("overtake") PROVE Inv'
    <2>1. /\ unread' = (IF unread = "none" THEN "unread" ELSE "read") /\ unread # "read"
          /\ UNCHANGED <<marked, asks, notified>>
      BY <1>8 DEF Event
    <2>. QED
      BY <1>1, <1>3, <1>8, <2>1
  <1>9. ASSUME AskNotifications, ~May("overtake") PROVE Inv'
    <2>1. asks' = Append(asks, "asked") /\ unread # "none" /\ UNCHANGED <<unread, marked, notified>>
      BY <1>9 DEF AskNotifications
    <2>2. /\ Len(asks') = Len(asks) + 1 /\ asks'[Len(asks) + 1] = "asked"
          /\ \A i \in 1 .. Len(asks) : asks'[i] = asks[i]
      BY <1>1, <2>1, AppendProperties DEF S
    <2>3. Told' /\ Ordered'
      BY <1>1, <1>3, <1>9, <2>1, <2>2
    <2>4. Once'
      BY <1>1, <1>3, <1>9, <2>1, <2>2
    <2>. QED
      BY <2>1, <2>3, <2>4
  <1>10. ASSUME NEW i \in DOMAIN asks, ServeNotifications(i), ~May("overtake") PROVE Inv'
    <2>1. /\ asks[i] = "asked" /\ asks' = [asks EXCEPT ![i] = unread]
          /\ \A j \in 1 .. i - 1 : asks[j] # "asked"
          /\ UNCHANGED <<unread, marked, notified>>
      BY <1>10 DEF ServeNotifications, Turn
    <2>2. Len(asks') = Len(asks) /\ asks'[i] = unread
          /\ \A j \in 1 .. Len(asks) : j # i => asks'[j] = asks[j]
      <3>1. unread \in S
        BY <1>1 DEF S
      <3>. QED
        BY <1>1, <2>1, <3>1, ExceptSeq
    <2>3. unread # "none"
      BY <1>1, <1>3, <1>10
    <2>4. Told'
      BY <1>1, <1>3, <1>10, <2>1, <2>2
    <2>5. Ordered'
      <3> SUFFICES ASSUME NEW k \in 1 .. Len(asks), NEW j \in 1 .. Len(asks), j < k
                   PROVE  /\ asks'[k] = "unread" => asks'[j] = "unread"
                          /\ asks'[k] = "read" => asks'[j] # "asked"
        BY <2>2
      <3>1. CASE k = i
        <4>1. asks[j] # "asked" /\ asks'[j] = asks[j]
          BY <1>1, <2>1, <2>2, <3>1
        <4>2. asks[j] \in S /\ asks[j] # "none"
          BY <1>1, <1>3, <1>10, ElementOfSeq
        <4>. QED
          BY <1>1, <1>3, <1>10, <2>2, <3>1, <4>1, <4>2 DEF S
      <3>2. CASE j = i
        BY <1>1, <1>3, <1>10, <2>1, <2>2, <3>2
      <3>3. CASE k # i /\ j # i
        BY <1>1, <1>3, <1>10, <2>2, <3>3
      <3>. QED
        BY <3>1, <3>2, <3>3
    <2>6. Once'
      BY <1>1, <1>3, <1>10, <2>1, <2>2
    <2>. QED
      BY <2>1, <2>3, <2>4, <2>5, <2>6
  <1>11. ASSUME NEW i \in DOMAIN asks, SendNotifications(i), ~May("overtake") PROVE Inv'
    <2>1. i = 1 /\ asks[1] # "asked" /\ unread' = unread
          /\ asks' = SubSeq(asks, 1, 0) \o SubSeq(asks, 2, Len(asks))
      BY <1>11 DEF SendNotifications
    <2>2. /\ asks # <<>> /\ Len(asks') = Len(asks) - 1
          /\ \A j \in 1 .. Len(asks) - 1 : asks'[j] = asks[j + 1]
      <3>1. Len(asks) >= 1
        BY <1>1, <2>1
      <3>2. \A j \in 2 .. Len(asks) : asks[j] \in S
        BY <1>1, ElementOfSeq
      <3>3. /\ SubSeq(asks, 2, Len(asks)) \in Seq(S)
            /\ Len(SubSeq(asks, 2, Len(asks))) = Len(asks) - 1
            /\ \A j \in 1 .. Len(asks) - 1 : SubSeq(asks, 2, Len(asks))[j] = asks[j + 1]
        BY <1>1, <3>1, <3>2, SubSeqProperties
      <3>4. SubSeq(asks, 1, 0) \in Seq(S) /\ Len(SubSeq(asks, 1, 0)) = 0
        BY <1>1, SubSeqProperties
      <3>. QED
        BY <1>1, <2>1, <3>1, <3>3, <3>4, ConcatProperties
    <2>3. Told'
      BY <1>1, <1>3, <1>11, <2>1, <2>2
    <2>4. Ordered'
      BY <1>1, <1>3, <1>11, <2>1, <2>2
    <2>5. Once'
      <3>1. asks[1] = "read" =>
              /\ unread = "read" /\ notified' = notified
              /\ \A j \in 1 .. Len(asks) : asks[j] # "unread"
        <4>1. asks[1] = "read" => notified' = notified
          BY <1>11, <2>1 DEF SendNotifications, RemoveReadNotification
        <4>2. 1 \in 1 .. Len(asks)
          BY <1>1, <2>1
        <4>3. \A j \in 1 .. Len(asks) : j = 1 \/ 1 < j
          BY <1>1
        <4>. QED
          BY <1>1, <1>3, <1>11, <4>1, <4>2, <4>3
      <3>2. asks[1] # "read" /\ marked => marked' = marked /\ notified' = notified
        BY <1>11, <2>1 DEF SendNotifications, SendOnce
      <3>3. asks[1] # "read" /\ ~marked => marked' = TRUE /\ notified' = notified + 1 /\ asks[1] = "unread"
        <4>1. asks[1] # "read" /\ ~marked => marked' = TRUE /\ notified' = notified + 1
          BY <1>11, <2>1 DEF SendNotifications, SendOnce
        <4>2. asks[1] # "none"
          BY <1>1, <1>3, <1>11, <2>1
        <4>3. asks[1] \in S
          BY <1>1, <2>1, ElementOfSeq
        <4>. QED
          BY <2>1, <4>1, <4>2, <4>3 DEF S
      <3>4. CASE asks[1] = "read"
        BY <1>1, <1>3, <1>11, <2>1, <2>2, <3>1, <3>4
      <3>5. CASE asks[1] # "read" /\ marked
        BY <1>1, <1>3, <1>11, <2>1, <2>2, <3>2, <3>5
      <3>6. CASE asks[1] # "read" /\ ~marked
        <4>1. notified = 0
          BY <1>1, <1>3, <1>11, <2>1, <2>2, <3>3, <3>6
        <4>. QED
          BY <3>3, <3>6, <4>1
      <3>. QED
        BY <3>4, <3>5, <3>6
    <2>. QED
      BY <1>3, <1>11, <2>1, <2>2, <2>3, <2>4, <2>5
  <1>12. may' = may
    BY MayStays
  <1>. QED
    BY NotesSteps, <1>4, <1>5, <1>6, <1>7, <1>8, <1>9, <1>10, <1>11, <1>12

\* The inductive invariant: no part of it is inductive alone, for an answer of
\* /sync changes the lists by what it differs from the one before.
RoomsInv ==
  /\ RoomsTypeOK /\ ServerInv /\ AnswerInv /\ InviteInv /\ CallsInv
  /\ ListsInv /\ ShownInv /\ HeardInv /\ InfoInv /\ SpaceInv /\ NotifyInv

\* The parts together at the start, and after a step.
LEMMA RoomsInvInit == RoomsInit => RoomsInv
  <1> SUFFICES ASSUME RoomsInit PROVE RoomsInv
    OBVIOUS
  <1>1. NotifyInv
    <2>1. unread = "none" /\ marked = FALSE /\ asks = <<>> /\ notified = 0
      BY DEF RoomsInit
    <2>. QED
      BY <2>1 DEF NotifyInv
  <1>. QED
    BY <1>1, RoomsInitTypes, InitCore, InitInfo, InitSpace DEF RoomsInv

LEMMA RoomsInvStep == RoomsInv /\ [RoomsNext]_roomsVars => RoomsInv'
  <1> SUFFICES ASSUME RoomsInv, [RoomsNext]_roomsVars PROVE RoomsInv'
    OBVIOUS
  <1> USE DEF RoomsInv
  <1>1. RoomsTypeOK'
    BY RoomsStepTypes
  <1>2. ServerInv' /\ AnswerInv' /\ InviteInv' /\ CallsInv'
    BY AccountStep, InviteStep, CallsStep
  <1>3. ListsInv' /\ ShownInv' /\ HeardInv'
    BY ListsStep, ShownStep, HeardStep
  <1>4. InfoInv' /\ SpaceInv' /\ NotifyInv'
    BY InfoStep, SpaceStep, NotifyStep
  <1>. QED
    BY <1>1, <1>2, <1>3, <1>4

\* In sync, the last answer is what the server has.
LEMMA InSyncCurrent ==
  ASSUME RoomsTypeOK, InSync
  PROVE  /\ since.here = here /\ since.state = state
         /\ moved = {} /\ OnTheWay = {} /\ \A r \in Rooms : calls[r] = "idle"
  <1>1. answer = NoAnswer /\ moved = {} /\ [since EXCEPT !.moved = {}] = Snapshot
        /\ \A r \in Rooms : calls[r] = "idle"
    BY DEF InSync, News
  <1>2. since.here = Snapshot.here /\ since.state = Snapshot.state
    BY <1>1 DEF RoomsTypeOK, Snapshots
  <1>. QED
    BY <1>1, <1>2 DEF Snapshot, OnTheWay

(***************************************************************************)
(* The invariant holds in every state the rooms reach: what the server,    *)
(* the answer on its way and the last answer say of a room agree but for   *)
(* the rooms that are under way, and the databases are those of the last   *)
(* answer but for them (Cache::saveState, updateSpaces, the callbacks of   *)
(* joinRoom, leaveRoom and createRoom in Client.cpp).                      *)
(***************************************************************************)
THEOREM RoomsInvariant == RoomsSpec => []RoomsInv
  <1>. QED
    BY RoomsInvInit, RoomsInvStep, PTL DEF RoomsSpec

(***************************************************************************)
(* Whatever the order of answers, slots and syncs, the room list is the    *)
(* account's once all of them are handled (Cache::saveState, removeRoom,   *)
(* syncTimelines).                                                         *)
(***************************************************************************)
THEOREM RoomListCurrent == RoomsSpec => []ListsAreCurrent
  <1>1. RoomsInv => ListsAreCurrent
    <2> SUFFICES ASSUME RoomsInv, InSync, Orderly
                 PROVE  /\ joined  = {r \in Rooms : here[r] = "join"}
                        /\ invited = {r \in Rooms : here[r] = "invite"}
                        /\ joined \subseteq timelines
                        /\ May("gone") \/ timelines \subseteq joined \cup invited
      BY DEF ListsAreCurrent, Orderly
    <2> USE DEF RoomsInv
    <2>1. since.here = here /\ moved = {} /\ OnTheWay = {}
      BY InSyncCurrent
    <2>2. joined \subseteq Rooms /\ invited \subseteq Rooms
      BY DEF RoomsTypeOK
    <2>3. joined  = {r \in Rooms : here[r] = "join"} /\ invited = {r \in Rooms : here[r] = "invite"}
      BY <2>1, <2>2 DEF ListsInv
    <2>4. joined \subseteq timelines /\ (May("gone") \/ timelines \subseteq joined \cup invited)
      BY <2>1 DEF ShownInv
    <2>. QED
      BY <2>3, <2>4
  <1>. QED
    BY <1>1, RoomsInvariant, PTL

\* Every joined room's calls reach the call manager, in the scenarios where
\* its timeline is made or connected by an answer that cannot come too early.
THEOREM RoomCallsHeard == RoomsSpec => []CallsAreHeard
  <1>1. RoomsInv => CallsAreHeard
    <2> SUFFICES ASSUME RoomsInv, InSync, HeardEnv, NEW r \in joined
                 PROVE  r \in heard
      BY DEF CallsAreHeard, HeardEnv
    <2> USE DEF RoomsInv
    <2>1. r \in Rooms /\ Orderly
      BY DEF RoomsTypeOK, HeardEnv, Orderly
    <2>2. here[r] = "join" /\ calls[r] = "idle"
      BY <2>1, InSyncCurrent DEF ListsInv
    <2>. QED
      BY <2>1, <2>2 DEF HeardInv
  <1>. QED
    BY <1>1, RoomsInvariant, PTL

\* updateSpaces, which looks at what changed alone, misses no child of a
\* joined space and adds none that nothing names.
THEOREM SpaceChildrenNamed == RoomsSpec => []ChildrenAreNamed
  <1>1. RoomsInv => ChildrenAreNamed
    <2> SUFFICES ASSUME RoomsInv, Space \in joined, Orderly
                 PROVE  /\ kids \cup Counted(joined) \subseteq links
                        /\ links \subseteq kids \cup Counted(Rooms)
      BY DEF ChildrenAreNamed, Counted, Orderly
    <2>1. since.here[Space] = "join"
      BY RoomsOK DEF RoomsInv, ListsInv
    <2>. QED
      BY <2>1 DEF RoomsInv, SpaceInv
  <1>. QED
    BY <1>1, RoomsInvariant, PTL

\* The RoomInfo stored for a joined room is the one its state and members on
\* the server give.
THEOREM RoomInfoCurrent == RoomsSpec => []InfoIsCurrent
  <1>1. RoomsInv => InfoIsCurrent
    <2> SUFFICES ASSUME RoomsInv, InSync, Orderly, ~May("redact"), NEW r \in joined
                 PROVE  info[r] = RoomInfo(state[r].title, {Me} \cup state[r].people)
      BY DEF InfoIsCurrent, Orderly, May
    <2>1. r \in Rooms /\ since.here[r] = "join" /\ since.state = state
      BY InSyncCurrent DEF RoomsInv, RoomsTypeOK, ListsInv
    <2>. QED
      BY <2>1 DEF RoomsInv, InfoInv, Orderly, May
  <1>. QED
    BY <1>1, RoomsInvariant, PTL

\* sendNotifications shows an event once: no answer calls it unread any more
\* when its mark is taken away.
THEOREM EventNotifiedOnce == RoomsSpec => []NotifiedOnce
  <1>1. RoomsInv => NotifiedOnce
    BY DEF RoomsInv, NotifyInv, NotifiedOnce
  <1>. QED
    BY <1>1, RoomsInvariant, PTL
==============================================================================
