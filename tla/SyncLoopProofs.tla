--------------------------- MODULE SyncLoopProofs ---------------------------
(***************************************************************************)
(* What the databases hold, for any log, any number of equal requests and  *)
(* any faults: handleSyncResponse appends an answer only where it belongs, *)
(* whichever of several loops asked for it.                                *)
(***************************************************************************)
EXTENDS SyncLoop, TLAPS

\* An answer goes forward from where it was asked for, the first one from nowhere.
ForwardRequests ==
  {r \in Request : /\ r.since <= pos /\ r.upto <= pos
                   /\ r.kind = "initial" => r.since = 0
                   /\ r.upto # 0 => r.since <= r.upto}
ForwardSignals ==
  {s \in Signals : /\ s.since <= pos /\ s.upto <= pos
                   /\ s.kind = "initial" => s.since = 0
                   /\ s.since <= s.upto}

IInv ==
  /\ TypeOK
  /\ SavedIsPrefix
  /\ token <= pos
  /\ requests \subseteq ForwardRequests
  /\ queue \in Seq(ForwardSignals)

------------------------------------------------------------------------------

LEMMA InitIInv == Init => IInv
<1> SUFFICES ASSUME Init PROVE IInv
  OBVIOUS
<1>1. 1 \in 0 .. MaxPos /\ 0 \in 0 .. MaxPos
  BY SyncLoopOK
<1>2. 0 \in 0 .. MaxErrors /\ 0 \in 0 .. MaxRestarts /\ 0 \in 0 .. MaxLogins
  BY SyncLoopOK
<1>3. TypeOK
  <2>1. handled \in [Positions -> Nat]
    BY DEF Init
  <2>2. saved \in Seq(Positions) /\ queue \in Seq(Signals)
    BY DEF Init
  <2>3. QED
    BY <1>1, <1>2, <2>1, <2>2 DEF Init, TypeOK
<1>4. SavedIsPrefix
  <2>1. saved = <<>> /\ token = 0 /\ 1 .. 0 = {}
    BY DEF Init
  <2>2. [i \in 1 .. token |-> i] = <<>>
    BY <2>1
  <2>3. QED
    BY <2>1, <2>2 DEF SavedIsPrefix
<1>5. queue \in Seq(ForwardSignals)
  BY DEF Init
<1>6. QED
  BY <1>1, <1>3, <1>4, <1>5 DEF Init, IInv

\* Whichever copy is chosen, Sent adds one live request that is not served.
LEMMA SentIs ==
  ASSUME NEW kind \in {"keys", "initial", "sync", "versions"}, NEW since \in 0 .. MaxPos,
         NEW reqs
  PROVE  \E n \in Request : /\ Sent(kind, since, reqs) = reqs \cup {n}
                            /\ n.kind = kind /\ n.since = since /\ n.live
                            /\ n.upto = 0 /\ n.from = 0
<1> DEFINE New(i) == [copy |-> i, kind |-> kind, since |-> since, upto |-> 0, from |-> 0,
                      live |-> TRUE]
           Free(i) == New(i) \notin reqs \/ \A j \in 1 .. Copies : New(j) \in reqs
           c == CHOOSE i \in 1 .. Copies : Free(i)
<1>1. Sent(kind, since, reqs) = reqs \cup {New(c)}
  BY DEF Sent
<1>2. \E i \in 1 .. Copies : Free(i)
  <2>1. 1 \in 1 .. Copies
    BY SyncLoopOK
  <2>2. QED
    BY <2>1
<1>3. c \in 1 .. Copies
  <2> HIDE DEF Free
  <2> QED
    BY <1>2
<1> HIDE DEF c
<1>4. New(c) \in Request /\ New(c).kind = kind /\ New(c).since = since /\ New(c).live
      /\ New(c).upto = 0 /\ New(c).from = 0
  BY <1>3, SyncLoopOK DEF Request
<1> HIDE DEF New
<1>5. QED
  BY <1>1, <1>4

\* saveState appends what follows the token, or starts again.
LEMMA BatchExtends ==
  ASSUME NEW s \in Signals, IInv, s.since = token \/ s.since = 0, s.since <= s.upto
  PROVE  Batch(s, saved) = [i \in 1 .. s.upto |-> i]
<1>1. saved \in Seq(Positions) /\ saved = [i \in 1 .. token |-> i] /\ token \in Nat
  BY SyncLoopOK DEF IInv, TypeOK, SavedIsPrefix
<1>2. Len(saved) = token
  BY <1>1
<1>3. CASE s.since = 0
  BY <1>3, SyncLoopOK DEF Batch, Signals
<1>4. CASE s.since # 0
  <2>1. Batch(s, saved) = [i \in 1 .. s.upto |-> IF i <= token THEN saved[i] ELSE i]
    BY <1>2, <1>1, <1>4, SyncLoopOK DEF Batch, Signals
  <2>2. \A i \in 1 .. s.upto : i <= token => saved[i] = i
    BY <1>1, SyncLoopOK DEF Signals
  <2>3. QED
    BY <2>1, <2>2
<1>5. QED
  BY <1>3, <1>4

LEMMA SentForward ==
  ASSUME IInv, NEW kind \in {"keys", "initial", "sync", "versions"}, NEW since \in 0 .. MaxPos,
         since <= pos, kind = "initial" => since = 0,
         NEW reqs \in SUBSET ForwardRequests
  PROVE  Sent(kind, since, reqs) \subseteq ForwardRequests
<1>1. reqs \subseteq Request
  BY DEF ForwardRequests
<1>2. 0 <= pos
  BY DEF IInv, TypeOK
<1>3. PICK n \in Request : Sent(kind, since, reqs) = reqs \cup {n}
                           /\ n.kind = kind /\ n.since = since /\ n.upto = 0
  BY SentIs
<1>4. pos \in Nat
  BY DEF IInv, TypeOK
<1>5. n \in ForwardRequests
  BY <1>2, <1>3, <1>4 DEF ForwardRequests
<1>6. QED
  BY <1>3, <1>5

LEMMA ShutdownForward == ASSUME IInv PROVE Shutdown \subseteq ForwardRequests
BY DEF IInv, Shutdown, ForwardRequests, Request

LEMMA SignalForward ==
  ASSUME IInv, NEW kind \in {"trySync", "tryDelayedSync", "lost", "restored", "drop"}
  PROVE  Signal(kind) \in ForwardSignals
BY SyncLoopOK DEF IInv, TypeOK, ForwardSignals, Signal, Signals

LEMMA AnswerForward ==
  ASSUME IInv, NEW r \in requests, r.upto # 0, NEW kind \in {"response", "initial"},
         kind = "initial" => r.kind = "initial"
  PROVE  Answer(kind, r) \in ForwardSignals
BY DEF IInv, ForwardRequests, Request, ForwardSignals, Signals, Answer

\* What a commit of saveState writes.
LEMMA Saves ==
  ASSUME IInv, NEW s \in ForwardSignals, s.since = token \/ s.since = 0,
         token' = s.upto, saved' = Batch(s, saved), UNCHANGED pos
  PROVE  /\ SavedIsPrefix' /\ token' <= pos' /\ token' \in 0 .. MaxPos
         /\ saved' \in Seq(Positions)
<1>1. s \in Signals /\ s.since <= s.upto /\ s.upto <= pos
  BY DEF ForwardSignals
<1>2. SavedIsPrefix'
  BY <1>1, BatchExtends DEF SavedIsPrefix
<1>3. token' <= pos' /\ token' \in 0 .. MaxPos
  BY <1>1 DEF Signals
<1>4. saved' \in Seq(Positions)
  BY <1>2, <1>3, SyncLoopOK DEF SavedIsPrefix, Positions
<1>5. QED
  BY <1>2, <1>3, <1>4

LEMMA HandleCounts ==
  ASSUME IInv, NEW s \in Signals, Handle(s) PROVE handled' \in [Positions -> Nat]
BY DEF IInv, TypeOK, Handle

------------------------------------------------------------------------------
\* The invariant taken apart: what is stored, and the other variables' ranges.

Stored ==
  /\ token \in 0 .. MaxPos /\ saved \in Seq(Positions) /\ handled \in [Positions -> Nat]
  /\ SavedIsPrefix /\ token <= pos

Rest ==
  /\ user \in BOOLEAN /\ up \in BOOLEAN /\ open \in BOOLEAN
  /\ delays \in Nat /\ connected \in BOOLEAN /\ probing \in BOOLEAN
  /\ purged \in 0 .. MaxPos /\ valid \in BOOLEAN
  /\ errors \in 0 .. MaxErrors /\ restarts \in 0 .. MaxRestarts /\ logins \in 0 .. MaxLogins
  /\ env \in FaultSets

LEMMA TakenApart ==
  ASSUME IInv
  PROVE  /\ Stored /\ Rest
         /\ pos \in 0 .. MaxPos
         /\ requests \subseteq ForwardRequests /\ queue \in Seq(ForwardSignals)
BY DEF IInv, TypeOK, Stored, Rest

LEMMA PutTogether ==
  ASSUME IInv, UNCHANGED pos, Stored', Rest',
         requests' \subseteq ForwardRequests, queue' \in Seq(ForwardSignals)
  PROVE  IInv'
<1>1. ForwardRequests \subseteq Request /\ ForwardSignals \subseteq Signals
  BY DEF ForwardRequests, ForwardSignals
<1>2. queue' \in Seq(Signals)
  BY <1>1
<1>3. ForwardRequests' = ForwardRequests /\ ForwardSignals' = ForwardSignals
  BY DEF ForwardRequests, ForwardSignals, Request, Signals
<1>4. QED
  BY <1>1, <1>2, <1>3 DEF IInv, TypeOK, Stored, Rest

LEMMA StoredKept ==
  ASSUME IInv, UNCHANGED <<token, saved, handled, pos>> PROVE Stored'
BY TakenApart DEF Stored, SavedIsPrefix

LEMMA SlotForward ==
  ASSUME IInv, queue # <<>>
  PROVE  Head(queue) \in ForwardSignals /\ Tail(queue) \in Seq(ForwardSignals)
BY DEF IInv

LEMMA PostForward ==
  ASSUME NEW q \in Seq(ForwardSignals), NEW s \in ForwardSignals
  PROVE  Append(q, s) \in Seq(ForwardSignals)
OBVIOUS

LEMMA ForgottenIsStored ==
  ASSUME IInv, ForgetUser, UNCHANGED pos PROVE Stored' /\ requests' \subseteq ForwardRequests
<1>1. saved' = <<>> /\ token' = 0 /\ handled' = [p \in Positions |-> 0] /\ requests' = Shutdown
  BY DEF ForgetUser
<1>2. [i \in 1 .. token' |-> i] = <<>>
  BY <1>1
<1>3. handled' \in [Positions -> Nat]
  BY <1>1
<1>4. QED
  BY <1>1, <1>2, <1>3, ShutdownForward, TakenApart, SyncLoopOK DEF Stored, SavedIsPrefix

LEMMA TrySyncForward ==
  ASSUME IInv, NEW reqs \in SUBSET ForwardRequests, TrySync(reqs)
  PROVE  requests' \subseteq ForwardRequests /\ probing' = TRUE
<1>1. token \in 0 .. MaxPos /\ token <= pos
  BY DEF IInv, TypeOK
<1>2. Sent("sync", token, reqs) \subseteq ForwardRequests
  BY <1>1, SentForward
<1>3. QED
  BY <1>2 DEF TrySync

------------------------------------------------------------------------------
\* The steps

LEMMA StartStep == IInv /\ Start => IInv'
<1> SUFFICES ASSUME IInv, Start PROVE IInv'
  OBVIOUS
<1>1. /\ Stored /\ Rest /\ requests \subseteq ForwardRequests /\ queue \in Seq(ForwardSignals)
  BY TakenApart
<1>2. UNCHANGED <<delays, connected, world>>
  BY DEF Start
<1>3. CASE ForgetUser /\ UNCHANGED queue
  <2>1. Stored' /\ requests' \subseteq ForwardRequests
    BY <1>2, <1>3, ForgottenIsStored DEF world
  <2>2. Rest'
    BY <1>1, <1>2, <1>3 DEF Rest, ForgetUser, world
  <2>3. QED
    BY <1>1, <1>2, <1>3, <2>1, <2>2, PutTogether DEF world
<1>4. CASE /\ up' = TRUE /\ open' = TRUE /\ UNCHANGED <<disk, probing>>
           /\ \/ Post(Signal("trySync")) /\ UNCHANGED requests
              \/ requests' = Sent("keys", 0, requests) /\ UNCHANGED queue
  <2>1. Stored'
    BY <1>2, <1>4, StoredKept DEF disk, world
  <2>2. Rest'
    BY <1>1, <1>2, <1>4 DEF Rest, disk, world
  <2>3. queue' \in Seq(ForwardSignals)
    BY <1>1, <1>4, SignalForward, PostForward DEF Post
  <2>4. 0 \in 0 .. MaxPos /\ 0 <= pos
    BY SyncLoopOK, TakenApart
  <2>5. requests' \subseteq ForwardRequests
    BY <1>1, <1>4, <2>4, SentForward
  <2>6. QED
    BY <1>2, <2>1, <2>2, <2>3, <2>5, PutTogether DEF world
<1>5. QED
  BY <1>3, <1>4 DEF Start

LEMMA DropStep == IInv /\ Drop => IInv'
<1> SUFFICES ASSUME IInv, Drop PROVE IInv'
  OBVIOUS
<1>1. ForgetUser /\ queue # <<>> /\ queue' = Tail(queue) /\ UNCHANGED <<delays, connected, world>>
  BY DEF Drop, Head1
<1>2. Stored' /\ requests' \subseteq ForwardRequests
  BY <1>1, ForgottenIsStored DEF world
<1>3. Rest'
  BY <1>1, TakenApart DEF Rest, ForgetUser, world
<1>4. queue' \in Seq(ForwardSignals)
  BY <1>1, SlotForward
<1>5. QED
  BY <1>1, <1>2, <1>3, <1>4, PutTogether DEF world

LEMMA SettingsStep == IInv /\ (Login \/ Logout \/ Restart) => IInv'
<1> SUFFICES ASSUME IInv, Login \/ Logout \/ Restart PROVE IInv'
  OBVIOUS
<1>1. UNCHANGED <<token, saved, handled, pos>>
  BY DEF Login, Logout, Restart, disk
<1>2. Rest /\ requests \subseteq ForwardRequests /\ queue \in Seq(ForwardSignals) /\ pos \in 0 .. MaxPos
  BY TakenApart
<1>3. Rest'
  <2> USE <1>2, SyncLoopOK DEF Rest
  <2>1. CASE Login
    <3>1. logins' \in 0 .. MaxLogins /\ purged' \in 0 .. MaxPos /\ user' = TRUE /\ valid' = TRUE
      BY <2>1 DEF Login
    <3>2. UNCHANGED <<up, open, delays, connected, probing, errors, restarts, env>>
      BY <2>1 DEF Login, memory
    <3>3. QED
      BY <3>1, <3>2
  <2>2. CASE Logout
    BY <2>2 DEF Logout, disk
  <2>3. CASE Restart
    <3>1. restarts' \in 0 .. MaxRestarts
      BY <2>3 DEF Restart, MemoryLost
    <3>2. /\ up' = FALSE /\ open' = FALSE /\ delays' = 0 /\ connected' = TRUE /\ probing' = FALSE
          /\ UNCHANGED <<user, purged, valid, errors, logins, env>>
      BY <2>3 DEF Restart, MemoryLost, disk
    <3>3. QED
      BY <3>1, <3>2
  <2>4. QED
    BY <2>1, <2>2, <2>3
<1>4. requests' \subseteq ForwardRequests
  BY <1>2 DEF Login, Logout, Restart, MemoryLost, memory
<1>5. queue' \in Seq(ForwardSignals)
  <2>1. CASE Logout
    BY <1>2, <2>1, SignalForward, PostForward DEF Logout, Post
  <2>2. CASE Login
    BY <1>2, <2>2 DEF Login, memory
  <2>3. CASE Restart
    BY <1>2, <2>3 DEF Restart, MemoryLost
  <2>4. QED
    BY <2>1, <2>2, <2>3
<1>6. QED
  BY <1>1, <1>3, <1>4, <1>5, StoredKept, PutTogether

LEMMA Failing == ASSUME IInv, CanFail PROVE errors + 1 \in 0 .. MaxErrors
BY SyncLoopOK, TakenApart DEF CanFail, Rest

\* The callbacks of requests change neither the databases nor what is up.
LEMMA AnswerStep ==
  ASSUME IInv, NEW r \in requests, Serve(r) \/ Answered(r) PROVE IInv'
<1>1. /\ Rest /\ requests \subseteq ForwardRequests /\ queue \in Seq(ForwardSignals)
      /\ pos \in 0 .. MaxPos /\ r \in ForwardRequests /\ 0 \in 0 .. MaxPos /\ 0 <= pos
  BY TakenApart, SyncLoopOK
<1>2. UNCHANGED <<token, saved, handled, pos, user, up, open, delays, connected, probing, env>>
  BY DEF Serve, Answered, KeysAnswered, InitialAnswered, SyncAnswered, Probed, Vanished, disk, world
<1>3. errors' \in 0 .. MaxErrors
  <2>1. errors' = errors \/ (CanFail /\ errors' = errors + 1)
    BY DEF Serve, Answered, KeysAnswered, InitialAnswered, SyncAnswered, Probed, Vanished, world
  <2>2. QED
    BY <1>1, <2>1, Failing DEF Rest
<1>4. UNCHANGED <<valid, restarts, logins>>
  BY DEF Serve, Answered, KeysAnswered, InitialAnswered, SyncAnswered, Probed, Vanished, world
<1>5. purged' \in 0 .. MaxPos
  <2>1. CASE Serve(r)
    <3>1. r.since \in 0 .. MaxPos /\ purged \in 0 .. MaxPos
      BY <1>1 DEF ForwardRequests, Request, Rest
    <3>2. QED
      BY <2>1, <3>1 DEF Serve
  <2>2. CASE Answered(r)
    BY <1>1, <2>2 DEF Rest, Answered, KeysAnswered, InitialAnswered, SyncAnswered, Probed, Vanished, world
  <2>3. QED
    BY <2>1, <2>2
<1>6. Rest'
  BY <1>1, <1>2, <1>3, <1>4, <1>5 DEF Rest
<1>7. requests' \subseteq ForwardRequests
  <2>1. CASE Serve(r)
    <3> DEFINE served == [r EXCEPT !.upto = pos, !.from = purged']
    <3>1. served \in ForwardRequests
      <4>1. r \in Request /\ r.since <= pos /\ (r.kind = "initial" => r.since = 0)
        BY <1>1 DEF ForwardRequests
      <4>2. /\ served \in Request /\ served.upto = pos
            /\ served.since = r.since /\ served.kind = r.kind
        BY <1>1, <1>5, <4>1 DEF Request
      <4>3. pos <= pos
        BY <1>1
      <4>4. QED
        BY <4>1, <4>2, <4>3 DEF ForwardRequests
    <3>2. QED
      BY <1>1, <2>1, <3>1 DEF Serve
  <2>2. requests \ {r} \in SUBSET ForwardRequests
    BY <1>1
  <2>3. Sent("initial", 0, requests \ {r}) \subseteq ForwardRequests
    BY <1>1, <2>2, SentForward
  <2>4. CASE Answered(r)
    BY <2>2, <2>3, <2>4 DEF Answered, KeysAnswered, InitialAnswered, SyncAnswered, Probed, Vanished
  <2>5. QED
    BY <2>1, <2>4
<1>8. queue' \in Seq(ForwardSignals)
  <2>1. \/ queue' = queue
        \/ \E kind \in {"tryDelayedSync", "lost", "restored", "drop"} : queue' = Append(queue, Signal(kind))
        \/ r.kind = "initial" /\ r.upto # 0 /\ queue' = Append(queue, Answer("initial", r))
        \/ r.upto # 0 /\ queue' = Append(queue, Answer("response", r))
    BY DEF Serve, Answered, KeysAnswered, InitialAnswered, SyncAnswered, SyncFailed, Probed, Vanished, Post
  <2>2. QED
    BY <1>1, <2>1, SignalForward, AnswerForward, PostForward
<1>9. QED
  BY <1>2, <1>6, <1>7, <1>8, StoredKept, PutTogether

LEMMA LoopStep ==
  IInv /\ (TrySyncCb \/ TryDelayedSyncCb \/ RetryTimeout \/ ConnectionLost \/ ConnectionRestored
           \/ Probe)
    => IInv'
<1> SUFFICES ASSUME IInv,
                    \/ TrySyncCb \/ TryDelayedSyncCb \/ RetryTimeout
                    \/ ConnectionLost \/ ConnectionRestored \/ Probe
             PROVE  IInv'
  OBVIOUS
<1> USE DEF TrySyncCb, TryDelayedSyncCb, RetryTimeout, ConnectionLost, ConnectionRestored, Probe
<1>1. /\ Rest /\ requests \subseteq ForwardRequests /\ queue \in Seq(ForwardSignals)
      /\ 0 \in 0 .. MaxPos /\ 0 <= pos
  BY TakenApart, SyncLoopOK
<1>2. UNCHANGED <<token, saved, handled, user, up, open, world>>
  BY DEF disk
<1>3. requests' \subseteq ForwardRequests
  <2>1. Shutdown \subseteq ForwardRequests /\ Sent("versions", 0, requests) \subseteq ForwardRequests
    BY <1>1, ShutdownForward, SentForward
  <2>2. CASE TrySync(requests) \/ TrySync(Shutdown)
    BY <1>1, <2>1, <2>2, TrySyncForward
  <2>3. QED
    BY <1>1, <2>1, <2>2
<1>4. queue' \in Seq(ForwardSignals)
  BY <1>1, SlotForward DEF Head1
<1>5. delays' \in Nat /\ connected' \in BOOLEAN /\ probing' \in BOOLEAN
  <2>1. delays \in Nat /\ connected \in BOOLEAN /\ probing \in BOOLEAN
    BY <1>1 DEF Rest
  <2>2. delays' \in Nat
    <3>1. delays' = delays \/ delays' = delays + 1 \/ (delays > 0 /\ delays' = delays - 1)
      OBVIOUS
    <3>2. QED
      BY <2>1, <3>1
  <2>3. connected' \in BOOLEAN
    <3>1. connected' = connected \/ connected' = TRUE \/ connected' = FALSE
      OBVIOUS
    <3>2. QED
      BY <2>1, <3>1
  <2>4. probing' \in BOOLEAN
    <3>1. probing' = probing \/ probing' = TRUE \/ probing' = FALSE
      BY DEF TrySync
    <3>2. QED
      BY <2>1, <3>1
  <2>5. QED
    BY <2>2, <2>3, <2>4
<1>6. Rest'
  BY <1>1, <1>2, <1>5 DEF Rest, world
<1>7. QED
  BY <1>2, <1>3, <1>4, <1>6, StoredKept, PutTogether DEF world

\* The answer of the initial sync, or one that follows the token, is saved in
\* one transaction; what fails after it leaves it saved.
LEMMA SaveStep == IInv /\ (InitialSync \/ HandleSyncResponse \/ CrashInResponse) => IInv'
<1> SUFFICES ASSUME IInv, InitialSync \/ HandleSyncResponse \/ CrashInResponse PROVE IInv'
  OBVIOUS
<1> DEFINE s == Head(queue)
<1>1. /\ Stored /\ Rest /\ requests \subseteq ForwardRequests /\ queue \in Seq(ForwardSignals)
      /\ 0 \in 0 .. MaxPos /\ 0 <= pos
  BY TakenApart, SyncLoopOK
<1>2. queue # <<>> /\ s \in ForwardSignals /\ Tail(queue) \in Seq(ForwardSignals)
  BY SlotForward DEF InitialSync, HandleSyncResponse, CrashInResponse, Head1
<1>3. UNCHANGED <<user, pos, purged, valid, logins, env>>
  BY DEF InitialSync, HandleSyncResponse, CrashInResponse
<1>4. s \in Signals /\ (s.kind = "initial" => s.since = 0)
  BY <1>2 DEF ForwardSignals
<1>5. \/ UNCHANGED <<token, saved>>
      \/ (s.since = token \/ s.since = 0) /\ token' = s.upto /\ saved' = Batch(s, saved)
  BY <1>4 DEF InitialSync, HandleSyncResponse, CrashInResponse, Head1, IsNext
<1>6. SavedIsPrefix' /\ token' <= pos' /\ token' \in 0 .. MaxPos /\ saved' \in Seq(Positions)
  BY <1>1, <1>2, <1>3, <1>5, Saves DEF Stored, SavedIsPrefix
<1>7. handled' \in [Positions -> Nat]
  <2>1. UNCHANGED handled \/ Handle(s)
    BY DEF InitialSync, HandleSyncResponse, CrashInResponse
  <2>2. QED
    BY <1>1, <1>4, <2>1, HandleCounts DEF Stored
<1>8. requests' \subseteq ForwardRequests
  <2>1. Sent("initial", 0, requests) \subseteq ForwardRequests
    BY <1>1, SentForward
  <2>2. QED
    BY <1>1, <2>1 DEF InitialSync, HandleSyncResponse, CrashInResponse, MemoryLost
<1>9. queue' \in Seq(ForwardSignals)
  <2>1. Append(Tail(queue), Signal("trySync")) \in Seq(ForwardSignals)
    BY <1>2, SignalForward, PostForward
  <2>2. <<>> \in Seq(ForwardSignals)
    OBVIOUS
  <2>3. queue' \in {Append(Tail(queue), Signal("trySync")), Tail(queue), <<>>}
    BY DEF InitialSync, HandleSyncResponse, CrashInResponse, MemoryLost
  <2>4. QED
    BY <1>2, <2>1, <2>2, <2>3
<1>10. Rest'
  <2>1. errors' = errors \/ (CanFail /\ errors' = errors + 1)
    BY DEF InitialSync, HandleSyncResponse, CrashInResponse
  <2>2. errors' \in 0 .. MaxErrors
    BY <1>1, <2>1, Failing DEF Rest
  <2>3. restarts' \in 0 .. MaxRestarts
    <3>1. restarts' = restarts \/ (restarts < MaxRestarts /\ restarts' = restarts + 1)
      BY DEF InitialSync, HandleSyncResponse, CrashInResponse, MemoryLost
    <3>2. restarts \in 0 .. MaxRestarts /\ MaxRestarts \in Nat
      BY <1>1, SyncLoopOK DEF Rest
    <3>3. QED
      BY <3>1, <3>2
  <2>4. \/ UNCHANGED <<up, open, delays, connected, probing>>
        \/ up' = FALSE /\ open' = FALSE /\ delays' = 0 /\ connected' = TRUE /\ probing' = FALSE
    BY DEF InitialSync, HandleSyncResponse, CrashInResponse, MemoryLost
  <2>5. /\ up' \in BOOLEAN /\ open' \in BOOLEAN /\ delays' \in Nat
        /\ connected' \in BOOLEAN /\ probing' \in BOOLEAN
    <3>1. /\ up \in BOOLEAN /\ open \in BOOLEAN /\ delays \in Nat
          /\ connected \in BOOLEAN /\ probing \in BOOLEAN
      BY <1>1 DEF Rest
    <3>2. CASE UNCHANGED <<up, open, delays, connected, probing>>
      BY <3>1, <3>2
    <3>3. CASE up' = FALSE /\ open' = FALSE /\ delays' = 0 /\ connected' = TRUE /\ probing' = FALSE
      BY <3>3
    <3>4. QED
      BY <2>4, <3>2, <3>3
  <2>6. QED
    BY <1>1, <1>3, <2>2, <2>3, <2>5 DEF Rest
<1>11. Stored'
  BY <1>6, <1>7 DEF Stored
<1>12. QED
  BY <1>3, <1>8, <1>9, <1>10, <1>11, PutTogether

\* The log grows; what was behind its end still is.
LEMMA NewsStep == IInv /\ News => IInv'
<1> SUFFICES ASSUME IInv, News PROVE IInv'
  OBVIOUS
<1>1. /\ pos \in 0 .. MaxPos /\ pos' = pos + 1 /\ pos < MaxPos
      /\ UNCHANGED <<disk, memory, purged, valid, errors, restarts, logins, env>>
  BY TakenApart DEF News
<1>2. pos' \in 0 .. MaxPos /\ \A n \in 0 .. MaxPos : n <= pos => n <= pos'
  BY <1>1, SyncLoopOK
<1>3. ForwardRequests \subseteq ForwardRequests'
  BY <1>2 DEF ForwardRequests, Request
<1>4. ForwardSignals \subseteq ForwardSignals'
  BY <1>2 DEF ForwardSignals, Signals
<1>5. queue' \in Seq(ForwardSignals')
  BY <1>1, <1>4 DEF IInv, memory
<1>6. requests' \subseteq ForwardRequests' /\ token' <= pos'
  BY <1>1, <1>2, <1>3 DEF IInv, TypeOK, memory, disk
<1>7. TypeOK' /\ SavedIsPrefix'
  BY <1>1, <1>2 DEF IInv, TypeOK, SavedIsPrefix, memory, disk
<1>8. QED
  BY <1>5, <1>6, <1>7 DEF IInv

LEMMA NextIInv == IInv /\ [Next]_vars => IInv'
<1> SUFFICES ASSUME IInv, [Next]_vars PROVE IInv'
  OBVIOUS
<1>1. CASE UNCHANGED vars
  BY <1>1, TakenApart, StoredKept, PutTogether DEF vars, disk, memory, world, Rest
<1>2. CASE Slots
  BY <1>2, DropStep, SaveStep, LoopStep DEF Slots
<1>3. CASE Next /\ ~Slots
  BY <1>3, StartStep, SettingsStep, SaveStep, LoopStep, AnswerStep, NewsStep DEF Next
<1>4. QED
  BY <1>1, <1>2, <1>3

------------------------------------------------------------------------------
\* Who carries the loop on.

\* The signals of a queue.
Signalled(q) == {q[i] : i \in DOMAIN q}
Queued(kind) == \E s \in Signalled(queue) : s.kind = kind
Asked(kind)  == \E r \in requests : r.kind = kind

\* What will ask with the token again: a stale request or response will not,
\* nor one that was shut down.
Carries(r) == r.live /\ (r.kind \in {"keys", "initial"} \/ (r.kind = "sync" /\ r.since = token))
Pushes(s) ==
  \/ s.kind \in {"trySync", "tryDelayedSync", "initial", "restored", "drop"}
  \/ s.kind = "response" /\ s.since = token
Carried ==
  \/ \E r \in requests : Carries(r)
  \/ delays > 0
  \/ \E s \in Signalled(queue) : Pushes(s)

\* The connectivity timer runs while its answer is awaited, but for a user
\* who is being dropped.
Quiet == connected /\ ~Asked("versions") /\ ~Queued("lost")

LoopInv ==
  /\ open = up /\ (up => user)
  /\ \A r \in requests : r.kind = "versions" /\ (r.live \/ user) => probing
  /\ user /\ Queued("lost") => probing
  /\ user /\ ~valid => Queued("drop") \/ Quiet
  /\ up /\ ~May("read") => Carried \/ (~connected /\ probing)

LEMMA AppendSignalled ==
  ASSUME NEW S, NEW q \in Seq(S), NEW s \in S
  PROVE  Signalled(Append(q, s)) = Signalled(q) \cup {s}
<1>1. Len(Append(q, s)) = Len(q) + 1 /\ Append(q, s)[Len(q) + 1] = s
      /\ \A i \in 1 .. Len(q) : Append(q, s)[i] = q[i]
  OBVIOUS
<1>2. DOMAIN q = 1 .. Len(q) /\ DOMAIN Append(q, s) = 1 .. Len(q) + 1 /\ Len(q) \in Nat
  OBVIOUS
<1>3. QED
  BY <1>1, <1>2 DEF Signalled

LEMMA TailSignalled ==
  ASSUME NEW S, NEW q \in Seq(S), q # <<>>
  PROVE  Head(q) \in S /\ Tail(q) \in Seq(S) /\ Signalled(q) = {Head(q)} \cup Signalled(Tail(q))
<1>1. Head(q) = q[1] /\ 1 \in DOMAIN q /\ Head(q) \in S /\ Tail(q) \in Seq(S)
  OBVIOUS
<1>2. Len(Tail(q)) = Len(q) - 1 /\ \A i \in 1 .. Len(q) - 1 : Tail(q)[i] = q[i + 1]
  OBVIOUS
<1>3. DOMAIN q = 1 .. Len(q) /\ DOMAIN Tail(q) = 1 .. Len(q) - 1 /\ Len(q) \in Nat
  BY <1>2
<1>4. \A i \in 1 .. Len(q) : i = 1 \/ (i - 1 \in 1 .. Len(q) - 1 /\ Tail(q)[i - 1] = q[i])
  BY <1>2, <1>3
<1>5. \A i \in 1 .. Len(q) - 1 : i + 1 \in 1 .. Len(q)
  BY <1>3
<1>6. Signalled(q) = {q[i] : i \in 1 .. Len(q)}
      /\ Signalled(Tail(q)) = {Tail(q)[i] : i \in 1 .. Len(q) - 1}
  BY <1>3 DEF Signalled
<1>7. \A x \in Signalled(q) : x = Head(q) \/ x \in Signalled(Tail(q))
  BY <1>1, <1>4, <1>6
<1>8. \A x \in Signalled(Tail(q)) : x \in Signalled(q)
  BY <1>2, <1>5, <1>6
<1>9. Head(q) \in Signalled(q)
  BY <1>1 DEF Signalled
<1>10. QED
  BY <1>1, <1>7, <1>8, <1>9

LEMMA Posted ==
  ASSUME IInv, NEW s \in Signals, Post(s)
  PROVE  Signalled(queue') = Signalled(queue) \cup {s}
BY AppendSignalled DEF IInv, TypeOK, Post

LEMMA Popped ==
  ASSUME IInv, queue # <<>>
  PROVE  /\ Head(queue) \in Signals /\ Tail(queue) \in Seq(Signals)
         /\ Signalled(queue) = {Head(queue)} \cup Signalled(Tail(queue))
BY TailSignalled DEF IInv, TypeOK

LEMMA PlainSignal ==
  ASSUME NEW kind \in {"trySync", "tryDelayedSync", "lost", "restored", "drop"}
  PROVE  Signal(kind) \in Signals /\ Signal(kind).kind = kind
BY SyncLoopOK DEF Signal, Signals

\* Requests that were shut down stay what they were, and are not live.
LEMMA ShutdownIs ==
  ASSUME IInv
  PROVE  \A r \in Shutdown : ~r.live /\ \E q \in requests : r = [q EXCEPT !.live = FALSE]
                                                           /\ r.kind = q.kind
BY DEF IInv, TypeOK, Request, Shutdown

\* Without a user the loop needs nobody, and after a restart it begins anew.
LEMMA ForgetLoop == ASSUME IInv, ForgetUser PROVE LoopInv'
BY ShutdownIs DEF ForgetUser, LoopInv

LEMMA LostLoop == ASSUME MemoryLost PROVE LoopInv'
<1>1. /\ up' = FALSE /\ open' = FALSE /\ requests' = {} /\ queue' = <<>> /\ connected' = TRUE
  BY DEF MemoryLost
<1>2. Signalled(queue') = {}
  BY <1>1 DEF Signalled
<1>3. QED
  BY <1>1, <1>2 DEF LoopInv, Queued, Asked, Quiet

LEMMA StartLoop == ASSUME IInv, LoopInv, Start PROVE LoopInv'
<1>1. CASE ForgetUser
  BY <1>1, ForgetLoop
<1>2. CASE Post(Signal("trySync")) /\ up' = TRUE /\ open' = TRUE /\ UNCHANGED <<disk, requests, probing>>
  <2>1. Signalled(queue') = Signalled(queue) \cup {Signal("trySync")} /\ Signal("trySync").kind = "trySync"
    BY <1>2, Posted, PlainSignal
  <2>2. user /\ UNCHANGED <<user, connected, valid, env>>
    BY <1>2 DEF Start, disk, world
  <2>3. QED
    BY <1>2, <2>1, <2>2 DEF LoopInv, Queued, Asked, Quiet, Carried, Pushes
<1>3. CASE requests' = Sent("keys", 0, requests) /\ up' = TRUE /\ open' = TRUE
           /\ UNCHANGED <<disk, queue, probing>>
  <2>1. PICK n \in Request : requests' = requests \cup {n} /\ n.kind = "keys" /\ n.live
    BY <1>3, SentIs, SyncLoopOK
  <2>2. user /\ UNCHANGED <<user, connected, valid, env>>
    BY <1>3 DEF Start, disk, world
  <2>3. QED
    BY <1>3, <2>1, <2>2 DEF LoopInv, Queued, Asked, Quiet, Carried, Carries
<1>4. QED
  BY <1>1, <1>2, <1>3 DEF Start

LEMMA LoginLoop == ASSUME IInv, LoopInv, Login PROVE LoopInv'
<1>1. /\ ~user /\ queue = <<>> /\ \A r \in requests : r.live
      /\ user' = TRUE /\ valid' = TRUE /\ UNCHANGED memory
  BY DEF Login
<1>2. Signalled(queue) = {}
  BY <1>1 DEF Signalled
<1>3. QED
  BY <1>1, <1>2 DEF LoopInv, Queued, memory

LEMMA LogoutLoop == ASSUME IInv, LoopInv, Logout PROVE LoopInv'
<1>1. /\ UNCHANGED <<user, up, open, requests, token, delays, connected, probing, env>>
      /\ Post(Signal("drop")) /\ valid' = FALSE
  BY DEF Logout, disk
<1>2. Signalled(queue') = Signalled(queue) \cup {Signal("drop")} /\ Signal("drop").kind = "drop"
  BY <1>1, Posted, PlainSignal
<1>3. QED
  BY <1>1, <1>2 DEF LoopInv, Queued, Carried, Carries, Pushes
LEMMA DropLoop == ASSUME IInv, Drop PROVE LoopInv'
BY ForgetLoop DEF Drop

\* Who is connected stays, a user who is dropped will be, and nothing is lost
\* but what a probe has lost.
LEMMA FrameLoop ==
  ASSUME LoopInv, UNCHANGED <<user, up, open, connected, probing, valid, env>>,
         \A r \in requests' : r.kind = "versions" => r \in requests,
         \A s \in Signalled(queue') :
           s.kind = "lost" => s \in Signalled(queue) \/ Asked("versions"),
         \A s \in Signalled(queue) : s.kind = "drop" => s \in Signalled(queue'),
         up /\ Carried => Carried'
  PROVE  LoopInv'
<1>1. Asked("versions")' => Asked("versions")
  BY DEF Asked
<1>2. Queued("lost")' => Queued("lost") \/ Asked("versions")
  BY DEF Queued
<1>3. Queued("drop") => Queued("drop")'
  BY DEF Queued
<1>4. user /\ Asked("versions") => probing
  BY DEF Asked, LoopInv
<1>5. user' /\ ~valid' => Queued("drop")' \/ Quiet'
  BY <1>1, <1>2, <1>3 DEF LoopInv, Quiet
<1>6. user' /\ Queued("lost")' => probing'
  BY <1>2, <1>4 DEF LoopInv
<1>7. \A r \in requests' : r.kind = "versions" /\ (r.live \/ user') => probing'
  BY DEF LoopInv
<1>8. up' /\ ~May("read")' => Carried' \/ (~connected' /\ probing')
  BY DEF LoopInv, May
<1>9. QED
  BY <1>5, <1>6, <1>7, <1>8 DEF LoopInv

\* A request that ends hands on what it carried.
LEMMA AnswerLoop ==
  ASSUME IInv, LoopInv, NEW r \in requests, Serve(r) \/ Answered(r) PROVE LoopInv'
<1>1. UNCHANGED <<user, token, up, open, delays, connected, probing, valid, env>>
  BY DEF Serve, Answered, KeysAnswered, InitialAnswered, SyncAnswered, Probed, Vanished, disk, world
<1>2. r \in Request /\ requests \subseteq Request
  BY DEF IInv, TypeOK
<1>3. ASSUME NEW n, requests' = (requests \ {r}) \cup {n}, n.kind # "versions",
             Carries(r) => Carries(n), queue' = queue
      PROVE  LoopInv'
  <2>1. Carries(n) => Carries(n)'
    BY <1>1 DEF Carries
  <2>2. \A q \in requests \ {r} : Carries(q) => Carries(q)'
    BY <1>1 DEF Carries
  <2>3. \A s : Pushes(s) => Pushes(s)'
    BY <1>1 DEF Pushes
  <2>4. Carried => Carried'
    BY <1>1, <1>3, <2>1, <2>2, <2>3 DEF Carried
  <2>5. QED
    BY <1>1, <1>3, <2>4, FrameLoop
<1>4. ASSUME requests' = requests \ {r}, NEW q, Signalled(queue') = Signalled(queue) \cup q,
             Carries(r) => \E s \in q : Pushes(s),
             \A s \in q : s.kind = "lost" => r.kind = "versions"
      PROVE  LoopInv'
  <2>1. \A x \in requests : Carries(x) => x = r \/ (x \in requests' /\ Carries(x)')
    BY <1>1, <1>4 DEF Carries
  <2>2. \A s \in Signalled(queue') : Pushes(s) => Pushes(s)'
    BY <1>1 DEF Pushes
  <2>3. Carried => Carried'
    BY <1>1, <1>4, <2>1, <2>2 DEF Carried
  <2>4. QED
    BY <1>1, <1>4, <2>3, FrameLoop DEF Asked
<1>5. ASSUME NEW s \in Signals, Post(s), requests' = requests \ {r},
             Carries(r) => Pushes(s), s.kind = "lost" => r.kind = "versions"
      PROVE  LoopInv'
  <2>1. Signalled(queue') = Signalled(queue) \cup {s}
    BY <1>5, Posted
  <2>2. Carries(r) => \E x \in {s} : Pushes(x)
    BY <1>5
  <2>3. \A x \in {s} : x.kind = "lost" => r.kind = "versions"
    BY <1>5
  <2>4. QED
    BY <1>4, <1>5, <2>1, <2>2, <2>3
<1>6. CASE Serve(r)
  <2> DEFINE served == [r EXCEPT !.upto = pos, !.from = purged']
  <2>1. served.kind = r.kind /\ served.since = r.since /\ served.live = r.live
    BY <1>2 DEF Request
  <2>2. requests' = (requests \ {r}) \cup {served} /\ queue' = queue /\ r.kind # "versions"
    BY <1>6 DEF Serve
  <2> HIDE DEF served
  <2>3. QED
    BY <1>3, <2>1, <2>2 DEF Carries
<1>7. CASE requests' = Sent("initial", 0, requests \ {r}) /\ queue' = queue
  <2>1. PICK n \in Request : requests' = (requests \ {r}) \cup {n} /\ n.kind = "initial" /\ n.live
    BY <1>7, SentIs, SyncLoopOK
  <2>2. QED
    BY <1>3, <1>7, <2>1 DEF Carries
<1>8. CASE requests' = requests \ {r} /\ \E kind \in {"drop", "tryDelayedSync"} : Post(Signal(kind))
  BY <1>5, <1>8, PlainSignal DEF Pushes
<1>9. CASE r.kind = "initial" /\ requests' = requests \ {r} /\ Post(Answer("initial", r))
  <2>1. Answer("initial", r) \in Signals /\ Answer("initial", r).kind = "initial"
    BY <1>2 DEF Answer, Request, Signals
  <2>2. QED
    BY <1>5, <1>9, <2>1 DEF Pushes
<1>10. CASE r.kind = "sync" /\ requests' = requests \ {r} /\ Post(Answer("response", r))
  <2>1. /\ Answer("response", r) \in Signals /\ Answer("response", r).kind = "response"
        /\ Answer("response", r).since = r.since
    BY <1>2 DEF Answer, Request, Signals
  <2>2. QED
    BY <1>5, <1>10, <2>1 DEF Carries, Pushes
<1>11. CASE Probed(r)
  <2>1. r.kind = "versions" /\ requests' = requests \ {r} /\ ~Carries(r)
    BY <1>11 DEF Probed, Carries
  <2>2. CASE UNCHANGED queue
    BY <1>4, <2>1, <2>2
  <2>3. CASE Post(Signal("restored")) \/ Post(Signal("lost"))
    BY <1>5, <2>1, <2>3, PlainSignal
  <2>4. QED
    BY <1>11, <2>2, <2>3 DEF Probed
<1>12. CASE Vanished(r)
  <2>1. ~Carries(r) /\ requests' = requests \ {r} /\ queue' = queue
    BY <1>12 DEF Vanished, Carries
  <2>2. PICK q : q = {}
    OBVIOUS
  <2>3. /\ Signalled(queue') = Signalled(queue) \cup q
        /\ Carries(r) => \E s \in q : Pushes(s)
        /\ \A s \in q : s.kind = "lost" => r.kind = "versions"
    BY <2>1, <2>2
  <2>4. QED
    BY <1>4, <2>1, <2>3
<1>13. QED
  BY <1>6, <1>7, <1>8, <1>9, <1>10, <1>11, <1>12
     DEF Answered, KeysAnswered, InitialAnswered, SyncAnswered, SyncFailed
\* trySync with a database that can be read asks with the token.
LEMMA TrySyncCarries ==
  ASSUME IInv, LoopInv, NEW reqs, TrySync(reqs), UNCHANGED <<token, up, open, env>>
  PROVE  /\ probing'
         /\ up' /\ ~May("read")' => Carried'
         /\ \A r \in requests' : r.kind = "versions" => r \in reqs
<1>1. token \in 0 .. MaxPos
  BY DEF IInv, TypeOK
<1>2. PICK n \in Request : Sent("sync", token, reqs) = reqs \cup {n}
                           /\ n.kind = "sync" /\ n.since = token /\ n.live
  BY <1>1, SentIs
<1>3. up' /\ ~May("read")' => requests' = reqs \cup {n}
  BY <1>2 DEF TrySync, LoopInv, May
<1>4. up' /\ ~May("read")' => Carried'
  BY <1>2, <1>3 DEF Carried, Carries
<1>5. \A r \in requests' : r.kind = "versions" => r \in reqs
  BY <1>2 DEF TrySync
<1>6. QED
  BY <1>4, <1>5 DEF TrySync

\* Whoever asks again carries the loop, whatever the connection.
LEMMA AskLoop ==
  ASSUME LoopInv, UNCHANGED <<user, up, open, valid, env>>,
         connected' = connected \/ connected', probing',
         \A r \in requests' : r.kind = "versions" => \E q \in requests : q.kind = "versions",
         Signalled(queue') \subseteq Signalled(queue),
         \A s \in Signalled(queue) : s.kind = "drop" => s \in Signalled(queue'),
         up' /\ ~May("read")' => Carried'
  PROVE  LoopInv'
<1>1. (Asked("versions")' => Asked("versions")) /\ (Queued("lost")' => Queued("lost"))
      /\ (Queued("drop") => Queued("drop")')
  BY DEF Asked, Queued
<1>2. user' /\ ~valid' => Queued("drop")' \/ Quiet'
  BY <1>1 DEF LoopInv, Quiet
<1>3. QED
  BY <1>2 DEF LoopInv

LEMMA TrySyncLoop ==
  ASSUME IInv, LoopInv, TrySyncCb \/ RetryTimeout \/ ConnectionRestored PROVE LoopInv'
<1>1. UNCHANGED <<user, token, up, open, valid, env>> /\ (connected' = connected \/ connected')
  BY DEF TrySyncCb, RetryTimeout, ConnectionRestored, disk, world
<1>2. \/ queue' = queue
      \/ queue # <<>> /\ queue' = Tail(queue) /\ Head(queue).kind \in {"trySync", "restored"}
  BY DEF TrySyncCb, RetryTimeout, ConnectionRestored, Head1
<1>3. /\ Signalled(queue') \subseteq Signalled(queue)
      /\ \A s \in Signalled(queue) : s.kind = "drop" => s \in Signalled(queue')
  BY <1>2, Popped
<1>4. PICK reqs \in {requests, Shutdown} : TrySync(reqs)
  BY DEF TrySyncCb, RetryTimeout, ConnectionRestored
<1>5. \A r \in reqs : \E q \in requests : r.kind = q.kind
  BY <1>4, ShutdownIs
<1>6. QED
  BY <1>1, <1>3, <1>4, <1>5, TrySyncCarries, AskLoop

LEMMA DelayLoop == ASSUME IInv, LoopInv, TryDelayedSyncCb PROVE LoopInv'
<1>1. /\ UNCHANGED <<disk, up, open, requests, connected, probing, world>>
      /\ queue # <<>> /\ Head(queue).kind = "tryDelayedSync" /\ queue' = Tail(queue)
      /\ delays' = delays + 1 /\ delays \in Nat
  BY DEF TryDelayedSyncCb, Head1, IInv, TypeOK
<1>2. Carried'
  BY <1>1 DEF Carried
<1>3. QED
  BY <1>1, <1>2, Popped, FrameLoop DEF disk, world

LEMMA ConnectionLostLoop == ASSUME IInv, LoopInv, ConnectionLost PROVE LoopInv'
<1>1. /\ UNCHANGED <<disk, up, open, delays, probing, world>>
      /\ queue # <<>> /\ Head(queue).kind = "lost" /\ queue' = Tail(queue)
      /\ connected' = FALSE /\ requests' = Shutdown
  BY DEF ConnectionLost, Head1
<1>2. Queued("lost") /\ (Queued("drop") => Queued("drop")')
  BY <1>1, Popped DEF Queued
<1>3. user => probing
  BY <1>2 DEF LoopInv
<1>4. user /\ ~valid => Queued("drop")'
  BY <1>2 DEF LoopInv, Quiet
<1>5. \A r \in requests' : ~r.live
  BY <1>1, ShutdownIs
<1>6. QED
  BY <1>1, <1>3, <1>4, <1>5 DEF LoopInv, disk, world

LEMMA ProbeLoop == ASSUME IInv, LoopInv, Probe PROVE LoopInv'
<1>1. UNCHANGED <<disk, up, open, queue, delays, connected, world>>
      /\ ~Asked("versions") /\ ~Queued("lost") /\ probing
  BY DEF Probe, Asked, Queued, Signalled
<1>2. CASE valid /\ requests' = Sent("versions", 0, requests) /\ UNCHANGED probing
  <2>1. PICK n \in Request : requests' = requests \cup {n} /\ n.kind = "versions"
    BY <1>2, SentIs, SyncLoopOK
  <2>2. Carried => Carried'
    BY <1>1, <2>1 DEF Carried, Carries, Pushes, disk
  <2>3. QED
    BY <1>1, <1>2, <2>2 DEF LoopInv, Queued, May, disk, world
<1>3. CASE ~valid /\ probing' = FALSE /\ UNCHANGED requests
  <2>1. Carried' = Carried /\ Queued("drop")' = Queued("drop") /\ ~Asked("versions")' /\ ~Queued("lost")'
    BY <1>1, <1>3 DEF Carried, Carries, Pushes, Queued, Asked, disk
  <2>2. up /\ ~connected => Carried
    <3>1. up /\ ~connected => Queued("drop")
      BY <1>1, <1>3 DEF LoopInv, Quiet
    <3>2. QED
      BY <3>1 DEF Carried, Pushes, Queued
  <2>3. \A r \in requests' : r.kind # "versions"
    BY <1>1, <1>3 DEF Asked
  <2>4. QED
    BY <1>1, <1>3, <2>1, <2>2, <2>3 DEF LoopInv, Quiet, May, disk, world
<1>4. QED
  BY <1>2, <1>3 DEF Probe
\* An answer that is taken is followed by trySync; one that is not pushed nothing.
LEMMA SaveLoop ==
  ASSUME IInv, LoopInv, InitialSync \/ HandleSyncResponse PROVE LoopInv'
<1>1. /\ UNCHANGED <<user, up, open, delays, connected, probing, valid, env>>
      /\ queue # <<>> /\ Head(queue).kind \in {"initial", "response"}
  BY DEF InitialSync, HandleSyncResponse, Head1
<1>2. Tail(queue) \in Seq(Signals) /\ Signalled(queue) = {Head(queue)} \cup Signalled(Tail(queue))
  BY <1>1, Popped
<1>3. CASE queue' = Append(Tail(queue), Signal("trySync")) /\ requests' = requests
  <2>1. Signal("trySync") \in Signals /\ Signal("trySync").kind = "trySync"
    BY PlainSignal
  <2>2. Signalled(queue') = Signalled(Tail(queue)) \cup {Signal("trySync")}
    <3> DEFINE q == Tail(queue)
    <3>1. q \in Seq(Signals)
      BY <1>2
    <3> HIDE DEF q
    <3>2. Signalled(Append(q, Signal("trySync"))) = Signalled(q) \cup {Signal("trySync")}
      BY <2>1, <3>1, AppendSignalled
    <3>3. QED
      BY <1>3, <3>2 DEF q
  <2>3. Carried'
    BY <2>1, <2>2 DEF Carried, Pushes
  <2>4. QED
    BY <1>1, <1>2, <1>3, <2>1, <2>2, <2>3, FrameLoop
<1>4. CASE queue' = Tail(queue) /\ requests' = Sent("initial", 0, requests)
  <2>1. PICK n \in Request : requests' = requests \cup {n} /\ n.kind = "initial" /\ n.live
    BY <1>4, SentIs, SyncLoopOK
  <2>2. Carried'
    BY <2>1 DEF Carried, Carries
  <2>3. QED
    BY <1>1, <1>2, <1>4, <2>1, <2>2, FrameLoop
<1>5. CASE Head(queue).kind = "response" /\ ~IsNext(Head(queue)) /\ queue' = Tail(queue)
           /\ UNCHANGED <<requests, token>>
  <2>1. up => ~Pushes(Head(queue))
    BY <1>5 DEF IsNext, LoopInv, Pushes
  <2>2. up /\ Carried => Carried'
    BY <1>1, <1>2, <1>5, <2>1 DEF Carried, Carries, Pushes
  <2>3. QED
    BY <1>1, <1>2, <1>5, <2>2, FrameLoop
<1>6. QED
  BY <1>3, <1>4, <1>5 DEF InitialSync, HandleSyncResponse, Head1

LEMMA NextLoop == ASSUME IInv, LoopInv, [Next]_vars PROVE LoopInv'
<1>1. CASE UNCHANGED vars
  BY <1>1 DEF vars, disk, memory, world, LoopInv, Quiet, Queued, Asked, Carried, Carries, Pushes, May
<1>2. CASE News
  BY <1>2 DEF News, disk, memory, LoopInv, Quiet, Queued, Asked, Carried, Carries, Pushes, May
<1>3. CASE Restart \/ CrashInResponse
  BY <1>3, LostLoop DEF Restart, CrashInResponse
<1>4. QED
  BY <1>1, <1>2, <1>3, StartLoop, LoginLoop, LogoutLoop, DropLoop, AnswerLoop, TrySyncLoop, DelayLoop,
     ConnectionLostLoop, ProbeLoop, SaveLoop DEF Next, Slots

LEMMA InitLoop == Init => LoopInv
<1> SUFFICES ASSUME Init PROVE LoopInv
  OBVIOUS
<1>1. Signalled(queue) = {} /\ requests = {} /\ up = FALSE /\ open = FALSE /\ connected = TRUE
  BY DEF Init, Signalled
<1>2. QED
  BY <1>1 DEF LoopInv, Queued, Asked, Quiet

------------------------------------------------------------------------------
\* How often a to-device message is handled.

First(r) == r.kind \in {"keys", "initial"}
Carrier(s) == s.kind \in {"initial", "response"}

Served(R)     == \A r \in R : r.upto # 0 => r.since <= r.from
Within(R)     == \A r \in R : r.since <= token /\ r.from <= token
OneFirst(R)   == \A r, q \in R : First(r) /\ First(q) => r = q
OneInitial(q) == \A i, j \in DOMAIN q : q[i].kind = "initial" /\ q[j].kind = "initial" => i = j

HandledInv ==
  \A p \in Positions :
    /\ handled[p] <= 1
    /\ p > token => handled[p] = 0
    /\ p <= token /\ "crash" \notin env => handled[p] = 1

\* The server has purged no more than the user has saved, so that an answer
\* which is taken starts with the messages behind the token.
FromInv ==
  /\ purged <= token
  /\ Within(requests)
  /\ \A s \in Signalled(queue) : Carrier(s) => s.since <= s.from /\ s.from <= token

\* Of the steps of the first sync one is under way, and nothing else is while
\* there is no token: trySync starts the timers, and comes after it.
Alone ==
  /\ ~probing /\ delays = 0
  /\ \A r \in requests : First(r)
  /\ \A s \in Signalled(queue) : s.kind = "drop" \/ (s.kind = "initial" /\ s.upto # 0)

FirstInv ==
  /\ OneFirst(requests) /\ OneInitial(queue)
  /\ \A r \in requests : First(r) => up /\ token = 0 /\ ~Queued("initial")
  /\ Queued("initial") => up /\ token = 0
  /\ token = 0 => Alone

OnceInv ==
  env \cap {"write", "relogin"} = {} =>
    /\ Served(requests) /\ HandledInv
    /\ ~user => token = 0
    /\ user => FromInv /\ FirstInv

LEMMA ShutdownKeeps ==
  ASSUME IInv
  PROVE  /\ Served(requests) => Served(Shutdown)
         /\ Within(requests) => Within(Shutdown)
         /\ OneFirst(requests) => OneFirst(Shutdown)
         /\ \A r \in Shutdown : First(r) => \E q \in requests : First(q)
<1>1. \A r \in Shutdown : \E q \in requests :
        /\ r = [q EXCEPT !.live = FALSE] /\ r.kind = q.kind
        /\ r.since = q.since /\ r.from = q.from /\ r.upto = q.upto
  BY DEF IInv, TypeOK, Request, Shutdown
<1>2. OneFirst(requests) => OneFirst(Shutdown)
  <2>1. SUFFICES ASSUME OneFirst(requests), NEW r \in Shutdown, NEW t \in Shutdown,
                        First(r), First(t)
                 PROVE  r = t
    BY DEF OneFirst
  <2>2. PICK q \in requests : r = [q EXCEPT !.live = FALSE] /\ r.kind = q.kind
    BY <1>1
  <2>3. PICK u \in requests : t = [u EXCEPT !.live = FALSE] /\ t.kind = u.kind
    BY <1>1
  <2>4. q = u
    BY <2>1, <2>2, <2>3 DEF OneFirst, First
  <2>5. QED
    BY <2>2, <2>3, <2>4
<1>3. (Served(requests) => Served(Shutdown)) /\ (Within(requests) => Within(Shutdown))
  BY <1>1 DEF Served, Within
<1>4. \A r \in Shutdown : First(r) => \E q \in requests : First(q)
  BY <1>1 DEF First
<1>5. QED
  BY <1>2, <1>3, <1>4

LEMMA OneInitialTail ==
  ASSUME IInv, queue # <<>>, OneInitial(queue)
  PROVE  /\ OneInitial(Tail(queue))
         /\ Head(queue).kind = "initial" => \A s \in Signalled(Tail(queue)) : s.kind # "initial"
<1>1. queue \in Seq(Signals)
  BY DEF IInv, TypeOK
<1>2. /\ Head(queue) = queue[1] /\ 1 \in DOMAIN queue
      /\ \A i \in DOMAIN Tail(queue) : i \in Nat /\ i > 0 /\ i + 1 \in DOMAIN queue
                                       /\ Tail(queue)[i] = queue[i + 1]
  BY <1>1
<1>3. OneInitial(Tail(queue))
  <2>1. SUFFICES ASSUME NEW i \in DOMAIN Tail(queue), NEW j \in DOMAIN Tail(queue),
                        Tail(queue)[i].kind = "initial", Tail(queue)[j].kind = "initial"
                 PROVE  i = j
    BY DEF OneInitial
  <2>2. i + 1 = j + 1
    BY <1>2, <2>1 DEF OneInitial
  <2>3. QED
    BY <1>2, <2>2
<1>4. ASSUME Head(queue).kind = "initial", NEW i \in DOMAIN Tail(queue)
      PROVE  Tail(queue)[i].kind # "initial"
  <2>1. queue[i + 1].kind = "initial" => i + 1 = 1
    BY <1>2, <1>4 DEF OneInitial
  <2>2. QED
    BY <1>2, <2>1
<1>5. QED
  BY <1>3, <1>4 DEF Signalled

LEMMA OneInitialAppend ==
  ASSUME NEW q \in Seq(Signals), NEW s \in Signals, OneInitial(q),
         s.kind = "initial" => \A x \in Signalled(q) : x.kind # "initial"
  PROVE  OneInitial(Append(q, s))
<1>1. Len(Append(q, s)) = Len(q) + 1 /\ Append(q, s)[Len(q) + 1] = s
      /\ \A i \in 1 .. Len(q) : Append(q, s)[i] = q[i]
  OBVIOUS
<1>2. DOMAIN q = 1 .. Len(q) /\ DOMAIN Append(q, s) = 1 .. Len(q) + 1 /\ Len(q) \in Nat
  OBVIOUS
<1>3. \A i \in 1 .. Len(q) + 1 : i \in 1 .. Len(q) \/ i = Len(q) + 1
  BY <1>2
<1>4. \A i \in 1 .. Len(q) : q[i] \in Signalled(q)
  BY <1>2 DEF Signalled
<1>5. SUFFICES ASSUME NEW i \in 1 .. Len(q) + 1, NEW j \in 1 .. Len(q) + 1,
                      Append(q, s)[i].kind = "initial", Append(q, s)[j].kind = "initial"
               PROVE  i = j
  BY <1>2 DEF OneInitial
<1>6. CASE i \in 1 .. Len(q) /\ j \in 1 .. Len(q)
  BY <1>1, <1>2, <1>5, <1>6 DEF OneInitial
<1>7. CASE i = Len(q) + 1 /\ j \in 1 .. Len(q)
  BY <1>1, <1>4, <1>5, <1>7
<1>8. CASE i \in 1 .. Len(q) /\ j = Len(q) + 1
  BY <1>1, <1>4, <1>5, <1>8
<1>9. QED
  BY <1>3, <1>6, <1>7, <1>8

\* An answer that follows the token: what it handles was not handled.
LEMMA HandleOnce ==
  ASSUME IInv, HandledInv, NEW s \in Signals, s.from = token, s.from <= s.upto,
         Handle(s), token' = s.upto, UNCHANGED env
  PROVE  HandledInv'
<1>1. token \in Nat /\ s.upto \in Nat /\ handled \in [Positions -> Nat] /\ Positions \subseteq Nat
  BY SyncLoopOK DEF IInv, TypeOK, Signals, Positions
<1>2. SUFFICES ASSUME NEW p \in Positions
               PROVE  /\ handled'[p] <= 1
                      /\ p > s.upto => handled'[p] = 0
                      /\ p <= s.upto /\ "crash" \notin env => handled'[p] = 1
  BY DEF HandledInv
<1>3. handled'[p] = IF p \in token + 1 .. s.upto THEN handled[p] + 1 ELSE handled[p]
  BY DEF Handle
<1>4. p \in Nat /\ handled[p] \in Nat
  BY <1>1
<1>5. CASE p > token /\ p <= s.upto
  BY <1>1, <1>3, <1>4, <1>5 DEF HandledInv
<1>6. CASE ~(p > token /\ p <= s.upto)
  BY <1>1, <1>3, <1>4, <1>6 DEF HandledInv
<1>7. QED
  BY <1>5, <1>6

\* Steps that store nothing, and let at most one more request leave that is not
\* part of the first sync.
LEMMA FrameOnce ==
  ASSUME IInv, OnceInv, UNCHANGED <<user, token, handled, purged, env>>, user => up' = up,
         NEW R \in {requests, Shutdown}, NEW n,
         requests' \subseteq R \cup {n}, ~First(n), n.upto = 0, n.from = 0,
         n.since \in Nat, n.since <= token,
         user /\ OneInitial(queue) => OneInitial(queue'),
         token = 0 /\ Alone => Alone',
         \A s \in Signalled(queue') : Carrier(s) => s \in Signalled(queue)
  PROVE  OnceInv'
<1>1. SUFFICES ASSUME env \cap {"write", "relogin"} = {}
               PROVE  /\ Served(requests)' /\ HandledInv'
                      /\ user => FromInv' /\ FirstInv'
  BY DEF OnceInv
<1>2. Served(R) /\ (Within(requests) => Within(R)) /\ (OneFirst(requests) => OneFirst(R))
      /\ \A r \in R : First(r) => \E q \in requests : First(q)
  BY <1>1, ShutdownKeeps DEF OnceInv
<1>3. token \in Nat
  BY DEF IInv, TypeOK
<1>4. Served(requests)' /\ HandledInv'
  BY <1>1, <1>2 DEF Served, HandledInv, OnceInv
<1>5. ASSUME user PROVE FromInv'
  <2>1. FromInv
    BY <1>1, <1>5 DEF OnceInv
  <2>2. Within(requests)'
    BY <1>2, <1>3, <2>1 DEF FromInv, Within
  <2>3. QED
    BY <2>1, <2>2 DEF FromInv, Carrier
<1>6. ASSUME user PROVE FirstInv'
  <2>1. FirstInv
    BY <1>1, <1>6 DEF OnceInv
  <2>2. OneFirst(requests)'
    BY <1>2, <2>1 DEF FirstInv, OneFirst
  <2>3. Queued("initial")' => Queued("initial")
    BY DEF Queued, Carrier
  <2>4. \A r \in requests' : First(r) => \E q \in requests : First(q)
    BY <1>2
  <2>5. QED
    BY <1>6, <2>1, <2>2, <2>3, <2>4 DEF FirstInv
<1>7. QED
  BY <1>4, <1>5, <1>6

LEMMA ForgetOnce ==
  ASSUME IInv, OnceInv, ForgetUser, UNCHANGED env PROVE OnceInv'
<1>1. /\ user' = FALSE /\ token' = 0 /\ handled' = [p \in Positions |-> 0]
      /\ requests' = Shutdown
  BY DEF ForgetUser
<1>2. HandledInv'
  BY <1>1 DEF HandledInv, Positions
<1>3. env \cap {"write", "relogin"} = {} => Served(requests)'
  BY <1>1, ShutdownKeeps DEF OnceInv, Served
<1>4. QED
  BY <1>1, <1>2, <1>3 DEF OnceInv

LEMMA RestartOnce == ASSUME IInv, OnceInv, Restart PROVE OnceInv'
<1>1. /\ requests' = {} /\ queue' = <<>> /\ delays' = 0 /\ probing' = FALSE
      /\ UNCHANGED <<user, token, handled, purged, env>>
  BY DEF Restart, MemoryLost, disk
<1>2. Signalled(queue') = {}
  BY <1>1 DEF Signalled
<1>3. QED
  BY <1>1, <1>2 DEF OnceInv, Served, HandledInv, FromInv, Within, FirstInv, OneFirst, OneInitial, Queued,
                    Alone

\* The program ends before the messages are handled: env has a crash.
LEMMA CrashOnce == ASSUME IInv, LoopInv, OnceInv, CrashInResponse PROVE OnceInv'
<1> DEFINE s == Head(queue)
<1>1. /\ requests' = {} /\ queue' = <<>> /\ delays' = 0 /\ probing' = FALSE
      /\ UNCHANGED <<user, handled, purged, env>>
      /\ "crash" \in env /\ token' = s.upto /\ s.since = token /\ open
      /\ queue # <<>>
  BY DEF CrashInResponse, MemoryLost, IsNext, May, Head1
<1>2. s \in ForwardSignals
  BY <1>1, SlotForward
<1>3. token \in Nat /\ token' \in Nat /\ token <= token' /\ purged \in Nat
  BY <1>1, <1>2 DEF IInv, TypeOK, ForwardSignals, Signals
<1>4. user
  BY <1>1 DEF LoopInv
<1>5. Signalled(queue') = {}
  BY <1>1 DEF Signalled
<1>6. HandledInv => HandledInv'
  BY <1>1, <1>3 DEF HandledInv, Positions
<1>7. FromInv => FromInv'
  BY <1>1, <1>3, <1>5 DEF FromInv, Within
<1>8. FirstInv'
  BY <1>1, <1>5 DEF FirstInv, OneFirst, OneInitial, Queued, Alone
<1>9. Served(requests)'
  BY <1>1 DEF Served
<1>10. QED
  BY <1>1, <1>4, <1>6, <1>7, <1>8, <1>9 DEF OnceInv

LEMMA StartOnce == ASSUME IInv, OnceInv, Start PROVE OnceInv'
<1>1. UNCHANGED env /\ user /\ ~up
  BY DEF Start, world
<1>2. CASE ForgetUser
  BY <1>1, <1>2, ForgetOnce
<1>3. CASE /\ token # 0 /\ Post(Signal("trySync")) /\ up' = TRUE
           /\ UNCHANGED <<disk, requests, purged>>
  <2>1. Signalled(queue') = Signalled(queue) \cup {Signal("trySync")}
        /\ Signal("trySync").kind = "trySync" /\ Signal("trySync") \in Signals
    BY <1>3, Posted, PlainSignal
  <2>2. OneInitial(queue) => OneInitial(queue')
    BY <1>3, <2>1, OneInitialAppend DEF Post, IInv, TypeOK
  <2>3. QED
    BY <1>1, <1>3, <2>1, <2>2 DEF OnceInv, HandledInv, FromInv, Within, Carrier, FirstInv, Queued, disk
<1>4. CASE requests' = Sent("keys", 0, requests) /\ token = 0 /\ up' = TRUE
           /\ UNCHANGED <<disk, queue, probing, delays, purged>>
  <2>1. PICK n \in Request : requests' = requests \cup {n} /\ n.kind = "keys" /\ n.since = 0
                             /\ n.upto = 0 /\ n.from = 0
    BY <1>4, SentIs, SyncLoopOK
  <2>2. SUFFICES ASSUME env \cap {"write", "relogin"} = {}
                 PROVE  Served(requests)' /\ HandledInv' /\ FromInv' /\ FirstInv'
    BY <1>1, <1>4 DEF OnceInv, disk
  <2>3. Served(requests) /\ HandledInv /\ FromInv /\ FirstInv
    BY <1>1, <2>2 DEF OnceInv
  <2>4. (\A r \in requests : ~First(r)) /\ ~Queued("initial")
    BY <1>1, <2>3 DEF FirstInv
  <2>5. Served(requests)' /\ HandledInv'
    BY <1>4, <1>1, <2>1, <2>3 DEF Served, HandledInv, disk
  <2>6. FromInv'
    BY <1>4, <2>1, <2>3 DEF FromInv, Within, disk
  <2>7. FirstInv'
    <3>1. OneFirst(requests)' /\ Alone'
      BY <1>4, <2>1, <2>3, <2>4 DEF FirstInv, OneFirst, Alone, First, disk
    <3>2. QED
      BY <1>4, <2>3, <2>4, <3>1 DEF FirstInv, Queued, disk
  <2>8. QED
    BY <2>5, <2>6, <2>7
<1>5. QED
  BY <1>2, <1>3, <1>4 DEF Start, world

LEMMA PostOnce ==
  ASSUME IInv, NEW s \in Signals, Post(s), ~Carrier(s)
  PROVE  /\ OneInitial(queue) => OneInitial(queue')
         /\ \A t \in Signalled(queue') : Carrier(t) => t \in Signalled(queue)
BY Posted, OneInitialAppend DEF Post, IInv, TypeOK, Carrier

LEMMA PopOnce ==
  ASSUME IInv, queue # <<>>, queue' = Tail(queue)
  PROVE  /\ OneInitial(queue) => OneInitial(queue')
         /\ \A t \in Signalled(queue') : Carrier(t) => t \in Signalled(queue)
BY Popped, OneInitialTail

\* Steps that let no request leave.
LEMMA QuietOnce ==
  ASSUME IInv, OnceInv, UNCHANGED <<user, token, handled, purged, env>>, user => up' = up,
         NEW R \in {requests, Shutdown}, requests' \subseteq R,
         OneInitial(queue) => OneInitial(queue'), token = 0 /\ Alone => Alone',
         \A s \in Signalled(queue') : Carrier(s) => s \in Signalled(queue)
  PROVE  OnceInv'
<1> DEFINE n == [kind |-> "sync", since |-> 0, upto |-> 0, from |-> 0]
<1>1. ~First(n) /\ n.upto = 0 /\ n.from = 0 /\ n.since \in Nat /\ n.since <= token
  BY DEF First, IInv, TypeOK
<1> HIDE DEF n
<1>2. requests' \subseteq R \cup {n}
  OBVIOUS
<1>3. QED
  BY <1>1, <1>2, FrameOnce

LEMMA TrySyncOnce ==
  ASSUME IInv, OnceInv, TrySyncCb \/ RetryTimeout \/ ConnectionRestored PROVE OnceInv'
<1>1. UNCHANGED <<user, token, handled, purged, up, env>>
  BY DEF TrySyncCb, RetryTimeout, ConnectionRestored, disk, world
<1>2. queue' = queue \/ (queue # <<>> /\ queue' = Tail(queue))
  BY DEF TrySyncCb, RetryTimeout, ConnectionRestored, Head1
<1>3. PICK R \in {requests, Shutdown} : TrySync(R)
  BY DEF TrySyncCb, RetryTimeout, ConnectionRestored
<1>4. token \in 0 .. MaxPos
  BY DEF IInv, TypeOK
<1>5. PICK n \in Request : Sent("sync", token, R) = R \cup {n} /\ n.kind = "sync"
                           /\ n.since = token /\ n.upto = 0 /\ n.from = 0
  BY <1>4, SentIs
<1>6. requests' \subseteq R \cup {n} /\ ~First(n) /\ n.since <= token /\ n.since \in Nat
  BY <1>3, <1>4, <1>5 DEF TrySync, First
<1>7. /\ OneInitial(queue) => OneInitial(queue')
      /\ \A t \in Signalled(queue') : Carrier(t) => t \in Signalled(queue)
  BY <1>2, PopOnce
<1>8. ~Alone
  <2>1. \/ delays > 0
        \/ queue # <<>> /\ Head(queue).kind \in {"trySync", "restored"}
    BY DEF TrySyncCb, RetryTimeout, ConnectionRestored, Head1
  <2>2. QED
    BY <2>1, Popped DEF Alone
<1>9. QED
  BY <1>1, <1>5, <1>6, <1>7, <1>8, FrameOnce

LEMMA ProbeOnce == ASSUME IInv, OnceInv, Probe PROVE OnceInv'
<1>1. UNCHANGED <<user, token, handled, purged, up, env, queue>>
  BY DEF Probe, disk, world
<1>2. PICK n \in Request : Sent("versions", 0, requests) = requests \cup {n} /\ n.kind = "versions"
                           /\ n.since = 0 /\ n.upto = 0 /\ n.from = 0
  BY SentIs, SyncLoopOK
<1>3. requests' \subseteq requests \cup {n} /\ ~First(n) /\ n.since <= token /\ n.since \in Nat
  <2>1. token \in Nat
    BY DEF IInv, TypeOK
  <2>2. requests' = requests \/ requests' = requests \cup {n}
    BY <1>2 DEF Probe
  <2>3. QED
    BY <1>2, <2>1, <2>2 DEF First
<1>4. ~Alone
  BY DEF Alone, Probe
<1>5. QED
  BY <1>1, <1>2, <1>3, <1>4, FrameOnce

\* The signals and answers that carry no events.
LEMMA SignalOnce ==
  ASSUME IInv, OnceInv, Logout \/ TryDelayedSyncCb \/ ConnectionLost PROVE OnceInv'
<1>1. UNCHANGED <<user, token, handled, purged, up, env>>
  BY DEF Logout, TryDelayedSyncCb, ConnectionLost, disk, world
<1>2. requests' = requests \/ requests' = Shutdown
  BY DEF Logout, TryDelayedSyncCb, ConnectionLost
<1>3. Post(Signal("drop")) \/ (queue # <<>> /\ queue' = Tail(queue))
  BY DEF Logout, TryDelayedSyncCb, ConnectionLost, Head1
<1>4. /\ OneInitial(queue) => OneInitial(queue')
      /\ \A t \in Signalled(queue') : Carrier(t) => t \in Signalled(queue)
  BY <1>3, PostOnce, PopOnce, PlainSignal DEF Carrier
<1>5. CASE TryDelayedSyncCb \/ ConnectionLost
  <2>1. queue # <<>> /\ Head(queue).kind \in {"tryDelayedSync", "lost"}
    BY <1>5 DEF TryDelayedSyncCb, ConnectionLost, Head1
  <2>2. ~Alone
    BY <2>1, Popped DEF Alone
  <2>3. QED
    BY <1>1, <1>2, <1>4, <2>2, QuietOnce
<1>6. CASE Logout
  <2>1. /\ Signalled(queue') = Signalled(queue) \cup {Signal("drop")} /\ Signal("drop").kind = "drop"
        /\ UNCHANGED <<requests, probing, delays>>
    BY <1>6, Posted, PlainSignal DEF Logout
  <2>2. Alone => Alone'
    BY <2>1 DEF Alone
  <2>3. QED
    BY <1>1, <1>2, <1>4, <2>2, QuietOnce
<1>7. QED
  BY <1>5, <1>6

\* The server purges up to a token it is asked with.
LEMMA ServeOnce == ASSUME IInv, OnceInv, NEW r \in requests, Serve(r) PROVE OnceInv'
<1> DEFINE served == [r EXCEPT !.upto = pos, !.from = purged']
<1>1. /\ UNCHANGED <<user, token, handled, up, env, queue>>
      /\ purged' = IF r.since > purged THEN r.since ELSE purged
      /\ requests' = (requests \ {r}) \cup {served}
  BY DEF Serve, disk
<1>2. r \in Request /\ purged \in Nat /\ token \in Nat
  BY DEF IInv, TypeOK
<1>3. served.kind = r.kind /\ served.since = r.since /\ served.from = purged' /\ r.since \in Nat
  BY <1>2 DEF Request
<1> HIDE DEF served
<1>4. r.since <= purged' /\ (r.since <= token /\ purged <= token => purged' <= token)
  BY <1>1, <1>2, <1>3
<1>5. Served(requests) => Served(requests')
  BY <1>1, <1>3, <1>4 DEF Served
<1>6. FromInv => FromInv'
  BY <1>1, <1>3, <1>4 DEF FromInv, Within
<1>7. First(served) => First(r)
  BY <1>3 DEF First
<1>8. OneFirst(requests) => OneFirst(requests')
  BY <1>1, <1>7 DEF OneFirst
<1>9. FirstInv => FirstInv'
  <2>1. First(r) => First(served)
    BY <1>3 DEF First
  <2>2. Alone => Alone'
    BY <1>1, <2>1 DEF Alone, Serve
  <2>3. QED
    BY <1>1, <1>7, <1>8, <2>2 DEF FirstInv, Queued
<1>10. HandledInv => HandledInv'
  BY <1>1 DEF HandledInv
<1>11. QED
  BY <1>1, <1>5, <1>6, <1>9, <1>10 DEF OnceInv, Served

\* The first sync goes on with the same request, its answer, or not at all.
LEMMA FirstAnsweredOnce ==
  ASSUME IInv, OnceInv, NEW r \in requests, KeysAnswered(r) \/ InitialAnswered(r) PROVE OnceInv'
<1>1. UNCHANGED <<user, token, handled, purged, up, env, probing, delays>> /\ First(r)
  BY DEF KeysAnswered, InitialAnswered, disk, First
<1>2. r \in Request /\ token \in Nat
  BY DEF IInv, TypeOK
<1>3. CASE requests' = requests \ {r} /\ Post(Signal("drop"))
  <2>1. Signalled(queue') = Signalled(queue) \cup {Signal("drop")} /\ Signal("drop").kind = "drop"
    BY <1>3, Posted, PlainSignal
  <2>2. Alone => Alone'
    BY <1>1, <1>3, <2>1 DEF Alone
  <2>3. requests' \subseteq requests
    BY <1>3
  <2>4. QED
    BY <1>1, <1>3, <2>2, <2>3, PostOnce, PlainSignal, QuietOnce DEF Carrier
<1>4. CASE requests' = Sent("initial", 0, requests \ {r}) /\ UNCHANGED queue
  <2>1. PICK n \in Request : requests' = (requests \ {r}) \cup {n} /\ n.kind = "initial"
                             /\ n.since = 0 /\ n.upto = 0 /\ n.from = 0
    BY <1>4, SentIs, SyncLoopOK
  <2>2. Served(requests) => Served(requests')
    BY <2>1 DEF Served
  <2>3. FromInv => FromInv'
    BY <1>1, <1>2, <1>4, <2>1 DEF FromInv, Within
  <2>4. FirstInv => FirstInv'
    <3>1. SUFFICES ASSUME FirstInv PROVE FirstInv'
      OBVIOUS
    <3>2. up /\ token = 0 /\ ~Queued("initial") /\ \A q \in requests \ {r} : ~First(q)
      BY <1>1, <3>1 DEF FirstInv, OneFirst
    <3>3. \A q \in requests' : First(q) => q = n
      BY <2>1, <3>2
    <3>4. Alone'
      BY <1>1, <1>4, <2>1, <3>1, <3>2 DEF FirstInv, Alone, First
    <3>5. QED
      BY <1>1, <1>4, <3>1, <3>2, <3>3, <3>4 DEF FirstInv, OneFirst, Queued
  <2>5. HandledInv => HandledInv'
    BY <1>1 DEF HandledInv
  <2>6. QED
    BY <1>1, <2>2, <2>3, <2>4, <2>5 DEF OnceInv, Served
<1>5. CASE requests' = requests \ {r} /\ r.upto # 0 /\ Post(Answer("initial", r))
  <2> DEFINE s == Answer("initial", r)
  <2>1. /\ s \in Signals /\ s.kind = "initial" /\ s.since = r.since /\ s.from = r.from
        /\ s.upto = r.upto
    BY <1>2 DEF Answer, Request, Signals
  <2>2. Signalled(queue') = Signalled(queue) \cup {s}
    BY <1>5, <2>1, Posted
  <2>3. Served(requests) => Served(requests') /\ s.since <= s.from
    BY <1>5, <2>1 DEF Served
  <2> HIDE DEF s
  <2>4. Served(requests) /\ FromInv => FromInv'
    BY <1>1, <1>5, <2>1, <2>2, <2>3 DEF FromInv, Within
  <2>5. FirstInv => FirstInv'
    <3>1. SUFFICES ASSUME FirstInv PROVE FirstInv'
      OBVIOUS
    <3>2. up /\ token = 0 /\ ~Queued("initial") /\ \A q \in requests' : ~First(q)
      BY <1>1, <1>5, <3>1 DEF FirstInv, OneFirst
    <3>3. OneInitial(queue')
      BY <1>5, <2>1, <3>1, <3>2, OneInitialAppend DEF FirstInv, Queued, Post, IInv, TypeOK, s
    <3>4. Alone'
      BY <1>1, <1>5, <2>1, <2>2, <3>1, <3>2 DEF FirstInv, Alone
    <3>5. QED
      BY <1>1, <3>2, <3>3, <3>4 DEF FirstInv, OneFirst
  <2>6. HandledInv => HandledInv'
    BY <1>1 DEF HandledInv
  <2>7. QED
    BY <1>1, <2>3, <2>4, <2>5, <2>6 DEF OnceInv, Served
<1>6. QED
  BY <1>3, <1>4, <1>5 DEF KeysAnswered, InitialAnswered

LEMMA VanishedOnce == ASSUME IInv, OnceInv, NEW r \in requests, Vanished(r) PROVE OnceInv'
<1>1. /\ UNCHANGED <<user, token, handled, purged, up, env, queue, delays, probing>>
      /\ requests' = requests \ {r}
  BY DEF Vanished, disk, world
<1>2. (Alone => Alone') /\ requests' \subseteq requests
  BY <1>1 DEF Alone
<1>3. QED
  BY <1>1, <1>2, QuietOnce

LEMMA LaterAnsweredOnce ==
  ASSUME IInv, OnceInv, NEW r \in requests, SyncAnswered(r) \/ Probed(r) PROVE OnceInv'
<1>1. UNCHANGED <<user, token, handled, purged, up, env>> /\ requests' = requests \ {r}
  BY DEF SyncAnswered, Probed, disk, world
<1>2. r \in Request /\ ~Alone
  BY DEF IInv, TypeOK, Alone, First, SyncAnswered, Probed
<1>3. CASE queue' = queue \/ \E kind \in {"drop", "tryDelayedSync", "lost", "restored"} : Post(Signal(kind))
  <2>1. /\ OneInitial(queue) => OneInitial(queue')
        /\ \A t \in Signalled(queue') : Carrier(t) => t \in Signalled(queue)
    BY <1>3, PostOnce, PlainSignal DEF Carrier
  <2>2. requests' \subseteq requests
    BY <1>1
  <2>3. QED
    BY <1>1, <1>2, <2>1, <2>2, QuietOnce
<1>4. CASE r.upto # 0 /\ Post(Answer("response", r))
  <2> DEFINE s == Answer("response", r)
  <2>1. s \in Signals /\ s.kind = "response" /\ s.since = r.since /\ s.from = r.from
    BY <1>2 DEF Answer, Request, Signals
  <2>2. Signalled(queue') = Signalled(queue) \cup {s}
    BY <1>4, <2>1, Posted
  <2>3. Served(requests) => Served(requests') /\ s.since <= s.from
    BY <1>1, <1>4, <2>1 DEF Served
  <2>4. OneInitial(queue) => OneInitial(queue')
    BY <1>4, <2>1, OneInitialAppend DEF Post, IInv, TypeOK
  <2> HIDE DEF s
  <2>5. Served(requests) /\ FromInv => FromInv'
    BY <1>1, <1>4, <2>1, <2>2, <2>3 DEF FromInv, Within
  <2>6. FirstInv => FirstInv'
    <3>1. Queued("initial")' => Queued("initial")
      BY <2>1, <2>2 DEF Queued
    <3>2. OneFirst(requests) => OneFirst(requests')
      BY <1>1 DEF OneFirst
    <3>3. QED
      BY <1>1, <1>2, <2>4, <3>1, <3>2 DEF FirstInv
  <2>7. HandledInv => HandledInv'
    BY <1>1 DEF HandledInv
  <2>8. QED
    BY <1>1, <2>3, <2>5, <2>6, <2>7 DEF OnceInv, Served
<1>5. QED
  BY <1>3, <1>4 DEF SyncAnswered, SyncFailed, Probed

\* What is saved is handled, and was not before.
LEMMA SaveOnce ==
  ASSUME IInv, LoopInv, OnceInv, env \cap {"write", "relogin"} = {}, UNCHANGED <<user, purged, up, env, requests>>,
         user, queue # <<>>, Carrier(Head(queue)), Head(queue).from = token,
         Head(queue).kind = "initial" => token = 0,
         token' = Head(queue).upto, token <= token', Handle(Head(queue)),
         queue' = Append(Tail(queue), Signal("trySync"))
  PROVE  OnceInv'
<1> DEFINE s == Head(queue)
<1>1. /\ s \in Signals /\ Tail(queue) \in Seq(Signals)
      /\ Signalled(queue) = {s} \cup Signalled(Tail(queue))
  BY Popped
<1>2. Signal("trySync") \in Signals /\ Signal("trySync").kind = "trySync"
  BY PlainSignal
<1>3. Signalled(queue') = Signalled(Tail(queue)) \cup {Signal("trySync")}
  <2> DEFINE q == Tail(queue)
  <2>1. q \in Seq(Signals)
    BY <1>1
  <2> HIDE DEF q
  <2>2. Signalled(Append(q, Signal("trySync"))) = Signalled(q) \cup {Signal("trySync")}
    BY <1>2, <2>1, AppendSignalled
  <2>3. QED
    BY <2>2 DEF q
<1>4. Served(requests) /\ HandledInv /\ FromInv /\ FirstInv
  BY DEF OnceInv
<1>5. token \in Nat /\ token' \in Nat /\ purged \in Nat
  BY <1>1 DEF IInv, TypeOK, Signals
<1>6. HandledInv'
  BY <1>1, <1>4, HandleOnce
<1>7. \A r \in requests : r.since \in Nat /\ r.from \in Nat
  BY DEF IInv, TypeOK, Request
<1>8. \A t \in Signalled(Tail(queue)) : t.since \in Nat /\ t.from \in Nat
  <2>1. \A t \in Signalled(Tail(queue)) : t \in Signals
    BY <1>1 DEF Signalled
  <2>2. QED
    BY <2>1 DEF Signals
<1>9. FromInv'
  BY <1>1, <1>2, <1>3, <1>4, <1>5, <1>7, <1>8 DEF FromInv, Within, Carrier
<1>10. ~Queued("initial")' /\ \A r \in requests : ~First(r)
  <2>1. CASE s.kind = "initial"
    <3>1. \A t \in Signalled(Tail(queue)) : t.kind # "initial"
      BY <1>4, <2>1, OneInitialTail DEF FirstInv
    <3>2. Queued("initial")
      BY <1>1, <2>1 DEF Queued
    <3>3. QED
      BY <1>2, <1>3, <1>4, <3>1, <3>2 DEF FirstInv, Queued
  <2>2. CASE s.kind = "response"
    <3>1. token # 0
      BY <1>1, <1>4, <2>2 DEF FirstInv, Alone
    <3>2. QED
      BY <1>1, <1>2, <1>3, <1>4, <3>1 DEF FirstInv, Queued
  <2>3. QED
    BY <2>1, <2>2 DEF Carrier
<1>11. token' # 0
  <2>1. CASE token = 0
    BY <1>1, <1>4, <2>1 DEF FirstInv, Alone, Carrier
  <2>2. CASE token # 0
    BY <1>5, <2>2
  <2>3. QED
    BY <2>1, <2>2
<1>12. OneInitial(queue')
  <2>1. OneInitial(Tail(queue))
    BY <1>4, OneInitialTail DEF FirstInv
  <2> DEFINE q == Tail(queue)
  <2>2. q \in Seq(Signals) /\ OneInitial(q)
    BY <1>1, <2>1
  <2> HIDE DEF q
  <2>3. OneInitial(Append(q, Signal("trySync")))
    BY <1>2, <2>2, OneInitialAppend
  <2>4. QED
    BY <2>3 DEF q
<1>13. FirstInv'
  BY <1>10, <1>11, <1>12 DEF FirstInv, OneFirst
<1>14. QED
  BY <1>4, <1>6, <1>9, <1>13 DEF OnceInv, Served

\* handleSyncResponse and the first answer; a response is dropped, or follows
\* the token and starts with what the server had not purged.
LEMMA AnswerOnce ==
  ASSUME IInv, LoopInv, OnceInv, InitialSync \/ HandleSyncResponse PROVE OnceInv'
<1> DEFINE s == Head(queue)
<1>1. /\ UNCHANGED <<user, up, open, purged, env, delays, connected, probing>>
      /\ queue # <<>> /\ Carrier(s)
  BY DEF InitialSync, HandleSyncResponse, Head1, Carrier
<1>2. SUFFICES ASSUME env \cap {"write", "relogin"} = {} PROVE OnceInv'
  BY <1>1 DEF OnceInv
<1>3. /\ s \in Signals /\ s \in ForwardSignals /\ s \in Signalled(queue)
      /\ Signalled(Tail(queue)) \subseteq Signalled(queue)
  BY <1>1, Popped, SlotForward
<1>4. ~May("write") /\ token \in Nat /\ s.upto \in Nat /\ s.since \in Nat /\ s.from \in Nat
  BY <1>2, <1>3 DEF May, IInv, TypeOK, Signals
<1>5. open = up /\ (up => user)
  BY DEF LoopInv
<1>6. user => FromInv /\ FirstInv
  BY <1>2 DEF OnceInv
<1>7. CASE queue' = Tail(queue) /\ UNCHANGED <<token, saved, handled>> /\ UNCHANGED requests
  <2>1. token = 0 /\ Alone => Alone'
    BY <1>1, <1>3, <1>7 DEF Alone
  <2>2. QED
    BY <1>1, <1>7, <2>1, PopOnce, QuietOnce
<1>8. CASE InitialSync /\ open
  <2>1. user /\ s.kind = "initial" /\ token' = s.upto /\ Handle(s) /\ requests' = requests
        /\ queue' = Append(Tail(queue), Signal("trySync"))
    BY <1>4, <1>5, <1>8 DEF InitialSync, Head1
  <2>2. token = 0
    BY <1>3, <1>6, <2>1 DEF FirstInv, Queued
  <2>3. s.from = token
    BY <1>3, <1>4, <1>6, <2>1, <2>2 DEF FromInv, Carrier
  <2>4. QED
    BY <1>1, <1>2, <1>4, <2>1, <2>2, <2>3, SaveOnce
<1>9. CASE HandleSyncResponse /\ IsNext(s) /\ token' = s.upto
  <2>1. /\ user /\ s.kind = "response" /\ s.since = token /\ Handle(s) /\ requests' = requests
        /\ queue' = Append(Tail(queue), Signal("trySync"))
    BY <1>4, <1>5, <1>9 DEF HandleSyncResponse, Head1, IsNext
  <2>2. s.from = token /\ token <= s.upto
    BY <1>3, <1>4, <1>6, <2>1 DEF FromInv, Carrier, ForwardSignals
  <2>3. QED
    BY <1>1, <1>2, <1>9, <2>1, <2>2, SaveOnce
<1>10. CASE InitialSync /\ ~open
  <2>1. ~user
    <3>1. s.kind = "initial"
      BY <1>10 DEF InitialSync, Head1
    <3>2. user => up
      BY <1>3, <1>6, <3>1 DEF FirstInv, Queued
    <3>3. QED
      BY <1>5, <1>10, <3>2
  <2>2. UNCHANGED <<token, handled>> /\ requests' = Sent("initial", 0, requests)
    BY <1>10 DEF InitialSync
  <2>3. PICK n \in Request : requests' = requests \cup {n} /\ n.upto = 0
    BY <2>2, SentIs, SyncLoopOK
  <2>4. QED
    BY <1>1, <2>1, <2>2, <2>3 DEF OnceInv, Served, HandledInv
<1>11. QED
  BY <1>4, <1>7, <1>8, <1>9, <1>10 DEF InitialSync, HandleSyncResponse

LEMMA NextOnce == ASSUME IInv, LoopInv, OnceInv, [Next]_vars PROVE OnceInv'
<1>1. CASE UNCHANGED vars
  BY <1>1 DEF vars, disk, memory, world, OnceInv, Served, HandledInv, FromInv, Within, FirstInv, OneFirst,
              Queued, Alone
<1>2. CASE News
  BY <1>2 DEF News, disk, memory, OnceInv, Served, HandledInv, FromInv, Within, FirstInv, OneFirst,
              Queued, Alone
<1>3. CASE Login
  BY <1>3 DEF Login, May, OnceInv
<1>4. CASE Drop
  BY <1>4, ForgetOnce DEF Drop, world
<1>5. QED
  BY <1>1, <1>2, <1>3, <1>4, RestartOnce, CrashOnce, StartOnce, TrySyncOnce, ProbeOnce, SignalOnce,
     ServeOnce, FirstAnsweredOnce, LaterAnsweredOnce, VanishedOnce,
     AnswerOnce DEF Next, Slots, Answered

LEMMA InitOnce == Init => OnceInv
<1> SUFFICES ASSUME Init PROVE OnceInv
  OBVIOUS
<1>1. /\ Signalled(queue) = {} /\ requests = {} /\ queue = <<>> /\ token = 0 /\ purged = 0
      /\ probing = FALSE /\ delays = 0 /\ handled = [p \in Positions |-> 0]
  BY DEF Init, Signalled
<1>2. HandledInv
  BY <1>1 DEF HandledInv, Positions
<1>3. QED
  BY <1>1, <1>2 DEF OnceInv, Served, FromInv, Within, FirstInv, OneFirst, OneInitial, Queued, Alone

------------------------------------------------------------------------------

\* The invariant of the loop, for every fault the environment may choose.
THEOREM SyncInvariance == Spec => []IInv
BY InitIInv, NextIInv, PTL DEF Spec

\* Nothing owns the loop of trySync, tryDelayedSync, connectionLost and
\* connectionRestored: still it is always carried on, or the connectivity timer
\* runs, unless the database cannot be read.
THEOREM LoopIsCarried == Spec => []LoopSurvives
<1>1. IInv /\ LoopInv /\ [Next]_vars => LoopInv'
  BY NextLoop
<1>2. LoopInv => LoopSurvives
  BY DEF LoopInv, LoopSurvives, Carried, Carries, Pushes, Going, Signalled
<1>3. QED
  BY <1>1, <1>2, InitLoop, SyncInvariance, PTL DEF Spec

\* Every variable of Client and Cache that the loop writes stays in its range.
THEOREM SyncTypeCorrect == Spec => []TypeOK
<1>1. IInv => TypeOK
  BY DEF IInv
<1>2. QED
  BY <1>1, SyncInvariance, PTL

\* handleSyncResponse's "Duplicate sync, dropping" keeps the databases a prefix
\* of the log, each position once, through any number of loops and restarts.
THEOREM DuplicatesAreDropped == Spec => []SavedIsPrefix
<1>1. IInv => SavedIsPrefix
  BY DEF IInv
<1>2. QED
  BY <1>1, SyncInvariance, PTL

\* handle_to_device_messages: what several loops receive is handled once, and
\* but for a crash between commit and handling, nothing up to the token is lost.
THEOREM HandledOnce == Spec => []ToDeviceOnce
<1>1. IInv /\ LoopInv /\ [Next]_vars => LoopInv'
  BY NextLoop
<1>2. IInv /\ LoopInv /\ OnceInv /\ [Next]_vars => OnceInv'
  BY NextOnce
<1>3. OnceInv => ToDeviceOnce
  BY DEF OnceInv, HandledInv, ToDeviceOnce
<1>4. QED
  BY <1>1, <1>2, <1>3, InitLoop, InitOnce, SyncInvariance, PTL DEF Spec
=============================================================================
