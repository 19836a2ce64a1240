------------------------------- MODULE SyncLoop -------------------------------
(***************************************************************************)
(* The sync loop of Client (src/src/Client.cpp) over Cache's token.        *)
(*                                                                         *)
(* Nothing owns the loop: it lives in whatever is outstanding, an HTTP     *)
(* request, a signal queued to the main thread or a retry timer, and each  *)
(* step must hand it on.  connectionRestored starts another loop beside    *)
(* one that may still run; the token decides which of two answers counts.  *)
(* An answer is saved in one transaction, its to-device messages are       *)
(* handled after the commit.                                               *)
(*                                                                         *)
(* The server's log is a sequence of positions, each one event and one     *)
(* to-device message; a batch token is a position and 0 is no token.       *)
(***************************************************************************)
EXTENDS Naturals, Sequences, FiniteSets

CONSTANTS
  MaxPos,      \* bound: the last position of the server's log
  Copies,      \* bound: equal requests that may be open at once
  MaxErrors,   \* bound: requests and transactions that fail
  MaxRestarts, \* bound: restarts of the program
  MaxLogins,   \* bound: logins
  FaultSets    \* environment: what may go wrong in one behaviour

ASSUME SyncLoopOK ==
  /\ {MaxErrors, MaxRestarts, MaxLogins} \subseteq Nat
  /\ {MaxPos, Copies} \subseteq Nat \ {0}
  /\ FaultSets \subseteq SUBSET {"read", "write", "restart", "crash", "relogin"}

VARIABLES
  \* on disk
  user,      \* UserSettings hold a user
  token,     \* Cache::nextBatchToken
  saved,     \* positions in the databases, in the order they were saved
  handled,   \* how often the to-device message of a position was handled
  \* in memory
  up,        \* bootstrap has run for the user
  open,      \* the database environment is open
  requests,  \* HTTP requests that are not answered
  queue,     \* signals queued to the main thread
  delays,    \* RETRY_TIMEOUT timers that are running
  connected, \* isConnected_
  probing,   \* connectivityTimer_ is active
  \* the server and the world
  pos,       \* the end of the server's log
  purged,    \* to-device messages up to here are gone from the server
  valid,     \* the server knows the access token
  errors, restarts, logins,
  env        \* the faults of this behaviour

disk   == <<user, token, saved, handled>>
memory == <<up, open, requests, queue, delays, connected, probing>>
world  == <<pos, purged, valid, errors, restarts, logins, env>>
vars   == <<disk, memory, world>>

------------------------------------------------------------------------------

Positions == 1 .. MaxPos

Request == [copy : 1 .. Copies, kind : {"keys", "initial", "sync", "versions"},
            since : 0 .. MaxPos, upto : 0 .. MaxPos, from : 0 .. MaxPos, live : BOOLEAN]

\* The set reqs with one more request, which the server has not served (upto
\* is 0); live ones have not been shut down.
Sent(kind, since, reqs) ==
  LET New(i) == [copy |-> i, kind |-> kind, since |-> since, upto |-> 0, from |-> 0,
                 live |-> TRUE]
  IN  reqs \cup {New(CHOOSE i \in 1 .. Copies :
                      \/ New(i) \notin reqs
                      \/ \A j \in 1 .. Copies : New(j) \in reqs)}

\* A queued signal; newSyncResponse and the initial answer carry the batch
\* that follows since, with the to-device messages after from.
Signals == [kind : {"trySync", "tryDelayedSync", "response", "initial", "lost", "restored", "drop"},
            since : 0 .. MaxPos, upto : 0 .. MaxPos, from : 0 .. MaxPos]

Signal(kind)    == [kind |-> kind, since |-> 0, upto |-> 0, from |-> 0]
Answer(kind, r) == [kind |-> kind, since |-> r.since, upto |-> r.upto, from |-> r.from]

Post(s) == queue' = Append(queue, s)
Head1(kind) == queue # <<>> /\ Head(queue).kind = kind

\* http::client()->shutdown(): a request that is not live calls back with an
\* error or never.
Shutdown == {[r EXCEPT !.live = FALSE] : r \in requests}

Vanished(r) ==
  /\ ~r.live
  /\ requests' = requests \ {r}
  /\ UNCHANGED <<disk, up, open, queue, delays, connected, probing, world>>

CanFail == errors < MaxErrors
May(fault) == fault \in env

(* A definition marked "Variant" is the one after it with a mistake in it; *)
(* Next does not use it.  It shows which mistake a property would reveal.  *)

\* saveState: the events of the answer go behind what is saved.  An answer
\* to a request without a token replaces the timelines, for it is limited.
Batch(s, old) ==
  LET kept == IF s.since = 0 THEN <<>> ELSE old
  IN  [i \in 1 .. Len(kept) + s.upto - s.since |->
         IF i <= Len(kept) THEN kept[i] ELSE s.since + i - Len(kept)]

\* handle_to_device_messages
Handle(s) ==
  handled' = [p \in Positions |->
                IF p \in s.from + 1 .. s.upto THEN handled[p] + 1 ELSE handled[p]]

------------------------------------------------------------------------------
\* Start, login and logout

\* dropToLoginCb and logoutCb: settings and databases are deleted, requests
\* are shut down, the connectivity timer stops.  Retry timers go on.
ForgetUser ==
  /\ user' = FALSE /\ up' = FALSE /\ open' = FALSE
  /\ token' = 0 /\ saved' = <<>> /\ handled' = [p \in Positions |-> 0]
  /\ requests' = Shutdown
  /\ probing' = FALSE

\* Client::start and bootstrap: with a token the state is restored and the
\* loop begins, or the user is dropped; without one the keys are uploaded.
Start ==
  /\ user /\ ~up
  /\ \/ /\ token # 0
        /\ up' = TRUE /\ open' = TRUE
        /\ Post(Signal("trySync"))
        /\ UNCHANGED <<disk, requests, probing>>
     \/ /\ token = 0
        /\ up' = TRUE /\ open' = TRUE
        /\ requests' = Sent("keys", 0, requests)
        /\ UNCHANGED <<disk, queue, probing>>
     \/ /\ May("read")
        /\ ForgetUser
        /\ UNCHANGED queue
  /\ UNCHANGED <<delays, connected, world>>

\* loginCb, behind everything that was queued before the user logged in.
Login ==
  /\ May("relogin") /\ ~user /\ logins < MaxLogins
  /\ queue = <<>> /\ \A r \in requests : r.live
  /\ user' = TRUE
  /\ valid' = TRUE
  /\ purged' = pos
  /\ logins' = logins + 1
  /\ UNCHANGED <<token, saved, handled, memory, pos, errors, restarts, env>>

\* logoutOk, then logoutCb on the main thread.
Logout ==
  /\ up /\ valid
  /\ valid' = FALSE
  /\ Post(Signal("drop"))
  /\ UNCHANGED <<disk, up, open, requests, delays, connected, probing,
                 pos, purged, errors, restarts, logins, env>>

Drop ==
  /\ Head1("drop")
  /\ queue' = Tail(queue)
  /\ ForgetUser
  /\ UNCHANGED <<delays, connected, world>>

MemoryLost ==
  /\ up' = FALSE /\ open' = FALSE /\ requests' = {} /\ queue' = <<>> /\ delays' = 0
  /\ connected' = TRUE /\ probing' = FALSE
  /\ restarts' = restarts + 1

Restart ==
  /\ May("restart") /\ restarts < MaxRestarts
  /\ MemoryLost
  /\ UNCHANGED <<disk, pos, purged, valid, errors, logins, env>>

------------------------------------------------------------------------------
\* The first sync

\* tryInitialSync's callback: with the keys uploaded, or a server that has no
\* keys, the initial sync starts; any other error drops the user.
KeysAnswered(r) ==
  /\ r \in requests /\ r.kind = "keys"
  /\ \/ /\ r.live /\ valid
        /\ requests' = Sent("initial", 0, requests \ {r})
        /\ UNCHANGED <<queue, errors>>
     \/ /\ ~r.live \/ ~valid \/ CanFail
        /\ requests' = requests \ {r}
        /\ Post(Signal("drop"))
        /\ errors' = IF r.live /\ valid THEN errors + 1 ELSE errors
  /\ UNCHANGED <<disk, up, open, delays, connected, probing,
                 pos, purged, valid, restarts, logins, env>>

\* startInitialSync's callback: tried again at once when there was no answer
\* or the server is out of reach (502, 504, 524).  Every other refusal drops
\* the user, that of a token that is no longer valid and any other alike.
InitialAnswered(r) ==
  /\ r \in requests /\ r.kind = "initial"
  /\ \/ /\ r.live /\ r.upto # 0
        /\ requests' = requests \ {r}
        /\ Post(Answer("initial", r))
        /\ UNCHANGED errors
     \/ /\ ~r.live \/ CanFail
        /\ requests' = Sent("initial", 0, requests \ {r})
        /\ errors' = IF r.live THEN errors + 1 ELSE errors
        /\ UNCHANGED queue
     \/ /\ r.live /\ (~valid \/ CanFail)
        /\ requests' = requests \ {r}
        /\ Post(Signal("drop"))
        /\ errors' = IF valid THEN errors + 1 ELSE errors
  /\ UNCHANGED <<disk, up, open, delays, connected, probing,
                 pos, purged, valid, restarts, logins, env>>

(***************************************************************************)
(* The single-shot that takes the initial answer.  A database error, before*)
(* or after the commit, starts the initial sync again.                     *)
(***************************************************************************)
InitialSync ==
  /\ Head1("initial")
  /\ LET s == Head(queue)
     IN  \/ /\ open
            /\ token' = s.upto
            /\ saved' = Batch(s, saved)
            /\ Handle(s)
            /\ queue' = Append(Tail(queue), Signal("trySync"))
            /\ UNCHANGED <<requests, errors>>
         \/ /\ ~open
            /\ requests' = Sent("initial", 0, requests)
            /\ queue' = Tail(queue)
            /\ UNCHANGED <<token, saved, handled, errors>>
         \/ /\ open /\ May("write") /\ CanFail
            /\ \/ UNCHANGED <<token, saved, handled>>
               \/ /\ token' = s.upto
                  /\ saved' = Batch(s, saved)
                  /\ \/ UNCHANGED handled
                     \/ Handle(s)
            /\ requests' = Sent("initial", 0, requests)
            /\ queue' = Tail(queue)
            /\ errors' = errors + 1
  /\ UNCHANGED <<user, up, open, delays, connected, probing,
                 pos, purged, valid, restarts, logins, env>>

------------------------------------------------------------------------------
\* The loop

\* trySync: the connectivity timer runs, a request with the token leaves.  A
\* database that cannot be read ends the loop without a word.
TrySync(reqs) ==
  /\ probing' = TRUE
  /\ \/ open /\ requests' = Sent("sync", token, reqs)
     \/ (~open \/ May("read")) /\ requests' = reqs

TrySyncCb ==
  /\ Head1("trySync")
  /\ queue' = Tail(queue)
  /\ TrySync(requests)
  /\ UNCHANGED <<disk, up, open, delays, connected, world>>

TryDelayedSyncCb ==
  /\ Head1("tryDelayedSync")
  /\ queue' = Tail(queue)
  /\ delays' = delays + 1
  /\ UNCHANGED <<disk, up, open, requests, connected, probing, world>>

RetryTimeout ==
  /\ delays > 0
  /\ delays' = delays - 1
  /\ TrySync(requests)
  /\ UNCHANGED <<disk, up, open, queue, connected, world>>

\* Variant: a request that fails is not tried again.
SyncFailedSilently(r) == queue' = queue

\* An access token that is unknown drops the user, other errors are retried.
SyncFailed(r) == Post(Signal(IF r.live /\ ~valid THEN "drop" ELSE "tryDelayedSync"))

\* The server serves a sync, and forgets to-device messages up to the token
\* it is asked with; answers may overtake.
Serve(r) ==
  /\ valid /\ r.kind \in {"initial", "sync"} /\ r.upto = 0
  /\ purged' = IF r.since > purged THEN r.since ELSE purged
  /\ requests' = (requests \ {r}) \cup {[r EXCEPT !.upto = pos, !.from = purged']}
  /\ UNCHANGED <<disk, up, open, queue, delays, connected, probing,
                 pos, valid, errors, restarts, logins, env>>

\* The callback of trySync's request.
SyncAnswered(r) ==
  /\ r \in requests /\ r.kind = "sync"
  /\ requests' = requests \ {r}
  /\ \/ /\ r.live /\ r.upto # 0
        /\ Post(Answer("response", r))
        /\ UNCHANGED errors
     \/ /\ ~r.live \/ ~valid \/ CanFail
        /\ errors' = IF r.live /\ valid THEN errors + 1 ELSE errors
        /\ SyncFailed(r)
  /\ UNCHANGED <<disk, up, open, delays, connected, probing,
                 pos, purged, valid, restarts, logins, env>>

\* Variants: a duplicate is not noticed, a newer answer is good enough.
IsNextUnchecked(s) == open
IsNextNotOlder(s)  == open /\ s.since >= token

\* handleSyncResponse drops an answer that does not follow the saved token.
IsNext(s) == open /\ s.since = token

HandleSyncResponse ==
  /\ Head1("response")
  /\ LET s == Head(queue)
     IN  \/ /\ ~IsNext(s)
            /\ queue' = Tail(queue)
            /\ UNCHANGED <<token, saved, handled, errors>>
         \/ /\ IsNext(s)
            /\ queue' = Append(Tail(queue), Signal("trySync"))
            /\ token' = s.upto
            /\ saved' = Batch(s, saved)
            /\ Handle(s)
            /\ UNCHANGED errors
         \/ /\ IsNext(s) /\ May("write") /\ CanFail
            /\ queue' = Append(Tail(queue), Signal("trySync"))
            /\ \/ UNCHANGED <<token, saved>>
               \/ token' = s.upto /\ saved' = Batch(s, saved)
            /\ errors' = errors + 1
            /\ UNCHANGED handled
  /\ UNCHANGED <<user, up, open, requests, delays, connected, probing,
                 pos, purged, valid, restarts, logins, env>>

\* The program ends after the commit and before the to-device messages.
CrashInResponse ==
  /\ Head1("response") /\ IsNext(Head(queue))
  /\ May("crash") /\ restarts < MaxRestarts
  /\ token' = Head(queue).upto
  /\ saved' = Batch(Head(queue), saved)
  /\ MemoryLost
  /\ UNCHANGED <<user, handled, pos, purged, valid, errors, logins, env>>

------------------------------------------------------------------------------
\* Connectivity

\* connectivityTimer_ asks for the server's versions.  Its 15 seconds are
\* enough for the last answer to come and its signal to be handled.
Probe ==
  /\ probing
  /\ ~\E r \in requests : r.kind = "versions"
  /\ ~\E i \in DOMAIN queue : queue[i].kind \in {"lost", "restored"}
  /\ \/ valid /\ requests' = Sent("versions", 0, requests) /\ UNCHANGED probing
     \/ ~valid /\ probing' = FALSE /\ UNCHANGED requests
  /\ UNCHANGED <<disk, up, open, queue, delays, connected, world>>

Probed(r) ==
  /\ r \in requests /\ r.kind = "versions"
  /\ requests' = requests \ {r}
  /\ \/ /\ r.live
        /\ IF connected THEN UNCHANGED queue ELSE Post(Signal("restored"))
        /\ UNCHANGED errors
     \/ /\ CanFail
        /\ Post(Signal("lost"))
        /\ errors' = errors + 1
  /\ UNCHANGED <<disk, up, open, delays, connected, probing,
                 pos, purged, valid, restarts, logins, env>>

ConnectionLost ==
  /\ Head1("lost")
  /\ queue' = Tail(queue)
  /\ connected' = FALSE
  /\ requests' = Shutdown
  /\ UNCHANGED <<disk, up, open, delays, probing, world>>

\* Variant: the loop is taken to be still there.
ConnectionRestoredOnly ==
  /\ Head1("restored")
  /\ queue' = Tail(queue)
  /\ connected' = TRUE
  /\ requests' = Shutdown
  /\ UNCHANGED <<disk, up, open, delays, probing, world>>

ConnectionRestored ==
  /\ Head1("restored")
  /\ queue' = Tail(queue)
  /\ connected' = TRUE
  /\ TrySync(Shutdown)
  /\ UNCHANGED <<disk, up, open, delays, world>>

------------------------------------------------------------------------------

News ==
  /\ pos < MaxPos
  /\ pos' = pos + 1
  /\ UNCHANGED <<disk, memory, purged, valid, errors, restarts, logins, env>>

Init ==
  /\ user = TRUE /\ token = 0 /\ saved = <<>> /\ handled = [p \in Positions |-> 0]
  /\ up = FALSE /\ open = FALSE /\ requests = {} /\ queue = <<>> /\ delays = 0
  /\ connected = TRUE /\ probing = FALSE
  /\ pos = 1 /\ purged = 0 /\ valid = TRUE
  /\ errors = 0 /\ restarts = 0 /\ logins = 0
  /\ env \in FaultSets

Answered(r) == KeysAnswered(r) \/ InitialAnswered(r) \/ SyncAnswered(r) \/ Probed(r) \/ Vanished(r)

Slots == \/ Drop \/ InitialSync \/ TrySyncCb \/ TryDelayedSyncCb
         \/ HandleSyncResponse \/ ConnectionLost \/ ConnectionRestored

Next == \/ Start \/ Login \/ Logout \/ Restart \/ CrashInResponse
        \/ Slots \/ RetryTimeout \/ Probe \/ News
        \/ \E r \in requests : Serve(r) \/ Answered(r)

Spec == Init /\ [][Next]_vars

\* The event loop delivers signals and expired timers, HTTP requests end, and
\* the user starts the program again.
Fairness ==
  /\ WF_vars(Slots) /\ WF_vars(RetryTimeout) /\ WF_vars(Probe) /\ WF_vars(Start)
  /\ \A k \in {"keys", "initial", "sync", "versions"} :
       WF_vars(\E r \in requests : r.kind = k /\ (Serve(r) \/ Answered(r)))

FairSpec == Spec /\ Fairness

------------------------------------------------------------------------------
\* Properties

\* Every variable stays in its range.
TypeOK ==
  /\ user \in BOOLEAN /\ token \in 0 .. MaxPos /\ saved \in Seq(Positions)
  /\ handled \in [Positions -> Nat]
  /\ up \in BOOLEAN /\ open \in BOOLEAN /\ requests \subseteq Request
  /\ queue \in Seq(Signals)
  /\ delays \in Nat /\ connected \in BOOLEAN /\ probing \in BOOLEAN
  /\ pos \in 0 .. MaxPos /\ purged \in 0 .. MaxPos /\ valid \in BOOLEAN
  /\ errors \in 0 .. MaxErrors /\ restarts \in 0 .. MaxRestarts
  /\ logins \in 0 .. MaxLogins
  /\ env \in FaultSets

(***************************************************************************)
(* handleSyncResponse, "Duplicate sync, dropping": however many loops run, *)
(* and whatever fails or restarts, the databases hold the server's log up  *)
(* to the token, each position once and in order.                          *)
(***************************************************************************)
SavedIsPrefix == saved = [i \in 1 .. token |-> i]

\* What carries the loop on: a response counts only if it will be taken.
Going ==
  \/ \E r \in requests : r.kind # "versions"
  \/ delays > 0
  \/ \E i \in DOMAIN queue :
       \/ queue[i].kind \in {"trySync", "tryDelayedSync", "initial", "restored", "drop"}
       \/ queue[i].kind = "response" /\ queue[i].since = token

(***************************************************************************)
(* The duplicate is dropped without another trySync, connectionLost shuts  *)
(* requests down without a retry: still somebody always carries the loop   *)
(* on, or the connectivity timer will.  (A database that cannot be read in *)
(* trySync does end it.)                                                   *)
(***************************************************************************)
LoopSurvives ==
  up /\ ~May("read") => Going \/ (~connected /\ probing)

(***************************************************************************)
(* Every to-device message up to the token is handled once: two loops do   *)
(* not handle it twice.  A crash between commit and handling loses it, for *)
(* the token has moved.                                                    *)
(***************************************************************************)
ToDeviceOnce ==
  env \cap {"write", "relogin"} = {} =>
    \A p \in Positions :
      /\ handled[p] <= 1
      /\ p <= token /\ "crash" \notin env => handled[p] = 1

\* With errors that end, whatever the server has reaches the databases
\* unless the user is logged out.
CatchesUp ==
  \A p \in Positions :
    (~May("read") /\ pos >= p) ~> (token >= p \/ ~user)
==============================================================================
