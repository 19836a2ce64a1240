------------------------------- MODULE UserKeys -------------------------------
(***************************************************************************)
(* The cached device list of one user (src/src/Cache.cpp): how a change    *)
(* the server announces gets into the cache, how the callers of query_keys *)
(* wait for it, and the verification status that is computed from it once  *)
(* and kept.                                                               *)
(*                                                                         *)
(* An entry is up to date when it was fetched for the batch token of the   *)
(* sync that last announced a change.  Lists are fetched by three kinds of *)
(* requests, whose answers may come in any order: what marks the entry,    *)
(* query_keys, and the sending of an olm message to devices that are not   *)
(* cached.  The first two hand their answer to the main thread; the third  *)
(* stores it on the network thread.                                        *)
(*                                                                         *)
(* The server's list has a version; a batch token is a number, 0 is none.  *)
(***************************************************************************)
EXTENDS Naturals, Sequences, FiniteSets

CONSTANTS
  Devices,     \* device ids of the user
  Keys,        \* identity keys
  NoKey,       \* the device is not listed
  Callers,     \* calls of query_keys for the user
  Histories,   \* bound: the lists the server has, one after the other
  MaxTokens,   \* bound: syncs
  MaxUses,     \* bound: what is done besides syncs
  MaxErrors,   \* bound: requests that fail
  Scenarios    \* environment: what may happen in one behaviour

ASSUME UserKeysOK ==
  /\ NoKey \notin Keys
  /\ \A h \in Histories : h # <<>> /\ h \in Seq([Devices -> Keys \cup {NoKey}])
  /\ {MaxTokens, MaxUses, MaxErrors} \subseteq Nat
  /\ Scenarios \subseteq SUBSET {"call", "status", "untracked", "send", "race", "overlap", "error"}

VARIABLES
  \* on disk
  entry,     \* the UserKeyCache of the user
  token,     \* nextBatchToken
  marked,    \* VerificationCache.device_verified: devices the user verified
  \* in memory, main thread
  queue,     \* events posted to the main thread
  waiting,   \* callers whose context object is connected
  reading,   \* what verificationStatus is computed from, while it is
  memo,      \* verification_storage.status of the user: what it is of
  \* in memory, network thread
  requests,  \* open requests
  erasing,   \* a list was stored and the status is not erased yet
  \* the server and the world
  versions,  \* the lists the server has
  now,       \* the one it has at this time
  told,      \* the version a sync announced
  uses, errors,
  env,       \* the scenario of this behaviour
  \* history
  of,        \* the version of the stored list
  due,       \* the version the last mark asked for
  called,    \* how often query_keys gave a caller the keys
  refused    \* how often it gave a caller an error

disk    == <<entry, token, marked>>
memory  == <<queue, waiting, reading, memo, requests, erasing>>
world   == <<versions, now, told, uses, errors, env>>
history == <<of, due, called, refused>>
vars    == <<disk, memory, world, history>>

------------------------------------------------------------------------------

List     == [Devices -> Keys \cup {NoKey}]
NoList   == [d \in Devices |-> NoKey]
Unknown  == [list |-> NoList, exists |-> FALSE, updated |-> 0, changed |-> 0,
             ids |-> {}, keys |-> {}]
None     == <<>>
May(event) == event \in env
Idle     == reading = None
Listed(l) == {d \in Devices : l[d] # NoKey}

Fetch(kind, tag, caller) ==
  {[kind |-> kind, tag |-> tag, caller |-> caller, version |-> 0]}

(* A definition marked "Variant" is the one after it with a mistake in it;  *)
(* Next does not use it.  It shows which mistake a property would reveal.   *)

\* An answer is skipped unless it was fetched for the token of the last change.
Wanted(tag) == entry.changed # 0 => entry.changed = tag

\* A device is kept with the keys it has; it is added when neither its id nor
\* its key were seen before.  Every entry here is signed by its device.
Accepted(l, d) ==
  \/ entry.list[d] = l[d]
  \/ /\ entry.list[d] = NoKey
     /\ d \notin entry.ids /\ l[d] \notin entry.keys

\* updateUserKeys: the first list of a user is stored as it is.
Updated(l, tag) ==
  IF ~entry.exists
    THEN [Unknown EXCEPT !.list = l, !.exists = TRUE, !.updated = tag]
    ELSE [entry EXCEPT !.list = [d \in Devices |->
                                   IF d \in Listed(l) /\ Accepted(l, d) THEN l[d] ELSE NoKey],
                       !.ids = @ \cup Listed(l),
                       !.keys = @ \cup {l[d] : d \in Listed(l)},
                       !.updated = tag]

Store(version, tag) ==
  IF ~entry.exists \/ Wanted(tag)
    THEN /\ entry' = Updated(versions[version], tag)
         /\ of' = version
    ELSE UNCHANGED <<entry, of>>

------------------------------------------------------------------------------
\* Asking for the list

\* Variant: the request is made for the token of the sync before.
MarkForLast(to, version, more) ==
  /\ entry' = [entry EXCEPT !.exists = TRUE, !.changed = to]
  /\ due' = version
  /\ requests' = more \cup Fetch("mark", token, 0)

\* markUserKeysOutOfDate for the batch token to.
Mark(to, version, more) ==
  /\ entry' = [entry EXCEPT !.exists = TRUE, !.changed = to]
  /\ due' = version
  /\ requests' = more \cup Fetch("mark", to, 0)

\* saveState: the token is set and changed users are marked, in one transaction.
Sync ==
  /\ Idle /\ token < MaxTokens
  /\ token' = token + 1
  /\ told' = now
  /\ IF told' > told
       THEN Mark(token', now, requests)
       ELSE UNCHANGED <<entry, due, requests>>
  /\ UNCHANGED <<marked, queue, waiting, reading, memo, erasing, versions, now, uses, errors,
                 env, of, called, refused>>

\* The user looks at the profile, or the session begins.
Refresh ==
  /\ Idle /\ uses < MaxUses /\ token # 0
  /\ uses' = uses + 1
  /\ Mark(token, told, requests)
  /\ UNCHANGED <<token, marked, queue, waiting, reading, memo, erasing, versions, now, told,
                 errors, env, of, called, refused>>

\* roomVerificationStatus marks members without keys in a transaction it does
\* not commit: only the request is made.
RoomStatus ==
  /\ Idle /\ uses < MaxUses /\ ~entry.exists
  /\ uses' = uses + 1
  /\ requests' = requests \cup Fetch("mark", token, 0)
  /\ UNCHANGED <<disk, queue, waiting, reading, memo, erasing, versions, now, told, errors,
                 env, history>>

\* send_encrypted_to_device_messages for a user or a device that is not cached.
SendOlm ==
  /\ May("send") /\ Idle /\ uses < MaxUses
  /\ uses' = uses + 1
  /\ requests' = requests \cup Fetch("send", 0, 0)
  /\ UNCHANGED <<disk, queue, waiting, reading, memo, erasing, versions, now, told, errors,
                 env, history>>

\* query_keys: an entry that is up to date is handed out at once, else the
\* caller listens for the end of a fetch, its own or another one.
QueryKeys(c) ==
  /\ May("call") /\ Idle /\ uses < MaxUses /\ called[c] = 0 /\ refused[c] = 0 /\ c \notin waiting
  /\ uses' = uses + 1
  /\ IF entry.exists /\ entry.updated = entry.changed
       THEN /\ called' = [called EXCEPT ![c] = 1]
            /\ UNCHANGED <<requests, waiting>>
       ELSE /\ waiting' = waiting \cup {c}
            /\ requests' = requests \cup Fetch("call", entry.changed, c)
            /\ UNCHANGED called
  /\ UNCHANGED <<disk, queue, reading, memo, erasing, versions, now, told, errors, env, of,
                 due, refused>>

------------------------------------------------------------------------------
\* The answers, on the network thread

Serve(r) ==
  /\ r \in requests /\ r.version = 0
  /\ requests' = (requests \ {r}) \cup {[r EXCEPT !.version = now]}
  /\ UNCHANGED <<disk, queue, waiting, reading, memo, erasing, world, history>>

Update(r) == [kind |-> "update", tag |-> r.tag, version |-> r.version, to |-> {}]
Finalize  == [kind |-> "finalize", tag |-> 0, version |-> 0, to |-> waiting]
Delete(W) == [kind |-> "delete", tag |-> 0, version |-> 0, to |-> W]

\* Variant: the end is not announced for an answer that will be skipped.
AnsweredIfWanted(r) ==
  /\ r \in requests /\ r.version # 0 /\ r.kind # "send"
  /\ May("overlap") \/ \A i \in DOMAIN queue : queue[i].kind # "finalize"
  /\ requests' = requests \ {r}
  /\ queue' = IF r.kind = "mark" \/ ~Wanted(r.tag)
                THEN Append(queue, Update(r))
                ELSE queue \o <<Update(r), Finalize>>
  /\ UNCHANGED <<disk, waiting, reading, memo, erasing, world, history>>

\* The signals are posted to whoever is connected now.
Answered(r) ==
  /\ r \in requests /\ r.version # 0 /\ r.kind # "send"
  /\ May("overlap") \/ \A i \in DOMAIN queue : queue[i].kind # "finalize"
  /\ requests' = requests \ {r}
  /\ queue' = IF r.kind = "mark"
                THEN Append(queue, Update(r))
                ELSE queue \o <<Update(r), Finalize>>
  /\ UNCHANGED <<disk, waiting, reading, memo, erasing, world, history>>

\* The answer to SendOlm is stored for the token of this moment.
AnsweredSend(r) ==
  /\ r \in requests /\ r.version # 0 /\ r.kind = "send"
  /\ Idle \/ May("race")
  /\ requests' = requests \ {r}
  /\ Store(r.version, token)
  /\ erasing' = TRUE
  /\ UNCHANGED <<token, marked, queue, waiting, reading, memo, world, due, called, refused>>

Erased ==
  /\ erasing
  /\ erasing' = FALSE
  /\ memo' = None
  /\ UNCHANGED <<disk, queue, waiting, reading, requests, world, history>>

\* A request that fails is logged; the caller is told, and stays connected.
Failed(r) ==
  /\ May("error") /\ errors < MaxErrors
  /\ r \in requests
  /\ errors' = errors + 1
  /\ requests' = requests \ {r}
  /\ refused' = IF r.kind = "call" THEN [refused EXCEPT ![r.caller] = @ + 1] ELSE refused
  /\ UNCHANGED <<disk, queue, waiting, reading, memo, erasing, versions, now, told, uses, env,
                 of, due, called>>

------------------------------------------------------------------------------
\* The main thread's events

Next1(kind) == Idle /\ queue # <<>> /\ Head(queue).kind = kind

\* Variants: the list is stored for the token of this moment; the status
\* stays as it is.
UserKeysUpdateNow ==
  /\ Next1("update")
  /\ queue' = Tail(queue)
  /\ Store(Head(queue).version, entry.changed)
  /\ memo' = None
  /\ UNCHANGED <<token, marked, waiting, reading, requests, erasing, world, due, called, refused>>

UserKeysUpdateOnly ==
  /\ Next1("update")
  /\ queue' = Tail(queue)
  /\ Store(Head(queue).version, Head(queue).tag)
  /\ UNCHANGED <<token, marked, waiting, reading, memo, requests, erasing, world, due, called, refused>>

\* updateUserKeys: whether it was stored or skipped, the status is erased.
UserKeysUpdate ==
  /\ Next1("update")
  /\ queue' = Tail(queue)
  /\ Store(Head(queue).version, Head(queue).tag)
  /\ memo' = None
  /\ UNCHANGED <<token, marked, waiting, reading, requests, erasing, world, due, called, refused>>

\* userKeysUpdateFinalize: a caller is given the keys and its context object
\* is deleted later, behind the events that are posted already.
Finalized ==
  /\ Next1("finalize")
  /\ queue' = Append(Tail(queue), Delete(Head(queue).to \cap waiting))
  /\ called' = [c \in Callers |->
                  IF c \in Head(queue).to \cap waiting THEN called[c] + 1 ELSE called[c]]
  /\ UNCHANGED <<disk, waiting, reading, memo, requests, erasing, world, of, due, refused>>

Deleted ==
  /\ Next1("delete")
  /\ queue' = Tail(queue)
  /\ waiting' = waiting \ Head(queue).to
  /\ UNCHANGED <<disk, reading, memo, requests, erasing, world, history>>

\* markDeviceVerified and markDeviceUnverified
MarkVerified(d) ==
  /\ May("status") /\ Idle /\ uses < MaxUses
  /\ uses' = uses + 1
  /\ marked' = IF d \in marked THEN marked \ {d} ELSE marked \cup {d}
  /\ memo' = None
  /\ UNCHANGED <<entry, token, queue, waiting, reading, requests, erasing, versions, now, told,
                 errors, env, history>>

\* verificationStatus: what is kept, or else computed.  The snapshot it is
\* computed from is taken before the lock.
VerificationStatus ==
  /\ May("status") /\ Idle /\ memo = None
  /\ memo' = <<entry.list, marked>>
  /\ UNCHANGED <<disk, queue, waiting, reading, requests, erasing, world, history>>

StatusBegin ==
  /\ May("race") /\ Idle
  /\ \E r \in requests : r.kind = "send"
  /\ reading' = <<entry.list, marked>>
  /\ UNCHANGED <<disk, queue, waiting, memo, requests, erasing, world, history>>

StatusEnd ==
  /\ ~Idle
  /\ reading' = None
  /\ memo' = IF memo = None THEN reading ELSE memo
  /\ UNCHANGED <<disk, queue, waiting, requests, erasing, world, history>>

------------------------------------------------------------------------------
\* The server and the specification

Change ==
  /\ now < Len(versions)
  /\ now' = now + 1
  /\ UNCHANGED <<disk, memory, versions, told, uses, errors, env, history>>

\* The first sync is done.  The user is tracked, and its first list is being
\* fetched, or is not.
Init ==
  /\ env \in Scenarios
  /\ versions \in Histories /\ now = 1
  /\ IF May("untracked")
       THEN entry = Unknown /\ requests = {} /\ due = 0
       ELSE /\ entry = [Unknown EXCEPT !.exists = TRUE, !.changed = 1]
            /\ requests = Fetch("mark", 1, 0)
            /\ due = 1
  /\ token = 1 /\ told = 1 /\ marked = {}
  /\ queue = <<>> /\ waiting = {} /\ reading = None /\ memo = None
  /\ erasing = FALSE
  /\ uses = 0 /\ errors = 0
  /\ of = 0
  /\ called = [c \in Callers |-> 0] /\ refused = [c \in Callers |-> 0]

Asks    == Sync \/ Refresh \/ RoomStatus \/ SendOlm \/ \E c \in Callers : QueryKeys(c)
Network == Erased \/ \E r \in requests : Serve(r) \/ Answered(r) \/ AnsweredSend(r) \/ Failed(r)
Slots   == UserKeysUpdate \/ Finalized \/ Deleted
Status  == VerificationStatus \/ StatusBegin \/ StatusEnd \/ \E d \in Devices : MarkVerified(d)

Next == Asks \/ Network \/ Slots \/ Status \/ Change

Spec == Init /\ [][Next]_vars

\* Requests are answered or fail, the Qt event loop runs.
Fairness ==
  /\ WF_vars(\E r \in requests : Serve(r) \/ AnsweredSend(r))
  /\ WF_vars(\E r \in requests : Answered(r))
  /\ WF_vars(Slots) /\ WF_vars(StatusEnd) /\ WF_vars(Erased)

FairSpec == Spec /\ Fairness

------------------------------------------------------------------------------
\* Properties

Versions == 0 .. Len(versions)
Tokens   == 0 .. MaxTokens
Request  == [kind : {"mark", "call", "send"}, tag : Tokens, caller : Callers \cup {0},
             version : Versions]
Event    == [kind : {"update", "finalize", "delete"}, tag : Tokens, version : Versions,
             to : SUBSET Callers]
Statuses == {None} \cup (List \X SUBSET Devices)

\* Every variable stays in its range.
TypeOK ==
  /\ entry \in [list : List, exists : BOOLEAN, updated : Tokens, changed : Tokens,
                ids : SUBSET Devices, keys : SUBSET Keys]
  /\ token \in Tokens /\ marked \subseteq Devices
  /\ queue \in Seq(Event)
  /\ waiting \subseteq Callers
  /\ reading \in Statuses /\ memo \in Statuses
  /\ requests \subseteq Request
  /\ erasing \in BOOLEAN
  /\ versions \in Histories /\ now \in DOMAIN versions
  /\ {told, of, due} \subseteq 0 .. now
  /\ called \in [Callers -> 0 .. 2] /\ refused \in [Callers -> 0 .. 1]

(***************************************************************************)
(* An entry that passes for up to date (updated_at = last_changed) holds a *)
(* list at least as new as the change that was announced last, whatever    *)
(* order the answers come in.  Not so with the answer to SendOlm, which is *)
(* stored for the token of the moment it arrives.                          *)
(***************************************************************************)
UpToDateIsCurrent ==
  /\ ~May("send")
  /\ entry.changed # 0 /\ entry.updated = entry.changed
  => of >= due

\* The verification status that is kept is that of the stored list and the
\* devices the user verified, unless the list is stored on the network thread
\* between the snapshot the status is computed from and the lock.
StatusIsCurrent ==
  ~May("race") /\ memo # None /\ ~erasing => memo = <<entry.list, marked>>

\* A caller of query_keys is called back.
CallersAnswered ==
  \A c \in Callers : c \in waiting ~> called[c] + refused[c] > 0

\* A change that was announced is fetched, unless requests fail: an answer
\* that is skipped has another one behind it.
ChangesFetched ==
  ~May("error") /\ entry.updated < entry.changed ~> entry.updated >= entry.changed
==============================================================================
