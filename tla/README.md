# A TLA+ development of nheko-library

nheko-library is the core of a Matrix client without its user interface: it
logs in, runs the `/sync` loop, keeps rooms and keys in LMDB, encrypts and
decrypts, sends messages, verifies devices and places calls.  This directory
models the parts of it whose correctness depends on the order of events, checks
them with TLC and proves theorems about them with TLAPS.  Paths are relative to
`src/src/`.

## 1. Inventory

Nearly all state lives on the Qt main thread.  What makes the order of events
hard is what surrounds it: HTTP callbacks run on the threads of the HTTP client
and come back as queued signals, GStreamer calls back on threads of its own,
timers fire when they like, the server repeats what the client did, and LMDB
survives a restart while everything else does not.

| Component | State | Operations | Talks to | Hard part | What makes it correct |
|---|---|---|---|---|---|
| **Send queue** `timeline/EventStore.cpp`, `Cache.cpp` (pending, order databases), `timeline/Timeline.cpp` | pending database keyed by millisecond, order databases, `current_txn`, its error count, retry timers | addPending, processPending, messageSent, messageFailed, retry, saveTimelineMessages, restart | homeserver, sync loop | lost answers, retries, limited syncs, restart | one message in flight, order kept, none sent or shown twice, the queue never sleeps on work |
| **Device verification** `encryption/DeviceVerificationFlow.cpp`, `VerificationManager.cpp` | one flow per transaction id: state, roles, keys, flags, timer | next, cancel, eight kinds of message, timeout | the same program, or another, at the other end | crossing starts, lost and reordered messages, several devices | the same emoji at both ends, no trust without both users, flows end |
| **Calls** `voip/CallManager.cpp`, `voip/WebRTCSession.cpp` | call id, waiting invite, candidates, session state, pipeline | sendInvite, acceptInvite, hangUp, four call events, timer, pipeline signals | timeline, GStreamer threads | signals that arrive after their call | one id for pipeline, invite and messages; no call that cannot be ended |
| **Sync loop and session** `Client.cpp`, `Cache.cpp` | next-batch token, connection flag, timers, the open cache | login, logout, initial sync, trySync, handleSyncResponse, connection loss and return | all others | two loops, dropped duplicates, failures and crashes in the middle | the databases are the log up to the token, somebody always carries the loop on |
| **Timeline window** `timeline/EventStore.cpp`, `Cache.cpp` | `first`, `last`, order databases, pagination token | handleSync, fetchMore, saveOldMessages, deleteOldMessages | sync loop, send queue | pages that cross a limited sync | rows without a gap nobody can close, fetching ends |
| **Megolm sessions, sending** `encryption/Olm.cpp`, `Cache.cpp` | outbound session with its index and the list of who has it | encrypt_group_message, send_encrypted_to_device_messages, key requests | user keys, send queue | rotation against changing members and devices | removed devices get no later key, an index stands for one message |
| **Megolm sessions, receiving** `encryption/Olm.cpp`, `timeline/EventStore.cpp` | inbound session and its data, verdicts on events, key requests | room and forwarded keys, backup lookup, import, decryptEvent | key backup, sync loop | keys that come on two threads while events are read | no verdict outlives its reason, an index opens one event |
| **User keys and trust** `Cache.cpp` | key cache per user, status cache | updateUserKeys, query_keys, markUserKeysOutOfDate, verificationStatus | verification, megolm | answers out of order | what counts as up to date is; callers are answered |
| **Rooms, spaces, notifications** `Cache.cpp`, `Cache_p.h`, `Client.cpp` | lists of rooms and invites, RoomInfo, space children, timelines, notified events | saveState, updateSpaces, join, leave, create, sendNotifications | sync loop, calls | answers before or after the sync that repeats them | the lists are the account's, calls are heard, one notification per event |
| **Start-up and migrations** `Client.cpp`, `Cache.cpp` | format version, account, pickle secret | bootstrap, six migrations, account creation, first upload and sync | settings | the program ends between two transactions | a cache that bears the version has the format; nothing is lost by an upgrade |
| **One-time and fallback keys** `Client.cpp` | Olm account, unpublished keys, the server's count | ensureOneTimeKeyCount, mark_keys_as_published, fallback timer | homeserver | lost upload answers, crashes | keys handed out can be used, counts converge |
| **Olm channels** `encryption/Olm.cpp`, `Cache.cpp` | stored Olm sessions, rate limit, messages that wait for keys | handle_to_device_messages, handle_olm_message, sending and recovery | user keys | a peer that lost its sessions | the session sent in can be read; a broken channel heals |
| **Cross-signing secrets, key backup** `encryption/Olm.cpp`, `encryption/SelfVerificationStatus.cpp`, `Client.cpp` | secrets, pending requests, backup version | request and answer secrets, setupCrosssigning, secret storage, getBackupVersion | homeserver, other devices | uploads that fail half way, revoked devices | secrets stored are those of the present keys |
| UIA, presence, authentication, views, settings, event helpers, devices, logging | - | one-shot requests, getters, formatting | - | little | - |

Components meet in four places: the sync loop hands one answer to rooms,
timelines, key lists, one-time keys and to-device messages, in that order; the
send queue and the timeline window share the order databases; sending a megolm
key goes through Olm channels and the cached device lists; and a timeline passes
call events on to CallManager.

The hazards of this code, each at its line and with the properties that watch
it, are listed in `PROJECT.json`.

## 2. Modules

| Module | Role |
|---|---|
| `SendQueue`, `MCSendQueue` | the send queue of one room with server, clock, sync and restart |
| `Outbox` | what the queue promises: an abstract specification, implemented by `SendQueue` |
| `DeviceVerification`, `MCDeviceVerification` | all ends of verification flows and the to-device messages between them |
| `Call`, `MCCall` | one device's CallManager and WebRTCSession |
| `SyncLoop`, `MCSyncLoop` | the sync loop, from login to logout |
| `TimelineWindow`, `MCTimelineWindow` | the order databases of a room and the window EventStore shows |
| `RoomKeys`, `MCRoomKeys` | the outbound megolm sessions of a room |
| `Decryption`, `MCDecryption` | one inbound megolm session and the events encrypted with it |
| `UserKeys`, `MCUserKeys` | the cached device list of one user |
| `Rooms`, `MCRooms` | the rooms of an account |
| `Startup`, `OneTimeKeys`, `OlmChannels`, `Secrets` | four parts of a device's encryption, over the scenario in `DeviceEnv` |
| `Device`, `MCDevice` | the four in one specification |
| `RoomProofs` | theorems and proofs about `SendQueue` and `Rooms`: what a room sends, and how it is listed |
| `TimelineProofs` | theorems and proofs about `Decryption` and `TimelineWindow`: how a room's events are read, and how they are shown |
| `DeviceVerificationProofs`, `CallProofs`, `SyncLoopProofs`, `RoomKeysProofs`, `UserKeysProofs`, `DeviceProofs` | theorems and proofs about one component each |

Some definitions are marked *Variant*.  `Next` does not use them: each is a
definition of the model with one plausible mistake, and shows that a property
would reveal that mistake.

**Scenarios.**  What the environment may do in a behaviour (lose an answer,
crash, deliver a signal late, ...) is a set `env`, chosen in `Init` from the
constant `Scenarios` and fixed from then on; `May(x)` guards the actions it
allows.  So one run covers many environments without the product of all of
them, and a property that depends on the environment names the scenarios it
excepts.  What the code does in an excepted scenario is still in the model, and
is described in section 5.

Two modules are proved about in one module with another component, and so have
names of their own for what every module has: `RoomsSpec` and `WindowSpec`,
`RoomsNext` and `WindowNext`, and `may` and `happening` for `env`.

### 2.1 SendQueue

A message stands for its transaction id and for its event id; `echoes` and
`confirmed` say under which the order databases know it.

| Model | Code |
|---|---|
| `pending`, `stamp` | `getPendingMessagesDb` and its millisecond keys |
| `echoes`, `confirmed` | `evToOrderDb`, `orderDb`, `eventsDb` |
| `relTo`, `byTxn` | the relation inside a stored event, and whether it names a transaction id |
| `current`, `errors`, `timers` | `current_txn`, `current_txn_error_count`, `QTimer::singleShot(1000, ...)` |
| `requests`, `signals` | the `send_room_message` request, queued `messageSent` / `messageFailed` |
| `net`, `log`, `synced` | the server: what may still arrive, what it accepted, what was synced |
| `AddPending` | `EventStore::addPending` with `savePendingMessage`, `handleSync` and `processPending` |
| `SendFirst` | the `processPending` slot with `firstPendingMessage`, run inside each slot that emits it |
| `MessageSent`, `MessageFailed`, `RetryTimeout` | the slots and the timer |
| `SyncTimeline`, `SyncLimited` | `saveTimelineMessages` |
| `Restart` | process exit, then the constructor, which emits nothing |

`processPending` is emitted from the main thread to an object of the main thread,
so the slot runs inside the emission and belongs to the action.  The slot's path for a
transaction id that does not start with `m` (`timeline/EventStore.cpp:123`) is left out:
`Timeline::addPendingMessage` puts the `m` before every id.  Four constants
open or close the environment: equal milliseconds, lost answers, limited syncs,
encryption.

### 2.2 DeviceVerification

`flow[f][d]` is the flow with transaction id `f` in `dvList` of device `d`, with
the fields of the class (`sender`, `deviceId`, `deviceIds`, `canonical` for
`canonical_json`, `commitment`, `method`, `sas`, the four *sent* flags, `timer`).
Each handler of the constructor is an action `Receive...`, each call of `next()`
an action, and `Mail` is `send()`.  A key is the device that owns it; a SAS is the
tuple that is hashed into it (who counts as the starter, who does not, the keys)
with the notation it is shown in, so two SAS are equal exactly when the screens
are.  The users compare screens before they confirm (`SameSas`); everything else
they do is free.  Trust is two things: `verified` are the devices that
`acceptDevice` marks, `signed` those of which a key was signed.  A matching MAC is
signed for and uploaded in its handler (`UploadSignatures`), whatever the state of
the flow and whether or not the user here has confirmed; the key that is signed,
the device's or its user's master key, stands for the device, and an upload may fail or
have nothing to sign with.  In a disturbed scenario messages are lost (they may simply
never be received) and overtake, users cancel and timers expire.  `otherClients`
may send `start` where this program waits, as the diagram of
`DeviceVerificationFlow.h` says some clients do.

### 2.3 Call

`manager` holds the fields of CallManager, `session` those of WebRTCSession and
its pipeline, `queue` the signals queued to the main thread.  `SetState`,
`Created` and `ConnectFailed` are what such a signal does when `Handle` takes it.
`end()` is called on the main thread, where `stateChanged` runs `clear()` at once.
`env.late` lets the main thread do other things before queued signals,
`env.broken` lets pipelines, descriptions and streams fail.

### 2.4 SyncLoop

Nothing owns the loop: it lives in whatever is outstanding, so the state is a set
of HTTP `requests`, a `queue` of signals and the running `delays`.

| Model | Code |
|---|---|
| `Start`, `Login`, `Logout`, `Drop` | `bootstrap`, the login slots, `logout`, `dropToLogin` |
| `KeysAnswered`, `InitialAnswered`, `InitialSync` | callbacks and slot of the first upload and sync |
| `TrySync`, `TrySyncCb`, `TryDelayedSyncCb`, `RetryTimeout` | `trySync`, the queued connections, the single-shot timer |
| `SyncAnswered`, `SyncFailed` | the callback of `/sync`, on the network thread |
| `HandleSyncResponse`, `CrashInResponse`, `IsNext` | `handleSyncResponse` with `saveState` as one transaction; what follows its commit; the test for duplicates |
| `Probe`, `Probed`, `ConnectionLost`, `ConnectionRestored` | `connectivityTimer_`, `versions`, the two slots |
| `Restart`, `Shutdown` | process exit; `http::client()->shutdown()` |

The initial sync drops the user on every refusal but 502, 504 and 524, also when the token is
valid.  A position of the server's log is one event and one to-device message; a batch
token is a position.  The server keeps to-device messages until they are
acknowledged by a token, so an answer carries those after `from`.

### 2.5 TimelineWindow

`order` and `msgs` are the two databases that number events and rows, as
functions from numbers; the middle stands for `UINT64_MAX / 2` and the end for
`UINT64_MAX`.  `SyncWindow` is `saveTimelineMessages` and `handleSync` after it,
`Cleanup` is `deleteOldMessages`, `FetchMore` and the slot are the two ways into a
request (`Fetch`), `PageOf` is what the server has for it, `PageAnswered` the callback with its test of the token, and
`OldMessagesRetrieved` the slot with `saveOldMessages`, which may come after a
limited sync (`"race"`).  Events are messages, hidden events, redactions, or events the
user must not see.

### 2.6 RoomKeys and Decryption

In `RoomKeys`, `encrypt_group_message` is four steps, for it stores and sends in
between: `Prepare` (compare members with `currently.keys`, then `Use` or `Create`),
`Share` (`send_encrypted_to_device_messages`), `Encrypt` (and save) and `Queue`.
The second writer of the session is the `messageSent` slot of `EventStore`: a reply to
a pending message waits in the queue (`"waits"`), and when the server has named that
message the reply is encrypted again with the session the room has by then
(`Reencrypt`, which saves the ratchet) and replaces the pending one (`Replace`), with no
look at members, devices, age or number of messages.  `Entry` is what is in the queue; a
message encrypted again is for whom the message queued last was listed (`LastTo`).
`given` and `users` are `currently.keys`, `known` the cached device lists,
`limited` the ten-hour rate limit.  `Claimed` and `Queried` are the callbacks on
the network thread.  A key is a device, a session and the index it opens from.

`Decryption` is the other end: `RoomKey`, `ForwardedKey`, `LookupSaved` and
`ImportSessionKeys` are the four ways a key comes in, `Decrypt` is
`EventStore::decryptEvent` with `olm::decryptEvent` inside, split in `ReadSession`
and `ReadData` where the cache is read twice (`"race"`).  `Notified` is
`receivedSessionKey`.  Every verdict is kept in `cached`.

### 2.7 UserKeys

`entry` is the `UserKeyCache` of one user with `updated_at` and `last_changed` as
batch tokens.  `Sync`, `Refresh`, `RoomStatus` and `SendOlm` are what asks for keys, `QueryKeys`
the call with its context object and `Failed`, `Answered`, `AnsweredSend` its
callbacks; `UserKeysUpdate`, `Finalized` and `Deleted` are the posted events.
`StatusBegin` and `StatusEnd` are the transaction and the lock of
`verificationStatus`.  `of`, `due`, `called` and `refused` are history.

### 2.8 Rooms

The server is a snapshot per room (`here`, `state`, `child`, `parent`, `power`);
`Serve` puts what changed since the last answer on its way and `HandleSync` is
`saveState`, `syncTimelines` and the rest of `handleSyncResponse` that concerns
rooms: `SaveRooms`, `SaveInfo`, `SaveSpaces`, `SyncTimelines`.  `JoinAnswered`,
`LeaveAnswered`, `CreateAnswered` and the queued `RemoveRoom` come at any time.
`AskNotifications` and `ServeNotifications` are the request that every sync with
unread events makes.  `LeaveUnknown` is the error branch of `leaveRoom`'s callback: the
server does not know the room, so no sync will tell, and the callback takes it off the lists
itself.  The id of such a room is not given to another one, so it counts as left.  An answer that
was made before may be on its way then (`"late"`), and bring the room back.

### 2.9 Device

`Startup` has a step per transaction of `bootstrap` (`Migrate`, `StampFormat`,
`LoadStateFromCache`, `CreateAccount`, ...), with `Quit` between any two.  An inbound
session may be stored with its `GroupSessionData` or without (`data`), which
decides whether the migration *2022.04.08* keeps it.
`OneTimeKeys` has `EnsureOneTimeKeyCount` and its callbacks, an account that may
be newer than its pickle, and the server that counts and hands out.  An answer may
list no count, and then does nothing (`"silent"`).
`OlmChannels` has one peer, an ordered store, and the choices of
`handle_olm_message` as actions (`HandleDecrypted`, `HandlePreKeyMessage`,
`HandleUndecryptable`).  `Secrets` has two other devices, one of which may lose
its trust, secret storage and backup version; a secret is the generation of keys
it belongs to.  `setupCrosssigning` may give up half-way (`SetupGivesUp`), and each of its
uploads may fail (`"fail"`).  `Device` is their composition: the four parts share no variable
but `env`, so a scenario moves one of them and their interleavings, which no
property can tell apart, are left out.

## 3. Runs

Ten runs must pass, two show a disagreement (section 4).  All of them use
the specification as it is; the configurations give constants their values.

| Run | Instance | Shows |
|---|---|---|
| `send_queue` | 2 messages, 2 milliseconds, 2 errors, 2 restarts, lost answers, limited syncs; fair | `OneInFlight`, `NoOvertaking`, `ImplementsOutbox`, `QueueDrains` |
| `verify` | 2 devices that both ask, disturbed and undisturbed; 3 devices of which one asks two; fair | `SasAgreement`, `TrustNeedsConsent`, `OneResponder`, `Completes` |
| `call` | 2 calls in any mix of directions, all four environments; fair | `PipelineIsCurrent`, `OtherSideTold`, `RingingEnds` |
| `sync_loop` | 2 positions, 2 equal requests, 1 error, 1 restart, 1 login, six sets of faults; fair | `SavedIsPrefix`, `LoopSurvives`, `ToDeviceOnce`, `CatchesUp` |
| `timeline` | 5 events in five mixes of kinds, pages of 2, 1 row kept, six scenarios; fair | `NoGapUndisturbed`, `FetchEnds` |
| `room_keys` | 2 users with 2 devices each, one other of each verified, rotation after 2 messages, 3 sessions, 3 messages, 2 changes, 1 fault, nine scenarios | `IndexUsedOnce`, `OnlyListedRead`, `KeyFirst`, `RequestsRecover` |
| `user_keys` | 1 device with three lists one after the other, 2 callers, 2 syncs, 1 error, five scenarios; fair | `UpToDateIsCurrent`, `StatusIsCurrent`, `CallersAnswered`, `ChangesFetched` |
| `decryption` | 3 events over 2 indexes, 3 keys, 2 uses, eight scenarios | `VerdictIsFresh`, `OneEventPerIndex`, `TrustIsOfSession` |
| `rooms` | 1 room and 1 space, 2 other users, 5 changes, 3 uses, ten scenarios | `ListsAreCurrent`, `CallsAreHeard`, `ChildrenAreNamed`, `InfoIsCurrent`, `NotifiedOnce` |
| `device` | all versions of the cache, 3 starts; 2 one-time keys wanted; 3 Olm sessions, 2 messages on their way; 2 generations of secrets; 30 scenarios; fair | `StampedIsMigrated`, `NothingLost`; `KeysKept`, `EnoughKeys`; `LatestReadable`, `Heals`; `SecretsFit` |
| `replies` | 2 messages, lost answers | `PendingRepliesResolved` is violated |
| `verify_glare` | as the disturbed pair of `verify`, with decimal-only offers | `SasAgreement` is violated |

**What the properties say.**

* *Send queue.*  One message is in flight and the retry timer never cuts a
  request short; a message is never overtaken by one queued in a later
  millisecond; databases and slots implement the `Outbox`, in which nothing is
  reordered, resent or dropped; a message of a woken queue leaves it.
* *Verification.*  Two ends that show a SAS for each other show the same; a device is
  marked verified only after both users confirmed one SAS, and signed only after
  the user at its end confirmed the SAS both show; a request to several devices
  ends with one; an undisturbed request succeeds.
* *Calls.*  A live pipeline belongs to the current call; a call whose invite or
  answer was sent is hung up by one side or the other; an offer does not ring
  for ever.
* *Sync loop.*  What is saved is the log up to the token, each position once and
  in order; somebody carries the loop on, or the connectivity timer will;
  to-device messages are handled once; the client catches up.
* *Timeline.*  An event between two rows is a row, unless a limited sync or a
  clean-up comes between a page's check and its slot; a view that waits is told.
* *Megolm.*  No two messages with one session and index, whoever encrypted them, and none of
  `encrypt_group_message` past the rotation period; no unverified device
  has a key to a message it was not listed for; whom a message is meant for has
  the key, or a claim under way that brings it, before the message leaves; what was missed
  can be asked for, but for one message.  A reply that `messageSent` encrypts again is one
  for those the message queued last was listed for.  On receipt: `missing` does not outlive the
  key; of two events with one index one opens; trust belongs to the session it
  was given to.
* *User keys.*  An entry that counts as up to date is as new as the last change
  announced; the status kept is that of the stored list; callers of `query_keys`
  are called back; what was announced is fetched.
* *Rooms.*  Once everything is handled, lists and timelines are the account's,
  call events are connected, names and pictures those of state and members;
  the children of a space are those named, at any time; one notification per event.
* *Device.*  A cache with the current version is in the current format; starts
  without crash or failure lose no session that has its data and no login; the server's keys and
  those of messages on their way can be opened here after any restart, as long as
  no upload goes wrong; the server ends with enough
  keys and an unused fallback key, whatever went wrong; the session sent in is one
  the peer can read; a peer whose session is not held comes to speak in one
  that is; the secrets stored are those of the present keys, and none is of a
  device without trust.

**Bounds.**  Two messages are the least at which one is in flight and one
waits; a third adds no pair of neighbours, and the theorems of section 6 hold
for any number.  Two errors make retry, retry and give-up happen; the limit of
ten only repeats the retry.  Two devices are all that talk in a flow; the third is
needed for a request to several.  Two calls are what it takes for a signal of one
to meet the other.  Two positions make an answer that is behind, next and ahead of the token;
two equal requests make the duplicate that `connectionRestored` causes.  Five
events with pages of two give two full pages, an odd one, and a
limited sync with events before, in and after it.  A rotation period of two puts
the rotation between the second and third message.  In `user_keys` the device id is reused
with another key, which is the case the store treats specially.  Three keys of
two indexes in `decryption` make a better, an equal and a worse key follow a first
one.  In `device` three starts are one that crashes, one that crashes again where
it resumes, one that completes; an account keeps twice the keys wanted, and the scenario `"hoard"`
lets its limit be reached.  Three claims use up one set of keys; in the scenario `"long"` twice as many
use up two fallback keys one after the other.
`MaxKeyId` is only there for mutated models and never reached.  Every bound is
a `CONSTANT` commented as one.

Deadlock is not checked: with messages, calls, changes and restarts used up the
systems are at rest.  No run uses symmetry, as most of them check liveness.

**Fairness.**  Everywhere, an HTTP request is answered, if only by the
HTTP client's timeout, and the event loop delivers queued signals and timers;
neither the user nor the changes on the server are fair.  In particular: `SendQueue`
does not assume that the server accepts or that a sync comes.  `SyncLoop` has one
condition per kind of request, for its thread pool serves all.  `LiveSpec` of
`DeviceVerification` (for `Completes`, in an undisturbed world) has messages
arrive and users go on.  `Call`: gathering completes; the other side need not
answer.  `TimelineWindow`: pages are answered and their slot runs.
`OneTimeKeys`: answers of uploads and syncs are handled.  `OlmChannels`: also the peer
goes on sending and receiving, and ten hours pass; without a peer that speaks there is
nothing to heal by.

**Type invariants.**  `TypeOK` of `SendQueue`, `DeviceVerification`, `Call` and `SyncLoop` is proved.
Those of `TimelineWindow`, `RoomKeys` and `UserKeys` state
the ranges and were checked with the configurations of their runs, into which they
can be put as one more `INVARIANT`; the runs list only what can go wrong.

## 4. Findings

* **Replies to a message whose answer was lost** (`replies`).  The relation of a
  pending reply is rewritten in the `messageSent` slot only
  (`timeline/EventStore.cpp:188`).  If the answer is lost and the event comes by
  `/sync`, the message leaves the queue there and the reply is sent with a
  transaction id as its target.
* **A start message that lost the glare** (`verify_glare`) still sets `method`
  (`encryption/DeviceVerificationFlow.cpp:575`): an end that offers decimal only
  makes the winner show numbers while its own screen shows emoji.

## 5. Behaviour no document speaks of

The models contain the following, and the properties except it where it would
break them.  Nothing in the repository promises otherwise, so they are no
findings; a maintainer may want to know of them.

* *Send queue.*  A message queued in the same millisecond as another replaces it
  in the pending database (`Cache.cpp:3023`).  Pending messages sleep after a
  restart until the next one is queued.
* *Verification.*  A MAC that matches is signed for and the signature uploaded at once
  (`encryption/DeviceVerificationFlow.cpp:262-347`): before the user here has confirmed,
  and also after that user has cancelled, for the handler looks at no state.  The user at the
  other end has confirmed by then.  A late ready message sets a flow that timed out back to
  *WaitingForOtherToAccept*, with its timer spent.  A start from a device other
  than the one picked is accepted: where several devices are asked and another
  program runs at one of them, a third device may come to show emoji, and two
  ends that take each other for the partner show different ones, which the users see.
* *Calls.*  Signals handled after their call leave a session that is on call
  without an id, which cannot be hung up.  Candidates are collected for a call
  that was answered elsewhere.
* *Sync loop.*  A token that cannot be read ends the loop (`Client.cpp:820`).  A
  crash between the commit and the handling of to-device messages loses them.  A
  retry timer that outlives a logout asks with the token of the next login.
* *Timeline.*  A page that is checked before and saved after a limited sync puts
  old rows in front of new ones (`timeline/EventStore.cpp:903`).  `removeTimeline`
  deletes a `Timeline` that callbacks still hold (`Client.cpp:1447`).
* *Megolm.*  A pending reply that is encrypted again (`timeline/EventStore.cpp:232-255`)
  may have an index at or past `rotation_period_msgs`, may be read by members who were not
  there when it was written, as its comment says, and may be unreadable for a device it was
  first listed for, which may never have been noted in the session and so cannot ask for its key
  either.  If the program ends after a new session is saved and before its message is
  queued, the reply goes out in a session that not all it is meant for are noted in.
  A key that is stored again comes with an empty list of `indices`, so
  that the replay check starts anew.  A device that has no one-time key, or whose
  claim failed, is noted as having the session, and not claimed again for ten hours.  An
  event is not asked for again while key requests are suppressed.
* *Key lists.*  A list fetched to send a message is stored for the token of the
  moment it arrives (`encryption/Olm.cpp:1490`).  A query that fails leaves its
  caller connected, who may be called twice (`Cache.cpp:4476`).
* *Rooms.*  A `leftRoom` slot that comes late removes a room joined again.  A room
  created when the answer is faster than the sync, joined elsewhere, or invited to
  before the start has a timeline the call manager does not hear
  (`Client.cpp:908`).  A room that the server does not know any more and that an answer on its
  way still has is removed and comes back, for good (`Client.cpp:928`).  A redacted name stays until the next state event.
* *Start.*  The migration *2022.04.08* drops the inbound sessions that have no
  `GroupSessionData` (`Cache.cpp:1247`), as those of an older cache may not.  A crash after the migration *2022.04.08* and before the version is
  stored makes it run again and drop all inbound sessions.  A migration that fails gives
  the cache up (`Client.cpp:504`).  A crash during the initial sync makes a new
  account replace the one whose keys the server has.
* *One-time keys.*  After a lost upload answer, or a crash before the account is
  saved, keys of two runs carry one id, and the server may hand out one that is gone.
  libolm keeps one fallback key besides the present one: a first message that comes after two
  replacements, or after the five minutes, cannot be read.
* *Olm channels.*  A query of the sender's keys that fails drops the message
  (`encryption/Olm.cpp:128`).  The session that has decrypted is stored under its
  own id rather than the peer's key (`encryption/Olm.cpp:715`), so it does not
  become the latest.  A crash between saving the account and the session of a
  pre-key message (`encryption/Olm.cpp:449`, `474`) loses the channel.
* *Secrets.*  Secrets are stored before the keys they belong to are uploaded, and
  stay if the upload fails, or if the setup gives up before it
  (`encryption/SelfVerificationStatus.cpp:57`, `86`); errors of the backup and the secret storage are logged only; if the program ends during it and keys are set up again, the backup
  version of the first time stays in use until the next start.  The backup version is read at the start only.  One
  handler answers all user-interactive authentication.

## 6. Proofs

Every theorem holds for all values of the constants, under the one assumption
the component's module names (`ConstantsOK`, `DevicesOK`, `CallsOK`, `SyncLoopOK`,
`RoomKeysOK`, `DecryptionOK`, `UserKeysOK`, `TimelineOK`; in `Device` only the keys
need one, that `MaxOnetimeKeys` is a number; `Rooms` has `RoomsOK`, and `NoAnswerOK`, that the mark
for no answer is not an answer).  Each rests on an inductive invariant,
which TLC checked before it was proved.

| Module | Theorem | States |
|---|---|---|
| `RoomProofs` | `Invariance` | the inductive invariant |
| | `TypeCorrect`, `Serialised`, `WakeupKept`, `InOrder`, `OneRow` | `TypeOK`, `OneInFlight`, `NoLostWakeup`, `NoOvertaking`, `OneRowPerMessage` |
| | `OutboxImplemented` | `ImplementsOutbox`, unless `SharedMillisecond` |
| | `RoomsInvariant` | the inductive invariant of `Rooms` |
| | `RoomListCurrent`, `RoomCallsHeard`, `RoomInfoCurrent` | `ListsAreCurrent`, `CallsAreHeard`, `InfoIsCurrent` |
| | `SpaceChildrenNamed`, `EventNotifiedOnce` | `ChildrenAreNamed`, `NotifiedOnce` |
| `DeviceVerificationProofs` | `FlowsInvariance` | the inductive invariant |
| | `FlowsTyped`, `NoTrustWithoutConsent` | `TypeOK`, `TrustNeedsConsent` |
| | `OneAnswerIsCompared` | `OneResponder`, if `OneAsked` |
| | `BothShowTheSame` | `SasAgreement`, if `OneAsked` and no start offers decimals alone |
| `CallProofs` | `CallInvariance` | the inductive invariant |
| | `CallTypeCorrect`, `PipelineNeverOutlivesCall`, `AcceptedInviteIsCurrent`, `SessionHasCall`, `DescriptionOfItsCall` | `TypeOK`, `PipelineIsCurrent`, `InviteIsCurrent`, `CallHasId`, `SdpOfCall` |
| | `NobodyIsLeftRinging` | `OtherSideTold` |
| `SyncLoopProofs` | `SyncInvariance` | the inductive invariant |
| | `SyncTypeCorrect`, `DuplicatesAreDropped` | `TypeOK`, `SavedIsPrefix` |
| | `LoopIsCarried`, `HandledOnce` | `LoopSurvives`, `ToDeviceOnce` |
| `RoomKeysProofs` | `KeysInvariance` | the inductive invariant |
| | `RatchetOnlyForward`, `ListedCanAsk` | `IndexUsedOnce`, `RequestsRecover` |
| | `OnlyListed`, `KeyIsFirst` | `OnlyListedRead`, `KeyFirst` |
| `TimelineProofs` | `TrustInvariance`, `VerdictInvariance` | the inductive invariants of `Decryption` |
| | `TrustOnlyFromSender`, `NoVerdictLeftOver`, `ReplayIsSeen` | `TrustIsOfSession`, `VerdictIsFresh`, `OneEventPerIndex` |
| | `WindowInvariant` | the inductive invariant of `TimelineWindow` |
| | `RowsWithoutGap` | `NoGapUndisturbed` |
| `UserKeysProofs` | `ListsInvariance` | the inductive invariant |
| | `UpToDateIsNew`, `StatusIsOfDisk` | `UpToDateIsCurrent`, `StatusIsCurrent` |
| `DeviceProofs` | `StartInvariance` | the inductive invariant |
| | `StampIsTrue` | `StampedIsMigrated` |
| | `SecretsBelong`, `LatestIsReadable`, `KeysInUseAreKept` | `SecretsFit`, `LatestReadable`, `KeysKept` |
| | `NothingIsLost` | `NothingLost` |

`NoLostWakeup`, `OneRowPerMessage`, `InviteIsCurrent`, `CallHasId` and `SdpOfCall`
are proved only: no run lists them, for the proof says more.

### 6.1 SendQueue

`IInv` adds two things to the properties.  `InTurn` is `NoOvertaking` extended to
requests on their way: the server accepts what is in `net`, so order has to hold
there first.  `Queued` says that a message is known only after it was queued, at
a millisecond that has come: a new message has the largest key so far, and
cannot overtake.  `OneInFlight` carries the rest: an answer that is handled finds
no other request and no timer, so that `SendFirst` starts from nothing
(`AnswerOutstanding`, `SendNextIInv`).  There is one lemma per action, and
`NextIInv` combines them.

`OutboxImplemented` is the refinement.  The outbox waits in an order, the database
has keys: `before` is mapped to the pairs of pending messages the first of which has
the smaller stamp, so that queueing a message adds exactly the pairs with it in
second place, and dropping one restricts the relation (`Keep`).  With two
messages in one millisecond there is no such order, hence the hypothesis.  Each
action is a step of the outbox or a stutter: the server accepting a request is
`Deliver`, an answer or a sync `Confirm`, an error past the limit `GiveUp`, a
limited sync `Reset`.  `Deliver` follows from `NoOvertaking` after the step.  The two others
need `OutboxInv`: an answer is only handled for a message the server has
(`SentIsThere`), and the message whose errors are counted is a first one of the queue
(`FirstOfQueue`), which holds because a later message gets a later key.

### 6.2 DeviceVerification

Flows do not meet, so the proof looks at one flow: `F` is what every device keeps
of it, `N` its messages on their way.  `Asked(F, N, a)` says of them that `a`
asked, and is the conjunction of what a reader of the handlers takes for granted:
the others talk to `a` alone (`Star`), who has sent a message has noted it
(`Lines`), nothing meant for one device is said before one is picked
(`Unpicked`), and who goes on is the one that was picked (`Picked`).

`NoTrustWithoutConsent` needs `Once` and `Confirmed`.  The MAC handler looks at no
state, and a MAC may come before the key, before the users compared, or from a
device that was not picked.  But a SAS is made once: the key that made it was the
last from that device (`Once`), so what an end has confirmed it still shows, and
what it showed the other showed too.  Trust, given in one step, must not lose
its grounds in a later one: `Keeps` says that a flow takes neither a MAC nor its partner back.
The two kinds of trust have grounds of their own.  `Marked` needs a MAC of both ends;
`Signed` only that of the other, for the handler signs before the user here has said
anything, so the theorem claims no more of it.

`BothShowTheSame` needs `Roles`: of two ends that both sent a start only the one
with the larger `Rank` has accepted the other's, and each end computes its SAS as the
one who accepted or the one who did not.  `Alone` is what `OneAsked` gives.  Without it the
property is false (section 5), as it is with decimals alone (section 4): a start
that lost the glare changes the notation of one end.

There is one lemma per handler about `F` (`StartKeeps`, `KeyTakenKeeps`, ...) and one that
brings an action into that form (`...Goes`).  A ready message is the one step
that touches every flow of a device (`FailedGoes`).

### 6.3 Call

`IInv` is `Current /\ InTime`.  `Current` holds whatever the order of signals.  Its
parts need each other: an invite becomes a pipeline when it is accepted, so the
pipeline is current only if the invite was; and ICE starts by an answer only for
a call placed here, which had its pipeline from the start (`PlacedHasPipeline`).
No queued signal disconnects the session (`Signals`), so a late one can only
leave a session up without a pipeline, never a pipeline without its call.
`InTime` is about signals handled in time: then the queue holds what one callback
posted about the pipeline that is still there, and `hangUp` stands last in it
(`QueueOfPipeline`).  `QuietInTime` treats once every step that posts nothing,
`PostIInv` every callback, and `Handle` has one lemma per kind of signal.

`NobodyIsLeftRinging` rests on both parts.  `ToldInv` says that a call of which a
description was sent has its pipeline until somebody hung up: the description is sent
while the pipeline is there, a pipeline is taken away by `hangUp`, which tells
the call it belongs to because the pipeline is current, or by a hang-up that came, and
a call is replaced only where the session is disconnected and so has no pipeline.

### 6.4 SyncLoop

An answer is appended where `since` is the token, and moves the token to `upto`.
For the result to be the log up to the token, an answer must go forward, and an
initial one start from nothing: so `IInv` says of every request and every queued
signal that it asks from a position the server has reached and carries an answer
that is not before it (`ForwardRequests`, `ForwardSignals`).  No number of
loops, retries, restarts or logins disturbs that, because each of them only asks
with a token that was stored.

`LoopIsCarried` needs to know when a loop may end: `LoopInv` says that the
client is up only with a user, that a `versions` request or a queued `lost` means
that the timer still probes, and that a token the server no longer takes is
followed by a logout.  Every step then either passes the loop on, by a request
or a signal that pushes it (`Carries`, `Pushes`), or leaves it to the probe.
`HandledOnce` needs `OnceInv`, where no write fails and nobody logs in anew: the positions up
to the token are those that were handled; nothing that was asked or answered is past
the token; and the server has purged no more than that, so an answer that is
taken starts where the handled ones end (`FromInv`).  The token alone would not
stop a second initial answer: `FirstInv` says that the first sync is one step at
a time, and that until it ends nothing else runs (`Alone`).

### 6.5 RoomKeys

`IndexUsedOnce` needs the distance between what was sent and what was saved:
while the message under way is about to be queued, the saved index is one past
its own and all earlier messages of the session are below it; before, they are
below the saved index, and a session that is not there yet is at 0
(`RatchetInv`).  `Reencrypt` saves before `Replace`, and so keeps that distance as
`Encrypt` and `Queue` do; an index it takes away is not used again.  The bound by the rotation period is about the messages
`encrypt_group_message` queued, for only that looks.  A crash falls back to what was saved, which is never less.
`RequestsRecover` needs that whoever is listed is noted or among the targets that
will be (`NotedInv`), which `NewIn` and `Create` establish, and that no device is noted
with an index past the ratchet.  For `Replace` it needs that whoever the last message was for is
noted in the session there is now, which fails only after a crash between `Prepare` and `Queue`.  Claims, queries, key requests and the world
change none of it (`ElsewhereKeeps`).

`OnlyListed` follows a key from the moment it is sent.  Unless its device is
verified, it is *entitled* to it: no message so far is opened by it that was not meant for the
device, and the device is noted in the session's list, or will be with the message under
way (`Entitled`).  Later messages then are meant for it too, because a
session is used on only while all that are noted are listed (`ListedInv`), and a
new session is given to nobody before.  `MeantInv` closes the gap for `messageSent`: outside
of `encrypt_group_message` all who are noted were listed for the message queued last.  A key that is forwarded from the noted index
is entitled for the same reason.  Two things keep it from going further: a device that is
noted is cached until it is gone, and a target without new devices has
them all noted already, so that `send_encrypted_to_device_messages` never asks the
server, which would name others.  That a verified device is one whose keys
are cached (`Trusted`) is needed here: for another one the whole user would be
queried, and every device of the user given the session.

`KeyIsFirst` is the converse.  `FirstInv` says that whoever is noted holds a key that
opens what comes next, except while it is about to be sent; a message is only prepared when no
claim is open, and then every device that was rate-limited has an olm channel
(`PromptSend`), so that all targets are sent the key.

### 6.6 Decryption

`olm::decryptEvent` reads the session and its data, decrypts, and writes the data
back; the network thread may have stored another session in between.  Were that
one trusted, old data could lend its trust to it, or the reverse.  `ReadTrust`
says this cannot be: while something is being read, trusted data on disk mean
that the session that was read came from its sender.  It holds because trust is only stored on the main
thread, which is the one that reads, and the network thread stores sessions
without trust (`LookupSavedKeeps`).

`NoVerdictLeftOver`: an event cached as undecryptable for want of a key is shown and
waits for one (`MissingWait`), so that the arrival of a key clears it; and what
was read before a better key was stored leaves a note that the events are
tried again (`ReadIsNoted`).  `ReplayIsSeen`: while there was no second
key, the stored session, the one being read and the one in the backup are the same and
the index list has every event that was opened (`FirstKeyInv`).

### 6.7 UserKeys

`updateUserKeys` compares tokens and never lists.  `FreshInv` says what a token
promises: a list on its way, requested for the present token, is as new as what
was announced with that token, and one requested for `last_changed` as new as that
change (`NewEnough`); the stored list likewise.  A sync takes the token forward
past every request there is, so it disturbs nothing, and a request that is not
served yet will be with the list of a later moment.  `SendOlm` keeps no such promise, for its answer is
stored under the token of the moment it comes; theorem and run leave that
scenario out.  `StatusInv`, for `StatusIsOfDisk`, adds that nobody is between
reading and caching a status unless threads may race, so that a write to disk
always finds the cache complete and clears it.

### 6.8 Device

`StampedIsMigrated` is about what one variable says of the others, across any
number of crashes.  `StartInv` generalises it to every version: `Done(i)` is what
migration `i` leaves behind, and holds for all migrations up to the stored
version and all that `runMigrations` has passed (`Reached`).  A fresh cache,
which has no token, satisfies all of them.  A secret that is made up on the way
keeps an old account readable, because caches older than the fifth migration
have accounts pickled with the fixed secret.  The steps of the other three parts
leave these variables alone, and the same holds for the theorems about each of them.
`NothingIsLost` is about single steps, while no start is killed and nothing fails, and about sessions
stored with their data; any subset of the sessions may be without.
`NothingBroken` says what the cache is at each stage: with a token it holds the published account, and
sessions are stored in the new way only once their migration is done, which would
otherwise replace them.

`SecretsBelong`.  A secret goes from setup to the store, the secret storage, the server
and the other devices, and back by messages, reads and answers on their way.
`OneGeneration` names every such place and says that what is there is of the one
generation, and the backup's of the one backup on the server.  The proof shows what
that takes: a setup that the end of the program cuts off and that is done again
leaves the version of the first one in use, so property and theorem except it (section 5).
What a revoked device says is only ever in messages of that device (`ForgedIsOfB`), which
`ReceiveSecret` refuses; it is never stored in any scenario.

`LatestIsReadable`.  The store is an order, and `LostAreOlder` says what the peer can no
longer read was stored before all it can: the peer loses its sessions all at once, a
session that decrypts was sent by a peer that has it, and storing a session moves it
to the end (`Saved`).  A rollback of the store only shortens it.  The peer must not lose its sessions
while its own messages are on their way: a pre-key message of a session that is
gone would be stored as the latest (`PeerReadsItsOwn`).  Messages out of order do no harm.

`KeysInUseAreKept`.  libolm drops keys by number, the server hands them out by id, and the client counts from an
old answer.  `AllKept` puts the three together: every key of the account is on the
server, used by a message on its way, or in the one upload (`InUseIsKept`), and every answer counts at least what is
still there (`CountsAreBounds`), so what `Generate` adds stays within twice the keys wanted,
and `Newest` drops none (`NothingIsDropped`).  A fallback key is replaced only when
the present one was used, and by then nobody needs the one before it.  Both
limits are in the property: `"hoard"` and `"behind"`.

### 6.9 Rooms

Every part of an answer of `/sync` says how the account differs from the answer before, and the
databases are changed by it.  So they are right only if they are right about `since`, the
snapshot they were brought to, and the server's side is right about what it has yet to tell:
`ServerInv` and `AnswerInv` say that a room whose membership differs from `since`
is in `moved` or in the answer under way.  A restart loses an answer, and its rooms are moved
again.

`ListsInv` is the list relative to `since`: a room in a list is one there, and a room there is in
the list unless it is under way.  The second half is what a callback disturbs: the queued
`removeRoom` and the callback of `joinRoomVia` take a room off a list before the sync that says so.
They may because their request changed the account, so that the room is under way or
was told already (`CallsInv`); and an invite whose room `since` has as joined would be
taken off by `saveState` in the same answer that brings it (`InviteInv`).
Those are the two scenarios the property excepts, `"late"` and `"reinvite"`.  `"late"` is also
where a room is removed under an answer that still has it, so that what `ServerInv` and `AnswerInv` say of
memberships and `InfoInv` of names is claimed without it only.
`RoomListCurrent` follows when nothing is under way.

`RoomCallsHeard` needs that a join is only accepted for an invite that is shown, and that an
invite that is shown has a timeline already, for the callback connects a timeline only if there
is one (`HeardInv`).  `SpaceChildrenNamed` needs a third clause beside the two of the
property: a room that is joined in the last answer, though a
callback has taken it off the list, is among the children if it counts, or comes with its whole
state (`NextFull`) and is looked at then.  Without it nothing would say so of a room that is put
on the list again by an answer without its parent event.  For `RoomInfoCurrent`, a room
that is joined anew comes with its whole state, which replaces what an earlier stay left behind,
and every other answer changes a database that agrees with `since` (`InfoInv`).  `EventNotifiedOnce` is an invariant of the queue of answers:
all that call the event unread stand before all that call it read, and the mark is only taken away by one of
the latter (`NotifyInv`).

### 6.10 TimelineWindow

The stored events of a room are one stretch of its log, from behind the token of the lowest
entry to the last sync: `Stored` says that `known` is exactly the events of that stretch that
get a number, `Rowed` that the rows are those of them that are shown.
`NoGapUndisturbed` follows at once.  A sync extends the stretch at its end, or starts a new one when it is
limited.  A page extends it at the front, if it is the page of the present token; what the
test on the network thread says of a page when it is queued must still hold when the slot stores it.
`PagesFit` says how: the first page of the queue is the one in front of the stretch, or its `end` is
the token already and the slot stores nothing; and behind a page that will be stored there
are only copies of it, which then fall under the second case.  That is
why equal requests do no harm, and why a limited sync in between (`"race"`) does.  `Quiet`
excludes it and `deleteOldMessages`, which cuts the stretch without telling the
window.

A page of nothing but hidden events moves the token, and so does one the user sees nothing of
(`SaveStores` has both cases).  The lemmas before the invariant are about the operators:
`FromOldest` and `FromNewest` number a finite set without repetition (`Ranks`, by the
pigeonhole principle), so `Behind` and `Before` hold the events they were
made of, and joining them leaves no number out (`Appended`, `Prepended`).

### 6.11 Left to TLC

Liveness (`QueueDrains`, `Completes`, `RingingEnds`, `CatchesUp`, `FetchEnds`,
`CallersAnswered`, `ChangesFetched`, `EnoughKeys`, `Heals`), for the prover does not handle
fairness with `ENABLED`; and facts by induction over data, which the installed
provers do not instantiate.  Of `TimelineWindow`, also the ranges in `TypeOK`: the numbers stay
between 1 and `UINT64_MAX` because the room has at most `MaxPos` events, which is a bound of the model.
Every invariant, step property and refinement that a passing run checks is proved.

## 7. Not modelled

Of the modelled components:

* event caches, hidden events and the read marker sent on `messageSent`;
  edits in the timeline; `clearTimeline`, which nothing calls;
* in-room verification flows (the same handlers behind a relation filter), the
  filters on initial sync and clock, which of a user's keys a signature is for.  A message authentication
  code that comes before any key makes the olm library throw; the model takes it
  for a mismatch;
* the GStreamer graph, TURN credentials and device choice;
* account data, tags, read receipts, presence and the invite's own state in `Rooms`;
* cross-signing keys in the cache and the trust they give;
* what a migration does to single records, the opening of LMDB;
* several peer devices at once in `OlmChannels`, and the checks of a plaintext,
  whose failures drop it;
* interleavings of the four parts of `Device`: they share the Olm account, of which
  `OneTimeKeys` keeps the keys and `Startup` the identity, and nothing else.

User-interactive authentication, presence, authentication, views, settings,
event helpers, devices, logging and platform start-up hold no state that outlives a
call, or forward what they are given; `PROJECT.json` has a reason for each.

## 8. Plan

The components are modelled and checked, and every safety property of a passing run is proved.
What would come next:

1. `Rooms` with late answers: what the lists are after a slot of an older leave, and which
   later answers put them right.
2. Cross-signing keys in the cache, which `UserKeys` and `Secrets` take as given.
3. Several peer devices in `OlmChannels`.
