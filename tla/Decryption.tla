------------------------------ MODULE Decryption ------------------------------
(***************************************************************************)
(* The receiving side of one megolm session in one room: how its key gets  *)
(* into the cache, and how events that could not be decrypted are, once it *)
(* is there (src/src/encryption/Olm.cpp, Cache.cpp, timeline/EventStore.cpp). *)
(*                                                                         *)
(* Keys come from the sender, forwarded by another device, from the online *)
(* backup or from a download of the whole backup.  A key opens the events  *)
(* from its first index on; a better one replaces it.  EventStore keeps    *)
(* every verdict, a failure too; an event that lacks its key is remembered *)
(* with the request for it, and only for those is the verdict dropped when *)
(* receivedSessionKey reports a key.  Backup lookups are answered on the   *)
(* network thread, everything else happens on the main thread.             *)
(***************************************************************************)
EXTENDS Integers, FiniteSets

CONSTANTS
  Events,      \* encrypted events of the room
  At,          \* the message index an event is encrypted with
  NoEvent,     \* no event
  MaxIndex,    \* the last message index
  MaxKeys,     \* bound: keys that come, from anybody
  MaxUses,     \* bound: restarts, limited syncs and pages
  Scenarios    \* environment: what may happen in one behaviour

ASSUME DecryptionOK ==
  /\ {MaxIndex, MaxKeys, MaxUses} \subseteq Nat
  /\ At \in [Events -> 0 .. MaxIndex]
  /\ NoEvent \notin Events
  /\ Scenarios \subseteq SUBSET {"forward", "backup", "race", "download", "eager", "preview",
                                 "late", "limited", "restart"}

VARIABLES
  \* on disk
  stored,      \* inboundMegolmSessionDb and megolmSessionsDataDb for the session
  rows,        \* events with an index in the timeline
  \* EventStore
  cached,      \* decryptedEvents_: the verdict on an event
  pending,     \* pending_key_requests: events that wait for the key
  asked,       \*   the session has an entry there,
  recent,      \*   requested less than ten minutes ago
  suppressed,  \* suppressKeyRequests
  hears,       \* the timeline was created before the first sync was over
  \* main thread
  reading,     \* decryptEvent between its two reads, or Idle
  notes,       \* queued calls of receivedSessionKey
  imports,     \* first indexes of downloads queued to importSessionKeys
  \* network thread
  lookups,     \* requests for the backed-up key
  found,       \* the first index of an answer that is about to be saved
  \* the server
  backup,      \* the first index of the key the backup has
  keys, uses,
  env,         \* what may happen in this behaviour
  \* history
  source,      \* who sent the stored session: the sender or somebody else
  opened       \* events that were ever decrypted

disk  == <<stored, rows, source>>
store == <<cached, pending, asked, recent, suppressed, hears>>
main  == <<reading, notes, imports>>
net   == <<lookups, found, backup>>
world == <<keys, uses, env>>
vars  == <<disk, store, main, net, world, opened>>

------------------------------------------------------------------------------

Indices == 0 .. MaxIndex
NoKey   == MaxIndex + 1   \* the first index of a session that is not there
Idle    == [event |-> NoEvent, first |-> NoKey, source |-> "nobody"]
May(what) == what \in env
Smaller(a, b) == IF a < b THEN a ELSE b

\* A session with its GroupSessionData.
Session(first, trusted) ==
  [first |-> first, trusted |-> trusted, indices |-> [i \in Indices |-> NoEvent]]

(* A definition marked "Variant" is the one after it with a mistake in it;  *)
(* Next does not use it.  It shows which mistake a property would reveal.   *)

\* saveInboundMegolmSession: a session that begins later is not stored.
SaveInbound(session, from) ==
  IF session.first > stored.first
    THEN UNCHANGED <<stored, source>>
    ELSE stored' = session /\ source' = from

\* receivedSessionKey: events that wait and have an index are decrypted again
\* when they are read next; none waits any more.
Received(waiting) ==
  /\ pending' = {}
  /\ cached' = [e \in Events |-> IF e \in waiting \cap rows THEN "no" ELSE cached[e]]

------------------------------------------------------------------------------
\* Decrypting

\* Variant: an event is noted with the first request for its key only.
NotedOnce(e) == pending' = IF asked THEN pending ELSE {e}

\* The request's list of events.
Noted(e) == pending' = pending \cup {e}

\* requestSession: the key is looked up and asked for at most once in ten
\* minutes, the event is noted in any case.
RequestSession(e) ==
  IF suppressed
    THEN UNCHANGED <<pending, asked, recent, lookups>>
    ELSE /\ Noted(e)
         /\ asked' = TRUE /\ recent' = TRUE
         /\ lookups' = IF May("backup") /\ (~asked \/ ~recent) THEN lookups + 1 ELSE lookups

Verdict(e, first, data) ==
  IF first > At[e] THEN "missing"
  ELSE IF data.indices[At[e]] \notin {NoEvent, e} THEN "replay"
  ELSE "ok"

\* Variant: the index is not written.
RecordNothing(first, from, data, e) == UNCHANGED <<stored, source>>

\* The index of an event that is decrypted is saved, with the session that
\* was read before the data.
Record(first, from, data, e) ==
  IF data.indices[At[e]] = NoEvent
    THEN SaveInbound([data EXCEPT !.first = first, !.indices[At[e]] = e], from)
    ELSE UNCHANGED <<stored, source>>

\* decryptEvent of EventStore and of olm, from the second read on, and what
\* EventStore makes of the result.
Finish(e, first, from) ==
  LET verdict == Verdict(e, first, stored)
  IN  /\ cached' = [cached EXCEPT ![e] = verdict]
      /\ IF verdict = "missing"
           THEN RequestSession(e)
           ELSE UNCHANGED <<pending, asked, recent, lookups>>
      /\ IF verdict = "ok"
           THEN Record(first, from, stored, e) /\ opened' = opened \cup {e}
           ELSE UNCHANGED <<stored, source, opened>>
      /\ UNCHANGED <<suppressed, hears, notes, imports, found, backup, world>>

Decrypt(e) == cached[e] = "no" /\ Finish(e, stored.first, source) /\ reading' = Idle

\* handleSync: a new event is decrypted.
Sync(e) ==
  /\ reading = Idle /\ e \notin rows
  /\ rows' = rows \cup {e}
  /\ Decrypt(e)

\* A view reads an event that has a row, or as the target of a reply one that
\* has none.
Read(e) ==
  /\ reading = Idle
  /\ e \in rows \/ May("preview")
  /\ Decrypt(e)
  /\ UNCHANGED rows

\* The same with the network thread between the two reads.
ReadSession(e) ==
  /\ May("race") /\ reading = Idle /\ (lookups > 0 \/ found # NoKey)
  /\ e \in rows /\ cached[e] = "no" /\ stored.first # NoKey
  /\ reading' = [event |-> e, first |-> stored.first, source |-> source]
  /\ UNCHANGED <<disk, store, notes, imports, net, world, opened>>

ReadData ==
  /\ reading # Idle
  /\ Finish(reading.event, reading.first, reading.source)
  /\ reading' = Idle
  /\ UNCHANGED rows

------------------------------------------------------------------------------
\* Keys

KeyComes == reading = Idle /\ keys < MaxKeys /\ keys' = keys + 1

\* backup_session_key: the server keeps the better key.
BackUp(first) == backup' = IF May("backup") THEN Smaller(first, backup) ELSE backup

\* create_inbound_megolm_session: the sender shares its session.
RoomKey(first) ==
  /\ KeyComes
  /\ SaveInbound(Session(first, TRUE), "sender")
  /\ BackUp(first)
  /\ Received(pending)
  /\ UNCHANGED <<rows, asked, recent, suppressed, hears, main, lookups, found, uses, env, opened>>

\* Variant: a key that passed one device is trusted.
TrustedForward(from) == TRUE

\* A forwarded key is trusted when the sender is who forwards it.
Trusted(from) == from = "sender"

\* import_inbound_megolm_session
ForwardedKey(first, from) ==
  /\ May("forward") /\ KeyComes
  /\ SaveInbound(Session(first, Trusted(from)), from)
  /\ BackUp(first)
  /\ Received(pending)
  /\ UNCHANGED <<rows, asked, recent, suppressed, hears, main, lookups, found, uses, env, opened>>

\* Another device of the user backs up its key.
OtherBackUp(first) ==
  /\ May("backup") \/ May("download")
  /\ first < backup
  /\ keys < MaxKeys /\ keys' = keys + 1
  /\ backup' = first
  /\ UNCHANGED <<disk, store, main, lookups, found, uses, env, opened>>

\* lookup_keybackup's callback: the answer counts if it begins earlier,
LookupAnswered ==
  /\ lookups > 0 /\ found = NoKey
  /\ lookups' = lookups - 1
  /\ found' = IF backup < stored.first THEN backup ELSE NoKey
  /\ UNCHANGED <<disk, store, main, backup, world, opened>>

\* and is saved, untrusted, in a transaction of its own.
LookupSaved ==
  /\ found # NoKey
  /\ SaveInbound(Session(found, FALSE), "other")
  /\ found' = NoKey
  /\ notes' = notes + 1
  /\ UNCHANGED <<rows, store, reading, imports, lookups, backup, world, opened>>

Notified ==
  /\ reading = Idle /\ notes > 0
  /\ notes' = notes - 1
  /\ Received(pending)
  /\ UNCHANGED <<disk, asked, recent, suppressed, hears, reading, imports, net, world, opened>>

\* download_full_keybackup, up to the timer that calls importSessionKeys.
Download ==
  /\ May("download") /\ backup # NoKey
  /\ keys < MaxKeys /\ keys' = keys + 1
  /\ imports' = imports \cup {backup}
  /\ UNCHANGED <<disk, store, reading, notes, net, uses, env, opened>>

(***************************************************************************)
(* importSessionKeys reports a key before its transaction is committed: a  *)
(* view that reads at once finds the session as it was, and the events     *)
(* wait again.                                                             *)
(***************************************************************************)
ImportSessionKeys(first) ==
  /\ reading = Idle /\ first \in imports
  /\ imports' = imports \ {first}
  /\ IF first >= stored.first
       THEN UNCHANGED <<stored, source, cached, pending>>
       ELSE /\ stored' = Session(first, FALSE) /\ source' = "other"
            /\ IF May("eager") THEN pending' = pending \cap rows /\ UNCHANGED cached
                               ELSE Received(pending)
  /\ UNCHANGED <<rows, asked, recent, suppressed, hears, reading, notes, net, world, opened>>

------------------------------------------------------------------------------
\* The rest of the program

\* enableKeyRequests(FALSE), at the first sync after the timeline is there.
FirstSyncOver ==
  /\ reading = Idle /\ hears /\ suppressed
  /\ suppressed' = FALSE
  /\ cached' = [e \in Events |-> "no"]
  /\ UNCHANGED <<disk, pending, asked, recent, hears, main, net, world, opened>>

TenMinutes ==
  /\ recent
  /\ recent' = FALSE
  /\ UNCHANGED <<disk, cached, pending, asked, suppressed, hears, main, net, world, opened>>

Use == reading = Idle /\ uses < MaxUses /\ uses' = uses + 1

\* A limited sync drops the rows and all verdicts.
SyncLimited ==
  /\ May("limited") /\ Use
  /\ rows' = {}
  /\ cached' = [e \in Events |-> "no"]
  /\ UNCHANGED <<stored, source, pending, asked, recent, suppressed, hears, main, net, keys, env,
                 opened>>

\* An older event gets a row, and is not decrypted yet.
Page(e) ==
  /\ May("limited") \/ May("preview")
  /\ Use
  /\ e \notin rows
  /\ rows' = rows \cup {e}
  /\ UNCHANGED <<stored, source, store, main, net, keys, env, opened>>

\* The timelines are created from the databases, before the first sync.
Restart ==
  /\ May("restart") /\ Use
  /\ cached' = [e \in Events |-> "no"]
  /\ pending' = {} /\ asked' = FALSE /\ recent' = FALSE
  /\ suppressed' = TRUE /\ hears' = TRUE
  /\ notes' = 0 /\ imports' = {} /\ lookups' = 0 /\ found' = NoKey
  /\ UNCHANGED <<disk, reading, backup, keys, env, opened>>

\* A timeline without events, created before the first sync is over or,
\* after a login or for a new room, late.
Init ==
  /\ env \in Scenarios
  /\ stored = Session(NoKey, FALSE) /\ source = "nobody"
  /\ rows = {}
  /\ cached = [e \in Events |-> "no"]
  /\ pending = {} /\ asked = FALSE /\ recent = FALSE
  /\ suppressed = TRUE /\ hears = ~May("late")
  /\ reading = Idle /\ notes = 0 /\ imports = {}
  /\ lookups = 0 /\ found = NoKey /\ backup = NoKey
  /\ keys = 0 /\ uses = 0
  /\ opened = {}

Keys == \/ \E first \in Indices : \/ RoomKey(first) \/ OtherBackUp(first)
                                  \/ ImportSessionKeys(first)
                                  \/ \E from \in {"sender", "other"} : ForwardedKey(first, from)
        \/ LookupAnswered \/ LookupSaved \/ Notified \/ Download

Views == \E e \in Events : Sync(e) \/ Read(e) \/ ReadSession(e) \/ Page(e)

Next == \/ Keys \/ Views \/ ReadData
        \/ FirstSyncOver \/ TenMinutes \/ SyncLimited \/ Restart

Spec == Init /\ [][Next]_vars

------------------------------------------------------------------------------
\* Properties

Readable(e) == stored.first <= At[e]

(***************************************************************************)
(* receivedSessionKey drops the verdict of the events that wait: when a    *)
(* key is there that opens an event, its "missing" does not stay, or the   *)
(* report of the key is queued.  It does stay as long as requests are      *)
(* suppressed, for an event that has no row, and for a view that reads     *)
(* while the key is being imported.                                        *)
(***************************************************************************)
VerdictIsFresh ==
  \A e \in Events :
    cached[e] = "missing" /\ Readable(e)
      => \/ notes > 0
         \/ suppressed \/ May("preview") \/ {"download", "eager"} \subseteq env

(***************************************************************************)
(* GroupSessionData::indices, "to check for replay attacks": of two events *)
(* with the same index one is decrypted at most, also across restarts.  A  *)
(* key that is stored again comes with an empty list, so this holds for    *)
(* the first key only.                                                     *)
(***************************************************************************)
OneEventPerIndex ==
  keys <= 1 => \A e, f \in opened : At[e] = At[f] => e = f

(***************************************************************************)
(* The trust stored beside a session belongs to that session: one that did *)
(* not come from its sender is never trusted, though session and data are  *)
(* read and written on two threads.                                        *)
(***************************************************************************)
TrustIsOfSession == stored.trusted => source = "sender"

==============================================================================
