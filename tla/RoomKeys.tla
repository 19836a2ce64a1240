------------------------------- MODULE RoomKeys -------------------------------
(***************************************************************************)
(* The outbound megolm session of one encrypted room: who is given its     *)
(* key, and when it is replaced (encrypt_group_message, src/src/encryption *)
(* /Olm.cpp, over the session databases of src/src/Cache.cpp).             *)
(*                                                                         *)
(* To send, the client compares the cached device lists of the members     *)
(* with the list it keeps of who was given the current session, replaces   *)
(* the session or shares it with who is new, encrypts, and saves session   *)
(* and list.  The key goes out in olm messages that are not waited for; a  *)
(* device it has no olm channel with costs a one-time key first.  A device *)
(* that lacks the key may ask for it.                                      *)
(*                                                                         *)
(* The session has a second user: a pending reply to a pending message is  *)
(* encrypted again when the server has named the latter (messageSent,      *)
(* src/src/timeline/EventStore.cpp), with the session as it is by then and *)
(* without a look at its age, its list or the members.                     *)
(*                                                                         *)
(* A megolm key is a pair of session and index, and opens the messages of  *)
(* the session from that index on.                                         *)
(***************************************************************************)
EXTENDS Naturals, Sequences, FiniteSets

CONSTANTS
  Users,        \* the users of the room
  Devices,      \* their devices
  Owner,        \* the user of a device
  Own,          \* this device
  Verified,     \* devices that are verified
  Period,       \* rotation_period_msgs
  MaxSessions,  \* bound: sessions created
  MaxSent,      \* bound: messages sent
  MaxChanges,   \* bound: members that join or leave and devices that come or go
  MaxFaults,    \* bound: crashes and lost to-device messages
  Scenarios     \* environment: what may happen in one behaviour

ASSUME RoomKeysOK ==
  /\ Owner \in [Devices -> Users]
  /\ Own \in Devices /\ "no keys" \notin Devices
  /\ Verified \subseteq Devices
  /\ {Period, MaxSessions} \subseteq Nat \ {0}
  /\ {MaxSent, MaxChanges, MaxFaults} \subseteq Nat
  /\ Scenarios \subseteq SUBSET {"crash", "lost", "slow", "race", "unknown", "verified", "ask", "reply"}

VARIABLES
  \* on disk
  outbound,  \* the session outboundMegolmSessionDb has for the room, or 0
  number,    \* the message_index of each session
  users,     \* currently.keys: the users a session was shared with,
  given,     \*   and the index each of their devices was noted with
  known,     \* the cached device list of each user, or NoKeys
  channels,  \* devices there is an olm session with
  \* in memory
  doing,     \* what encrypt_group_message, or messageSent, does next
  listed,    \* the members of getMembersWithKeys, with their devices
  targets,   \* sendSessionTo
  limited,   \* rateLimit: devices a one-time key was claimed of
  claims,    \* keys that wait for a one-time key, as <<device, session, index>>
  queries,   \* keys that wait for the device list, as <<user, session, index>>
  verifiedOnly, \* the user shares keys with verified users only
  \* the world
  members,   \* the members of the room
  life,      \* by the server, a device is not yet there, here or gone
  keys,      \* keys devices have received, as <<device, session, index>>
  sent,      \* messages handed to the send queue, with the devices listed for them
  aged,      \* the session is older than rotation_period_ms
  changes, faults,
  env        \* the scenario of this behaviour

disk   == <<outbound, number, users, given, known, channels>>
memory == <<doing, listed, targets, limited, claims, queries, verifiedOnly>>
world  == <<members, life, keys, sent, aged, changes, faults, env>>
vars   == <<disk, memory, world>>

------------------------------------------------------------------------------

NoKeys   == {"no keys"}
Sessions == 1 .. MaxSessions
Me       == Owner[Own]
May(event) == event \in env

\* The devices the server names for u
DevicesOf(u) == {d \in Devices : Owner[d] = u /\ life[d] = "here"}

\* The room's members with their devices as getMembersWithKeys returns them.
\* A member whose keys are not cached has no devices yet.
ListOf(u) ==
  IF known[u] = NoKeys THEN {} ELSE IF verifiedOnly THEN known[u] \cap Verified ELSE known[u]
MembersWithKeys ==
  [u \in {v \in members : verifiedOnly => ListOf(v) # {}} |-> ListOf(u)]

(* A definition marked "Variant" is the one after it with a mistake in it; *)
(* Next does not use it.  It shows which mistake a property would reveal.  *)

\* The devices of the members m that a session is meant for
Others(m) == (UNION {m[u] : u \in DOMAIN m}) \ {Own}

\* Variants: a removed device does not count; the limit is reached late.
FitsMembers(s, m) ==
  /\ number[s] < Period /\ ~aged
  /\ users[s] \subseteq DOMAIN m /\ m # <<>>

(***************************************************************************)
(* The comparison of the member list m with currently.keys: the session is *)
(* used on when no limit is crossed, nobody it was shared with has left    *)
(* and none of the devices it was shared with is gone.                     *)
(***************************************************************************)
Fits(s, m) ==
  /\ number[s] < Period /\ ~aged
  /\ users[s] \subseteq DOMAIN m /\ m # <<>>
  /\ DOMAIN given[s] \subseteq Others(m)

\* Variant: a new device of a member is not noticed.
NewMembersIn(s, m) ==
  [u \in DOMAIN m \ users[s] |-> m[u] \ {Own}]

\* sendSessionTo for a session that is used on: all devices of new members,
\* new devices of the others.
NewIn(s, m) ==
  LET fresh(u) == m[u] \ ({Own} \cup DOMAIN given[s])
  IN  [u \in {v \in DOMAIN m : v \notin users[s] \/ fresh(v) # {}} |-> fresh(u)]

------------------------------------------------------------------------------
\* encrypt_group_message

Use(m) ==
  /\ outbound # 0 /\ Fits(outbound, m)
  /\ targets' = NewIn(outbound, m)
  /\ UNCHANGED <<outbound, number, users, given, aged>>

\* The new session is saved, with everybody noted as having it from index 0,
\* before anybody is sent its key.
Create(m) ==
  /\ ~(outbound # 0 /\ Fits(outbound, m))
  /\ outbound < MaxSessions
  /\ outbound' = outbound + 1
  /\ targets' = [u \in DOMAIN m |-> m[u] \ {Own}]
  /\ users' = [users EXCEPT ![outbound'] = DOMAIN m]
  /\ given' = [given EXCEPT ![outbound'] = [d \in Others(m) |-> 0]]
  /\ aged' = FALSE
  /\ UNCHANGED number

Prepare ==
  /\ doing = "nothing" /\ Len(sent) < MaxSent
  /\ May("slow") \/ claims \cup queries = {}
  /\ listed' = MembersWithKeys
  /\ Use(listed') \/ Create(listed')
  /\ doing' = "share"
  /\ UNCHANGED <<known, channels, limited, claims, queries, verifiedOnly,
                 members, life, keys, sent, changes, faults, env>>

\* A to-device message is sent and its answer only logged.
Arrive(new) ==
  \/ keys' = keys \cup new /\ UNCHANGED faults
  \/ /\ May("lost") /\ faults < MaxFaults /\ new # {}
     /\ UNCHANGED keys /\ faults' = faults + 1

(***************************************************************************)
(* send_encrypted_to_device_messages with the key of session s from index  *)
(* i: a device with an olm channel is sent the key, for another one a      *)
(* one-time key is claimed unless one was claimed before; no devices at    *)
(* all means all the devices of the user.  The list of a user is queried   *)
(* if it is not there, or if it lacks one of the devices, when it may be   *)
(* that some others (early) had their turn.                                *)
(***************************************************************************)
SendEncrypted(to, s, i) ==
  LET Cached(u)  == IF known[u] = NoKeys THEN {} ELSE known[u]
      asked      == {u \in DOMAIN to : known[u] = NoKeys \/ ~(to[u] \subseteq known[u])}
      Reached(u) == IF to[u] = {} THEN Cached(u) ELSE to[u]
  IN  \E early \in SUBSET UNION {to[u] \cap Cached(u) : u \in asked} :
        LET reached == (early \cup UNION {Reached(u) : u \in DOMAIN to \ asked}) \ {Own}
            claimed == reached \ (channels \cup limited)
        IN  /\ Arrive({<<d, s, i>> : d \in reached \cap channels})
            /\ claims' = claims \cup {<<d, s, i>> : d \in claimed}
            /\ limited' = limited \cup claimed
            /\ queries' = queries \cup {<<u, s, i>> : u \in asked}

Share ==
  /\ doing = "share"
  /\ SendEncrypted(targets, outbound, number[outbound])
  /\ doing' = "encrypt"
  /\ UNCHANGED <<disk, listed, targets, verifiedOnly, members, life, sent, aged,
                 changes, env>>

\* Variant: a device is noted one index further.
NotedAfterNext(s) ==
  [d \in DOMAIN given[s] \cup UNION {targets[u] : u \in DOMAIN targets} |->
     IF d \in DOMAIN given[s] THEN given[s][d] ELSE number[s] + 2]

\* currently.keys with the devices the key was just sent to: they are noted
\* with the index after the message that is encrypted.
Noted(s) ==
  [d \in DOMAIN given[s] \cup UNION {targets[u] : u \in DOMAIN targets} |->
     IF d \in DOMAIN given[s] THEN given[s][d] ELSE number[s] + 1]

\* Variant: the session is saved only when the list of who has it changed.
EncryptSavesIfShared ==
  /\ doing = "encrypt"
  /\ number' = [number EXCEPT ![outbound] = IF targets = <<>> THEN @ ELSE @ + 1]
  /\ users' = [users EXCEPT ![outbound] = @ \cup DOMAIN targets]
  /\ given' = [given EXCEPT ![outbound] = Noted(outbound)]
  /\ doing' = "queue"
  /\ UNCHANGED <<outbound, known, channels, listed, targets, limited, claims, queries,
                 verifiedOnly, world>>

\* The message is encrypted and updateOutboundMegolmSession saves the session.
Encrypt ==
  /\ doing = "encrypt"
  /\ number' = [number EXCEPT ![outbound] = @ + 1]
  /\ users' = [users EXCEPT ![outbound] = @ \cup DOMAIN targets]
  /\ given' = [given EXCEPT ![outbound] = Noted(outbound)]
  /\ doing' = "queue"
  /\ UNCHANGED <<outbound, known, channels, listed, targets, limited, claims, queries,
                 verifiedOnly, world>>

\* What the message just encrypted becomes in the send queue
Entry(to, state) ==
  [session |-> outbound, index |-> number[outbound] - 1, to |-> to, state |-> state]

\* Timeline::sendEncryptedMessage hands the result to the send queue.  A reply to
\* a message that is pending itself waits for the id of that one.
Queue ==
  /\ doing = "queue"
  /\ \E state \in {"done"} \cup IF May("reply") /\ sent # <<>> THEN {"waits"} ELSE {} :
       sent' = Append(sent, Entry(Others(listed), state))
  /\ doing' = "nothing"
  /\ targets' = <<>> /\ listed' = <<>>
  /\ UNCHANGED <<disk, limited, claims, queries, verifiedOnly,
                 members, life, keys, aged, changes, faults, env>>

------------------------------------------------------------------------------
\* messageSent

\* Who was listed for the message queued last
LastTo == IF sent = <<>> THEN {} ELSE sent[Len(sent)].to

\* The server has named the message a pending reply waits for: the reply is
\* encrypted with the session the room has now, which is saved,
Reencrypt ==
  /\ doing = "nothing"
  /\ \E i \in DOMAIN sent : sent[i].state = "waits"
  /\ number' = [number EXCEPT ![outbound] = @ + 1]
  /\ doing' = "replace"
  /\ UNCHANGED <<outbound, users, given, known, channels, listed, targets, limited, claims,
                 queries, verifiedOnly, world>>

\* and then takes the place of the pending one.  It is for whoever that session
\* was last used for: those listed for the message queued last.
Replace(i) ==
  /\ doing = "replace"
  /\ sent[i].state = "waits"
  /\ sent' = [sent EXCEPT ![i] = Entry(LastTo, "again")]
  /\ doing' = "nothing"
  /\ UNCHANGED <<disk, listed, targets, limited, claims, queries, verifiedOnly,
                 members, life, keys, aged, changes, faults, env>>

------------------------------------------------------------------------------
\* The answers, on the network thread

\* Without an error every one-time key is good for an olm session; with one,
\* or without a one-time key, nothing is sent and nothing tried again.
Claimed(c) ==
  /\ c \in claims
  /\ claims' = claims \ {c}
  /\ \/ channels' = channels \cup {c[1]} /\ Arrive({c})
     \/ May("lost") /\ faults < MaxFaults /\ faults' = faults + 1 /\ UNCHANGED <<channels, keys>>
  /\ UNCHANGED <<outbound, number, users, given, known, doing, listed, targets, limited,
                 queries, verifiedOnly, members, life, sent, aged, changes, env>>

\* The server names the devices, the user's list is stored unless it changed
\* once more, and a one-time key is claimed of each, olm channel or not.
Queried(q) ==
  LET u     == q[1]
      named == DevicesOf(u) \ ({Own} \cup limited)
  IN  /\ q \in queries
      /\ queries' = queries \ {q}
      /\ \/ /\ \/ known' = [known EXCEPT ![u] = DevicesOf(u)]
               \/ known[u] # NoKeys /\ UNCHANGED known
            /\ claims' = claims \cup {<<d, q[2], q[3]>> : d \in named}
            /\ limited' = limited \cup named
            /\ UNCHANGED faults
         \/ /\ May("lost") /\ faults < MaxFaults
            /\ faults' = faults + 1
            /\ UNCHANGED <<known, claims, limited>>
      /\ UNCHANGED <<outbound, number, users, given, channels, doing, listed, targets,
                     verifiedOnly, members, life, keys, sent, aged, changes, env>>

------------------------------------------------------------------------------
\* Key requests

\* verificationStatus: a device is verified by the keys that are cached of it,
\* so one that was not listed yet is none of them.
Trusted(d) == d \in Verified /\ (known[Owner[d]] = NoKeys \/ d \in known[Owner[d]])

\* handle_key_request_message: a verified device is given the session from
\* the start, one that is noted from the index it is noted with.
KeyRequest(d, s) ==
  /\ May("ask") /\ doing = "nothing"
  /\ life[d] = "here" /\ d # Own /\ s <= outbound
  /\ Owner[d] \in members
  /\ Trusted(d) \/ d \in DOMAIN given[s]
  /\ ~\E k \in keys : k[1] = d /\ k[2] = s
  /\ SendEncrypted([u \in {Owner[d]} |-> {d}], s, IF Trusted(d) THEN 0 ELSE given[s][d])
  /\ UNCHANGED <<disk, doing, listed, targets, verifiedOnly, members, life, sent, aged,
                 changes, env>>

------------------------------------------------------------------------------
\* The world

Change == changes < MaxChanges /\ changes' = changes + 1 /\ doing = "nothing"

\* A user whose devices are not known can be a member only where the
\* scenario says so.
Join(u) ==
  /\ Change
  /\ u \notin members
  /\ May("unknown") \/ known[u] # NoKeys
  /\ members' = members \cup {u}
  /\ UNCHANGED <<disk, memory, life, keys, sent, aged, faults, env>>

Leave(u) ==
  /\ Change
  /\ u \in members \ {Me}
  /\ members' = members \ {u}
  /\ UNCHANGED <<disk, memory, life, keys, sent, aged, faults, env>>

\* A device id is used once.
Login(d) ==
  /\ Change
  /\ life[d] = "not yet"
  /\ life' = [life EXCEPT ![d] = "here"]
  /\ UNCHANGED <<disk, memory, members, keys, sent, aged, faults, env>>

Logout(d) ==
  /\ Change
  /\ life[d] = "here" /\ d # Own
  /\ life' = [life EXCEPT ![d] = "gone"]
  /\ UNCHANGED <<disk, memory, members, keys, sent, aged, faults, env>>

\* A device list is stored, by the main thread between two messages or by the
\* network thread at any time.
ListStored(u) ==
  /\ doing = "nothing" \/ May("race")
  /\ known[u] \notin {NoKeys, DevicesOf(u)}
  /\ known' = [known EXCEPT ![u] = DevicesOf(u)]
  /\ UNCHANGED <<outbound, number, users, given, channels, memory, world>>

Age ==
  /\ ~aged /\ outbound # 0 /\ doing = "nothing"
  /\ aged' = TRUE
  /\ UNCHANGED <<disk, memory, members, life, keys, sent, changes, faults, env>>

Toggle ==
  /\ May("verified") /\ Change
  /\ verifiedOnly' = ~verifiedOnly
  /\ UNCHANGED <<disk, doing, listed, targets, limited, claims, queries,
                 members, life, keys, sent, aged, faults, env>>

\* The program ends between two steps; requests that were sent may still be
\* served, their answers are lost.
Crash ==
  /\ May("crash") /\ faults < MaxFaults
  /\ faults' = faults + 1
  /\ doing' = "nothing" /\ listed' = <<>> /\ targets' = <<>>
  /\ limited' = {} /\ claims' = {} /\ queries' = {}
  /\ UNCHANGED <<disk, verifiedOnly, members, life, keys, sent, aged, changes, env>>

------------------------------------------------------------------------------

\* A room of this device's user and any others; a new user's device list may
\* be unknown only in the scenario that says so.
Init ==
  /\ env \in Scenarios
  /\ outbound = 0
  /\ number = [s \in Sessions |-> 0]
  /\ users = [s \in Sessions |-> {}]
  /\ given = [s \in Sessions |-> <<>>]
  /\ life \in [Devices -> {"not yet", "here"}] /\ life[Own] = "here"
  /\ Cardinality({d \in Devices : life[d] = "not yet"}) <= 1
  /\ members \in {M \in SUBSET Users : Me \in M}
  /\ known \in [Users -> (SUBSET Devices) \cup {NoKeys}]
  /\ \A u \in Users : \/ known[u] = DevicesOf(u)
                      \/ known[u] = NoKeys /\ May("unknown") /\ u # Me
  /\ channels \in {{}, {d \in Devices : life[d] = "here"} \ {Own}}
  /\ doing = "nothing"
  /\ listed = <<>> /\ targets = <<>>
  /\ limited = {} /\ claims = {} /\ queries = {}
  /\ verifiedOnly = FALSE
  /\ keys = {} /\ sent = <<>> /\ aged = FALSE
  /\ changes = 0 /\ faults = 0

Send    == Prepare \/ Share \/ Encrypt \/ Queue
MessageSent == Reencrypt \/ \E i \in DOMAIN sent : Replace(i)
Answers == (\E c \in claims : Claimed(c)) \/ (\E q \in queries : Queried(q))
Asks    == \E d \in Devices, s \in Sessions : KeyRequest(d, s)
World   == \/ \E u \in Users : Join(u) \/ Leave(u) \/ ListStored(u)
           \/ \E d \in Devices : Login(d) \/ Logout(d)
           \/ Age \/ Toggle

Next == Send \/ MessageSent \/ Answers \/ Asks \/ World \/ Crash

Spec == Init /\ [][Next]_vars

------------------------------------------------------------------------------
\* Properties

Listing == UNION {[U -> SUBSET Devices] : U \in SUBSET Users}

\* Every variable stays in its range.
TypeOK ==
  /\ outbound \in 0 .. MaxSessions
  /\ number \in [Sessions -> Nat]
  /\ users \in [Sessions -> SUBSET Users]
  /\ \A s \in Sessions : given[s] \in [DOMAIN given[s] -> Nat]
                        /\ DOMAIN given[s] \subseteq Devices \ {Own}
  /\ known \in [Users -> (SUBSET Devices) \cup {NoKeys}]
  /\ channels \subseteq Devices /\ limited \subseteq Devices
  /\ doing \in {"nothing", "share", "encrypt", "queue", "replace"}
  /\ listed \in Listing /\ targets \in Listing
  /\ claims \cup keys \subseteq Devices \X Sessions \X Nat
  /\ queries \subseteq Users \X Sessions \X Nat
  /\ verifiedOnly \in BOOLEAN /\ aged \in BOOLEAN
  /\ Me \in members /\ members \subseteq Users
  /\ life \in [Devices -> {"not yet", "here", "gone"}]
  /\ \A i \in DOMAIN sent : /\ sent[i].session \in Sessions
                           /\ sent[i].index \in Nat
                           /\ sent[i].to \subseteq Devices
                           /\ sent[i].state \in {"done", "waits", "again"}

Messages == {sent[i] : i \in DOMAIN sent}
Opens(k, m) == k[2] = m.session /\ k[3] <= m.index

Again(m) == m.state = "again"

(***************************************************************************)
(* Two messages never leave with the same session and index, whichever of  *)
(* encrypt_group_message and messageSent encrypted them: the session is    *)
(* saved before its message is handed on or replaced, so not even a crash  *)
(* between the two turns the ratchet back.  What encrypt_group_message     *)
(* encrypts has an index below rotation_period_msgs; messageSent does not  *)
(* look, so that a message encrypted again may have one from there on.     *)
(***************************************************************************)
IndexUsedOnce ==
  /\ \A m \in Messages : Again(m) \/ m.index < Period
  /\ \A i, j \in DOMAIN sent :
       i # j => sent[i].session # sent[j].session \/ sent[i].index # sent[j].index

(***************************************************************************)
(* encrypt_group_message rotates for a member who left and a device that   *)
(* was removed, and shares with a new one from the current index on: an    *)
(* unverified device never has a key, sent or forwarded, that opens a      *)
(* message it was not listed for.  A message that messageSent encrypts     *)
(* again is open to those listed for the message queued last, as its       *)
(* comment says, and to nobody else.  Excepted are members without devices *)
(* and lists that change while the key is sent, for the key then goes to   *)
(* whatever devices the server names, and a crash after the key was sent   *)
(* and before it is noted who has it.                                      *)
(***************************************************************************)
OnlyListedRead ==
  env \cap {"crash", "unknown", "verified", "race"} = {} =>
    \A k \in keys \cup claims, m \in Messages :
      Opens(k, m) => k[1] \in m.to \cup Verified

(***************************************************************************)
(* Every device a message is meant for has its key or an olm channel being *)
(* set up to carry it, as long as nothing is lost and the answers to the   *)
(* one-time key claims are there before the next message is encrypted: a   *)
(* claim is made once in ten hours, and the device is noted regardless.    *)
(* messageSent shares nothing; a message it encrypts again can be read by  *)
(* those listed for the message queued last, which are not always those    *)
(* the reply was first listed for.                                         *)
(***************************************************************************)
KeyFirst ==
  env \cap {"crash", "lost", "slow", "race"} = {} =>
    \A m \in Messages : \A d \in m.to :
      life[d] = "here" => \E k \in keys \cup claims : k[1] = d /\ Opens(k, m)

(***************************************************************************)
(* Whatever is lost, a device can ask for the key of all the messages it   *)
(* was listed for but one: it is noted, and with an index at most one past *)
(* the first of them.  A message encrypted again is one of the devices'    *)
(* listed for the message queued last, unless the program ended when a new *)
(* session had been saved and no message was queued with it.               *)
(***************************************************************************)
RequestsRecover ==
  \A m \in Messages : ~(Again(m) /\ May("crash")) =>
    \A d \in m.to : d \in DOMAIN given[m.session] /\ given[m.session][d] <= m.index + 1
==============================================================================
