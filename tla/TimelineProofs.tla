--------------------------- MODULE TimelineProofs ---------------------------
(***************************************************************************)
(* The events of a room, for any events, kinds and page sizes: the session *)
(* that decrypts them (Decryption), whose trust olm::decryptEvent writes   *)
(* back while the network thread may store another one in between, but     *)
(* only an untrusted one; and the window of rows that shows them           *)
(* (TimelineWindow), which grows at both ends.                             *)
(***************************************************************************)
EXTENDS Decryption, TimelineWindow, FiniteSetTheorems, SequenceTheorems, TLAPS

------------------------------------------------------------------------------
\* The session

Sources == {"nobody", "sender", "other"}
Stored  == [first : Int, trusted : BOOLEAN, indices : [Indices -> Events \cup {NoEvent}]]
Reading == [event : Events, first : Int, source : Sources]

\* The types of the session and of what is read of it.
SessionTypeOK ==
  /\ stored \in Stored /\ source \in Sources
  /\ reading = Idle \/ reading \in Reading
  /\ found \in Int /\ backup \in Int /\ imports \subseteq Int

\* A session read before another one was stored has no trust to give it.
ReadTrust == reading # Idle /\ stored.trusted => reading.source = "sender"

IInv == SessionTypeOK /\ TrustIsOfSession /\ ReadTrust

------------------------------------------------------------------------------

LEMMA IndexTypes == MaxIndex \in Nat /\ Indices \subseteq Int /\ NoKey \in Int
BY DecryptionOK DEF Indices, NoKey

\* A session with new data is one that can be stored.
LEMMA SessionIsStored ==
  ASSUME NEW start \in Int, NEW trusted \in BOOLEAN
  PROVE  Session(start, trusted) \in Stored /\ Session(start, trusted).trusted = trusted
BY DEF Session, Stored

LEMMA InitIInv == Init => IInv
<1> SUFFICES ASSUME Init PROVE IInv
  OBVIOUS
<1>1. stored = Session(NoKey, FALSE) /\ source = "nobody" /\ reading = Idle /\ found = NoKey
      /\ backup = NoKey /\ imports = {}
  BY DEF Init
<1>2. stored \in Stored /\ stored.trusted = FALSE
  BY <1>1, IndexTypes, SessionIsStored
<1>3. QED
  BY <1>1, <1>2, IndexTypes DEF IInv, SessionTypeOK, TrustIsOfSession, ReadTrust, Sources

\* A session is stored while nothing is read: its own trust is what counts.
LEMMA SaveIdle ==
  ASSUME IInv, NEW session \in Stored, NEW from \in Sources, session.trusted => from = "sender",
         SaveInbound(session, from)
  PROVE  /\ stored' \in Stored /\ source' \in Sources /\ (stored'.trusted => source' = "sender")
         /\ (stored' = stored \/ stored'.trusted = session.trusted)
BY DEF IInv, SessionTypeOK, TrustIsOfSession, SaveInbound

\* What is written back has the trust of the data and the source of the session.
LEMMA RecordKeeps ==
  ASSUME IInv, NEW e \in Events, NEW start \in Int, NEW from \in Sources,
         stored.trusted => from = "sender", Record(start, from, stored, e)
  PROVE  stored' \in Stored /\ source' \in Sources /\ (stored'.trusted => source' = "sender")
<1> DEFINE session == [stored EXCEPT !.first = start, !.indices[At[e]] = e]
<1>1. stored \in Stored
  BY DEF IInv, SessionTypeOK
<1>2. session \in Stored /\ session.trusted = stored.trusted
  BY <1>1 DEF Stored
<1>3. CASE UNCHANGED <<stored, source>>
  BY <1>3 DEF IInv, SessionTypeOK, TrustIsOfSession
<1>4. CASE SaveInbound(session, from)
  <2> HIDE DEF session
  <2> QED
    BY <1>2, <1>4, SaveIdle
<1>5. QED
  BY <1>3, <1>4 DEF Record

LEMMA FinishKeeps ==
  ASSUME IInv, NEW e \in Events, NEW start \in Int, NEW from \in Sources,
         stored.trusted => from = "sender", Finish(e, start, from), reading' = Idle
  PROVE  IInv'
<1>1. UNCHANGED <<imports, found, backup>>
  BY DEF Finish
<1>2. Record(start, from, stored, e) \/ UNCHANGED <<stored, source>>
  BY DEF Finish
<1>3. stored' \in Stored /\ source' \in Sources /\ (stored'.trusted => source' = "sender")
  BY <1>2, RecordKeeps DEF IInv, SessionTypeOK, TrustIsOfSession
<1>4. QED
  BY <1>1, <1>3 DEF IInv, SessionTypeOK, TrustIsOfSession, ReadTrust, Idle

\* A view that reads without a break uses the source of the session it reads.
LEMMA DecryptKeeps == ASSUME IInv, NEW e \in Events, Decrypt(e) PROVE IInv'
<1>1. Finish(e, stored.first, source) /\ reading' = Idle
  BY DEF Decrypt
<1>2. stored.first \in Int /\ source \in Sources /\ (stored.trusted => source = "sender")
  BY DEF IInv, SessionTypeOK, Stored, TrustIsOfSession
<1>3. QED
  BY <1>1, <1>2, FinishKeeps

LEMMA ReadDataKeeps == ASSUME IInv, ReadData PROVE IInv'
<1>1. reading # Idle /\ Finish(reading.event, reading.first, reading.source) /\ reading' = Idle
  BY DEF ReadData
<1>2. reading \in Reading
  BY <1>1 DEF IInv, SessionTypeOK
<1>3. reading.event \in Events /\ reading.first \in Int /\ reading.source \in Sources
      /\ (stored.trusted => reading.source = "sender")
  BY <1>1, <1>2 DEF Reading, IInv, ReadTrust
<1>4. QED
  BY <1>1, <1>3, FinishKeeps

LEMMA ReadSessionKeeps == ASSUME IInv, NEW e \in Events, ReadSession(e) PROVE IInv'
<1>1. reading' = [event |-> e, first |-> stored.first, source |-> source]
      /\ UNCHANGED <<stored, source, imports, found, backup>>
  BY DEF ReadSession, disk, net
<1>2. reading' \in Reading /\ reading'.source = source
  BY <1>1 DEF IInv, SessionTypeOK, Stored, Reading
<1>3. QED
  BY <1>1, <1>2 DEF IInv, SessionTypeOK, TrustIsOfSession, ReadTrust, Idle

\* Keys that come on the main thread, while nothing is read.
LEMMA KeyKeeps ==
  ASSUME IInv, NEW start \in Int, NEW from \in Sources, NEW trusted \in BOOLEAN,
         trusted => from = "sender", SaveInbound(Session(start, trusted), from),
         reading = Idle, BackUp(start), UNCHANGED <<reading, imports, found>>
  PROVE  IInv'
<1>1. stored' \in Stored /\ source' \in Sources /\ (stored'.trusted => source' = "sender")
  BY SessionIsStored, SaveIdle
<1>2. backup' \in Int
  BY DEF BackUp, Smaller, IInv, SessionTypeOK
<1>3. QED
  BY <1>1, <1>2 DEF IInv, SessionTypeOK, TrustIsOfSession, ReadTrust, Idle

\* The network thread stores an untrusted session, whatever is being read.
LEMMA LookupSavedKeeps == ASSUME IInv, LookupSaved PROVE IInv'
<1>1. SaveInbound(Session(found, FALSE), "other") /\ found' = NoKey
      /\ UNCHANGED <<reading, imports, backup>>
  BY DEF LookupSaved
<1>2. Session(found, FALSE) \in Stored /\ Session(found, FALSE).trusted = FALSE
  BY SessionIsStored DEF IInv, SessionTypeOK
<1>3. stored' \in Stored /\ source' \in Sources /\ (stored'.trusted => source' = "sender")
      /\ (stored' = stored \/ stored'.trusted = FALSE)
  BY <1>1, <1>2, SaveIdle DEF Sources
<1>4. QED
  BY <1>1, <1>3, IndexTypes DEF IInv, SessionTypeOK, TrustIsOfSession, ReadTrust, Idle

\* importSessionKeys stores a session without trust.
LEMMA ImportKeeps == ASSUME IInv, NEW start, ImportSessionKeys(start) PROVE IInv'
<1>1. reading = Idle /\ start \in Int /\ imports' \subseteq Int /\ UNCHANGED <<reading, found, backup>>
  BY DEF ImportSessionKeys, net, IInv, SessionTypeOK
<1>2. \/ UNCHANGED <<stored, source>>
      \/ stored' = Session(start, FALSE) /\ source' = "other"
  BY DEF ImportSessionKeys
<1>3. stored' \in Stored /\ source' \in Sources /\ (stored'.trusted => source' = "sender")
  BY <1>1, <1>2, SessionIsStored DEF IInv, SessionTypeOK, TrustIsOfSession, Sources
<1>4. QED
  BY <1>1, <1>3 DEF IInv, SessionTypeOK, TrustIsOfSession, ReadTrust, Idle

\* Steps that leave the session and what is read of it alone.
LEMMA ElsewhereKeeps ==
  ASSUME IInv, UNCHANGED <<stored, source>>, reading' = reading \/ reading' = Idle,
         found' \in Int, backup' \in Int, imports' \subseteq Int
  PROVE  IInv'
BY DEF IInv, SessionTypeOK, TrustIsOfSession, ReadTrust, Idle

LEMMA NextIInv == ASSUME IInv, [Next]_vars PROVE IInv'
<1> USE DEF disk, store, main, net, world
<1>1. found \in Int /\ backup \in Int /\ imports \subseteq Int
  BY DEF IInv, SessionTypeOK
<1>2. ASSUME NEW start \in Indices, RoomKey(start) PROVE IInv'
  BY <1>2, IndexTypes, KeyKeeps DEF RoomKey, KeyComes, Sources
<1>3. ASSUME NEW start \in Indices, NEW from \in {"sender", "other"}, ForwardedKey(start, from)
      PROVE  IInv'
  BY <1>3, IndexTypes, KeyKeeps DEF ForwardedKey, KeyComes, Trusted, Sources
<1>4. ASSUME NEW start \in Indices, OtherBackUp(start) PROVE IInv'
  BY <1>1, <1>4, IndexTypes, ElsewhereKeeps DEF OtherBackUp
<1>5. ASSUME LookupAnswered PROVE IInv'
  BY <1>1, <1>5, IndexTypes, ElsewhereKeeps DEF LookupAnswered
<1>6. ASSUME Notified \/ Download PROVE IInv'
  BY <1>1, <1>6, ElsewhereKeeps DEF Notified, Download
<1>7. ASSUME NEW e \in Events, Sync(e) \/ Read(e) PROVE IInv'
  BY <1>7, DecryptKeeps DEF Sync, Read
<1>8. ASSUME NEW e \in Events, Page(e) PROVE IInv'
  BY <1>1, <1>8, ElsewhereKeeps DEF Page
<1>9. ASSUME FirstSyncOver \/ TenMinutes \/ SyncLimited \/ UNCHANGED vars PROVE IInv'
  BY <1>1, <1>9, ElsewhereKeeps DEF FirstSyncOver, TenMinutes, SyncLimited, vars
<1>10. ASSUME Restart PROVE IInv'
  BY <1>1, <1>10, IndexTypes, ElsewhereKeeps DEF Restart
<1>11. QED
  BY <1>2, <1>3, <1>4, <1>5, <1>6, <1>7, <1>8, <1>9, <1>10, LookupSavedKeeps, ImportKeeps,
     ReadSessionKeeps, ReadDataKeeps DEF Next, Keys, Views

------------------------------------------------------------------------------

\* Session, data and what olm::decryptEvent has read agree on the trust.
THEOREM TrustInvariance == Spec => []IInv
<1>1. Init => IInv
  BY InitIInv
<1>2. IInv /\ [Next]_vars => IInv'
  BY NextIInv
<1>3. QED
  BY <1>1, <1>2, PTL DEF Spec

\* saveInboundMegolmSession on two threads: a session that did not come from
\* its sender is never stored as trusted.
THEOREM TrustOnlyFromSender == Spec => []TrustIsOfSession
<1>1. IInv => TrustIsOfSession
  BY DEF IInv
<1>2. QED
  BY <1>1, TrustInvariance, PTL

------------------------------------------------------------------------------
(* Verdicts and the keys that come for them                                 *)

\* An event that lacks its key has a row and is remembered with the request
\* for it.  A session that was read before a better one was stored is one the
\* network thread's report is still queued for.
VerdictTypeOK ==
  /\ cached \in [Events -> {"no", "missing", "replay", "ok"}]
  /\ notes \in Nat /\ keys \in Nat
  /\ {stored.first, found, backup} \subseteq 0 .. NoKey
  /\ imports # {} => May("download")

Missing(e) == e \in Events /\ cached[e] = "missing"

MissingWait ==
  ~May("preview") => \A e : Missing(e) => e \in rows /\ (suppressed \/ e \in pending)

ReadIsNoted ==
  reading # Idle => /\ reading.event \in rows
                    /\ stored.first <= reading.first
                    /\ stored.first < reading.first => notes > 0

VerdictInv == VerdictTypeOK /\ MissingWait /\ ReadIsNoted /\ VerdictIsFresh

\* Until a second key comes, the first one is what the backup, a lookup and a
\* reader hold, and what was opened with it is in its list of indexes.
FirstKeyInv ==
  /\ keys = 0 => stored.first = NoKey /\ backup = NoKey
  /\ keys <= 1 =>
       /\ imports = {}
       /\ found # NoKey => found = backup /\ stored.first = NoKey
       /\ stored.first # NoKey => backup >= stored.first
       /\ stored.first = NoKey => opened = {}
       /\ reading # Idle => stored.first # NoKey /\ reading.first = stored.first
       /\ \A e \in opened : e \in Events /\ stored.indices[At[e]] = e

LEMMA InitVerdict == Init => VerdictInv /\ FirstKeyInv
<1> SUFFICES ASSUME Init PROVE VerdictInv /\ FirstKeyInv
  OBVIOUS
<1>1. /\ stored.first = NoKey /\ found = NoKey /\ backup = NoKey /\ imports = {}
      /\ reading = Idle /\ notes = 0 /\ keys = 0 /\ opened = {}
      /\ cached = [e \in Events |-> "no"]
  BY DEF Init, Session
<1>2. NoKey \in 0 .. NoKey
  BY DecryptionOK DEF NoKey
<1>3. VerdictInv
  BY <1>1, <1>2 DEF VerdictInv, VerdictTypeOK, MissingWait, Missing, ReadIsNoted, VerdictIsFresh
<1>4. QED
  BY <1>1, <1>3 DEF FirstKeyInv

\* A session that begins later than the stored one is not stored.
LEMMA SaveFirst ==
  ASSUME NEW session, NEW from, session.first \in Int, stored.first \in Int,
         SaveInbound(session, from)
  PROVE  /\ stored'.first = Smaller(session.first, stored.first)
         /\ stored'.first = session.first \/ stored' = stored
         /\ session.first <= stored.first => stored' = session
BY DEF SaveInbound, Smaller

\* What is written back begins where the stored session does, for a reader
\* cannot have read a better one.
LEMMA RecordFirst ==
  ASSUME IInv, NEW e \in Events, NEW start \in Int, NEW from,
         stored.first <= start, Record(start, from, stored, e)
  PROVE  /\ stored'.first = stored.first
         /\ stored.indices[At[e]] \in {NoEvent, e} /\ start = stored.first
              => stored'.indices[At[e]] = e
         /\ \A i \in Indices : stored.indices[i] # NoEvent => stored'.indices[i] = stored.indices[i]
<1> DEFINE session == [stored EXCEPT !.first = start, !.indices[At[e]] = e]
<1>1. stored \in Stored /\ stored.first \in Int /\ At[e] \in Indices
  BY DecryptionOK DEF IInv, SessionTypeOK, Stored, Indices
<1>2. session.first = start /\ session.indices[At[e]] = e
      /\ \A i \in Indices : i # At[e] => session.indices[i] = stored.indices[i]
  BY <1>1 DEF Stored
<1>3. CASE stored.indices[At[e]] = NoEvent
  <2>1. SaveInbound(session, from)
    BY <1>3 DEF Record
  <2> HIDE DEF session
  <2>2. CASE start > stored.first
    BY <1>1, <1>2, <2>1, <2>2 DEF SaveInbound
  <2>3. CASE start = stored.first
    <3>1. stored' = session
      BY <1>2, <2>1, <2>3, <1>1 DEF SaveInbound
    <3>2. \A i \in Indices : stored.indices[i] # NoEvent => i # At[e]
      BY <1>3
    <3>3. QED
      BY <1>2, <2>3, <3>1, <3>2
  <2>4. QED
    BY <1>1, <2>2, <2>3
<1>4. CASE stored.indices[At[e]] # NoEvent
  <2>1. stored' = stored
    BY <1>4 DEF Record
  <2>2. QED
    BY <1>4, <2>1
<1>5. QED
  BY <1>3, <1>4

\* All verdicts are dropped.
LEMMA DroppedKeeps ==
  ASSUME VerdictInv, cached' = [e \in Events |-> "no"], reading = Idle, reading' = Idle,
         notes' \in Nat, UNCHANGED <<stored, backup, keys, env>>, found' \in {found, NoKey},
         imports' \subseteq imports
  PROVE  VerdictInv'
<1>1. NoKey \in 0 .. NoKey
  BY DecryptionOK DEF NoKey
<1>2. \A e : ~Missing(e)'
  BY DEF Missing
<1>3. VerdictTypeOK'
  BY <1>1 DEF VerdictInv, VerdictTypeOK, May
<1>4. QED
  BY <1>2, <1>3 DEF VerdictInv, MissingWait, ReadIsNoted, VerdictIsFresh, Missing

\* receivedSessionKey: whoever waits is read again, so nothing is left over.
LEMMA ReceivedKeeps ==
  ASSUME VerdictInv, Received(pending), reading = Idle, reading' = Idle,
         notes' \in Nat, keys' \in Nat, {stored'.first, found', backup'} \subseteq 0 .. NoKey,
         imports' \subseteq imports, UNCHANGED <<rows, suppressed, env>>
  PROVE  VerdictInv'
<1>1. \A e \in Events : cached'[e] = IF e \in pending \cap rows THEN "no" ELSE cached[e]
  BY DEF Received
<1>2. \A e : Missing(e)' => Missing(e) /\ e \notin pending \cap rows
  BY <1>1 DEF Missing
<1>3. ~May("preview") => \A e : Missing(e)' => suppressed /\ e \in rows
  BY <1>2 DEF VerdictInv, MissingWait
<1>4. VerdictTypeOK'
  <2>1. cached' \in [Events -> {"no", "missing", "replay", "ok"}]
    BY DEF Received, VerdictInv, VerdictTypeOK
  <2>2. imports' # {} => May("download")'
    BY DEF VerdictInv, VerdictTypeOK, May
  <2>3. QED
    BY <2>1, <2>2 DEF VerdictTypeOK
<1>5. QED
  BY <1>3, <1>4 DEF VerdictInv, MissingWait, ReadIsNoted, VerdictIsFresh, Missing, May

\* Steps that give and drop no verdict and store no key.
LEMMA VerdictsStay ==
  ASSUME VerdictInv, UNCHANGED <<cached, pending, suppressed, notes, env>>,
         stored'.first = stored.first, reading' = reading, rows \subseteq rows',
         keys' \in Nat, {found', backup'} \subseteq 0 .. NoKey, imports' # {} => May("download")
  PROVE  VerdictInv'
<1>1. \A e : Missing(e)' = Missing(e)
  BY DEF Missing
<1>2. VerdictTypeOK'
  BY DEF VerdictInv, VerdictTypeOK, May
<1>3. QED
  BY <1>1, <1>2 DEF VerdictInv, MissingWait, ReadIsNoted, VerdictIsFresh, Missing, May, Readable, Idle

\* decryptEvent: an event that lacks its key is remembered.
LEMMA FinishVerdict ==
  ASSUME IInv, VerdictInv, NEW e \in Events, NEW start \in Int, NEW from,
         stored.first <= start, stored.first < start => notes > 0,
         Finish(e, start, from), reading' = Idle, rows \subseteq rows',
         May("preview") \/ e \in rows'
  PROVE  VerdictInv'
<1> DEFINE verdict == Verdict(e, start, stored)
<1>1. /\ cached' = [cached EXCEPT ![e] = verdict]
      /\ verdict = "missing" => RequestSession(e)
      /\ verdict # "missing" => UNCHANGED pending
      /\ UNCHANGED <<suppressed, notes, imports, found, backup, keys, env>>
      /\ Record(start, from, stored, e) \/ UNCHANGED stored
  BY DEF Finish, world
<1>2. /\ verdict \in {"missing", "replay", "ok"}
      /\ verdict = "missing" => start > At[e]
  BY DEF Verdict
<1> HIDE DEF verdict
<1>3. stored'.first = stored.first
  BY <1>1, RecordFirst
<1>4. VerdictTypeOK'
  BY <1>1, <1>2, <1>3 DEF VerdictInv, VerdictTypeOK, May
<1>5. /\ pending \subseteq pending'
      /\ verdict = "missing" => suppressed \/ e \in pending'
  BY <1>1 DEF RequestSession, Noted
<1>6. \A x : Missing(x)' => (Missing(x) /\ x # e) \/ (x = e /\ verdict = "missing")
  BY <1>1 DEF Missing, VerdictInv, VerdictTypeOK
<1>7. MissingWait'
  BY <1>1, <1>5, <1>6 DEF VerdictInv, MissingWait, May
<1>8. VerdictIsFresh'
  <2>1. SUFFICES ASSUME NEW x \in Events, Missing(x)', Readable(x)'
                 PROVE  \/ notes' > 0
                        \/ suppressed' \/ May("preview")' \/ {"download", "eager"} \subseteq env'
    BY DEF VerdictIsFresh, Missing
  <2>2. CASE x # e
    BY <1>1, <1>3, <1>6, <2>1, <2>2 DEF VerdictInv, VerdictIsFresh, Missing, Readable, May
  <2>3. CASE x = e
    <3>1. stored.first <= At[e] /\ start > At[e] /\ At[e] \in Int /\ stored.first \in Int
      BY <1>2, <1>3, <1>6, <2>1, <2>3, DecryptionOK DEF Readable, IInv, SessionTypeOK, Stored
    <3>2. QED
      BY <1>1, <3>1
  <2>4. QED
    BY <2>2, <2>3
<1>9. QED
  BY <1>4, <1>7, <1>8 DEF VerdictInv, ReadIsNoted, Idle

\* The same step, when there was one key at most.
LEMMA FinishFirstKey ==
  ASSUME IInv, VerdictTypeOK, FirstKeyInv, NEW e \in Events, NEW start \in Int, NEW from,
         stored.first <= start, keys <= 1 => start = stored.first,
         Finish(e, start, from), reading' = Idle
  PROVE  FirstKeyInv'
<1>1. /\ UNCHANGED <<imports, found, backup, keys, env>>
      /\ \/ /\ Verdict(e, start, stored) = "ok"
            /\ Record(start, from, stored, e) /\ opened' = opened \cup {e}
         \/ UNCHANGED <<stored, opened>>
  BY DEF Finish, world
<1>2. CASE UNCHANGED <<stored, opened>>
  BY <1>1, <1>2 DEF FirstKeyInv, Idle
<1>3. CASE /\ Verdict(e, start, stored) = "ok"
           /\ Record(start, from, stored, e) /\ opened' = opened \cup {e}
  <2>1. ~(start > At[e]) /\ stored.indices[At[e]] \in {NoEvent, e}
    BY <1>3 DEF Verdict
  <2>2. stored'.first = stored.first
    BY <1>3, RecordFirst
  <2>3. At[e] \in Indices /\ At[e] < NoKey /\ \A f \in Events : At[f] \in Indices
    BY DecryptionOK DEF Indices, NoKey
  <2>4. ASSUME keys <= 1 PROVE stored.first # NoKey /\ \A f \in opened' : f \in Events /\ stored'.indices[At[f]] = f
    <3>1. start = stored.first /\ stored.first # NoKey
      <4>1. start = stored.first
        BY <2>4
      <4>2. At[e] \in Int /\ NoKey \in Int
        BY <2>3, IndexTypes
      <4>3. QED
        BY <2>1, <2>3, <4>1, <4>2
    <3>2. stored'.indices[At[e]] = e
      BY <1>3, <2>1, <3>1, RecordFirst
    <3>3. ASSUME NEW f \in opened PROVE f \in Events /\ stored'.indices[At[f]] = f
      <4>1. f \in Events /\ stored.indices[At[f]] = f /\ f # NoEvent
        BY <2>4, <3>3, DecryptionOK DEF FirstKeyInv
      <4>2. QED
        BY <1>3, <2>3, <4>1, RecordFirst
    <3>4. QED
      BY <1>3, <3>1, <3>2, <3>3
  <2>5. QED
    BY <1>1, <2>2, <2>4 DEF FirstKeyInv, Idle
<1>4. QED
  BY <1>1, <1>2, <1>3

LEMMA DecryptVerdict ==
  ASSUME IInv, VerdictInv, FirstKeyInv, NEW e \in Events, Decrypt(e), rows \subseteq rows',
         May("preview") \/ e \in rows'
  PROVE  VerdictInv' /\ FirstKeyInv'
<1>1. Finish(e, stored.first, source) /\ reading' = Idle
  BY DEF Decrypt
<1>2. stored.first \in Int
  BY DEF IInv, SessionTypeOK, Stored
<1>3. QED
  BY <1>1, <1>2, FinishVerdict, FinishFirstKey DEF VerdictInv

LEMMA ReadDataVerdict ==
  ASSUME IInv, VerdictInv, FirstKeyInv, ReadData
  PROVE  VerdictInv' /\ FirstKeyInv'
<1>1. reading # Idle /\ Finish(reading.event, reading.first, reading.source) /\ reading' = Idle
      /\ UNCHANGED rows
  BY DEF ReadData
<1>2. reading \in Reading
  BY <1>1 DEF IInv, SessionTypeOK
<1>3. /\ reading.event \in Events /\ reading.event \in rows /\ reading.first \in Int
      /\ stored.first <= reading.first /\ (stored.first < reading.first => notes > 0)
  BY <1>1, <1>2 DEF Reading, VerdictInv, ReadIsNoted
<1>4. keys <= 1 => reading.first = stored.first
  BY <1>1 DEF FirstKeyInv
<1>5. VerdictInv'
  BY <1>1, <1>3, FinishVerdict
<1>6. FirstKeyInv'
  BY <1>1, <1>3, <1>4, FinishFirstKey DEF VerdictInv
<1>7. QED
  BY <1>5, <1>6

\* A session is read while the lookup's callback may store another one.
LEMMA ReadSessionVerdict ==
  ASSUME IInv, VerdictInv, FirstKeyInv, NEW e \in Events, ReadSession(e)
  PROVE  VerdictInv' /\ FirstKeyInv'
<1>1. /\ reading' = [event |-> e, first |-> stored.first, source |-> source]
      /\ e \in rows /\ stored.first # NoKey
      /\ UNCHANGED <<disk, store, notes, imports, net, world, opened>>
  BY DEF ReadSession
<1>2. stored.first \in Int /\ reading'.first = stored.first /\ reading'.event = e
  BY <1>1 DEF IInv, SessionTypeOK, Stored
<1>3. VerdictInv'
  BY <1>1, <1>2 DEF VerdictInv, VerdictTypeOK, MissingWait, Missing, ReadIsNoted, VerdictIsFresh,
     Readable, May, disk, store, net, world
<1>4. FirstKeyInv'
  BY <1>1, <1>2 DEF FirstKeyInv, disk, net, world
<1>5. QED
  BY <1>3, <1>4

\* A key comes, from its sender or forwarded, and is reported at once.
LEMMA KeyVerdict ==
  ASSUME IInv, VerdictInv, FirstKeyInv, KeyComes, NEW start \in Indices, NEW trusted \in BOOLEAN,
         NEW from, SaveInbound(Session(start, trusted), from), BackUp(start), Received(pending),
         UNCHANGED <<rows, suppressed, reading, notes, imports, found, env, opened>>
  PROVE  VerdictInv' /\ FirstKeyInv'
<1>1. /\ start \in Int /\ start \in 0 .. NoKey /\ start < NoKey
      /\ keys \in Nat /\ keys' = keys + 1 /\ reading = Idle
      /\ stored.first \in 0 .. NoKey /\ backup \in 0 .. NoKey /\ found \in 0 .. NoKey
  BY IndexTypes DEF KeyComes, VerdictInv, VerdictTypeOK, Indices, NoKey
<1>2. Session(start, trusted).first = start
  BY DEF Session
<1>3. stored'.first = Smaller(start, stored.first)
  BY <1>1, <1>2, IndexTypes, SaveFirst
<1>4. backup' = Smaller(start, backup) \/ backup' = backup
  BY DEF BackUp
<1>5. {stored'.first, found', backup'} \subseteq 0 .. NoKey
  BY <1>1, <1>3, <1>4 DEF Smaller
<1>6. VerdictInv'
  BY <1>1, <1>5, ReceivedKeeps DEF VerdictInv, VerdictTypeOK
<1>7. CASE keys = 0
  <2>1. stored.first = NoKey /\ backup = NoKey /\ imports = {} /\ found = NoKey /\ opened = {}
    BY <1>7 DEF FirstKeyInv
  <2>2. stored'.first = start /\ backup' >= start
    BY <1>1, <1>3, <1>4, <2>1, IndexTypes DEF Smaller
  <2>3. QED
    BY <1>1, <1>6, <2>1, <2>2, IndexTypes DEF FirstKeyInv
<1>8. CASE keys # 0
  BY <1>1, <1>6, <1>8 DEF FirstKeyInv
<1>9. QED
  BY <1>7, <1>8

\* Another device backs up its key, or the backup is downloaded.
LEMMA BackupVerdict ==
  ASSUME IInv, VerdictInv, FirstKeyInv, Download \/ \E start \in Indices : OtherBackUp(start)
  PROVE  VerdictInv' /\ FirstKeyInv'
<1>1. /\ keys \in Nat /\ keys' = keys + 1
      /\ UNCHANGED <<disk, store, reading, notes, lookups, found, uses, env, opened>>
  BY DEF Download, OtherBackUp, VerdictInv, VerdictTypeOK, main, net
<1>2. CASE Download
  <2>1. backup # NoKey /\ backup' = backup /\ May("download")
    BY <1>2 DEF Download, net
  <2>2. keys # 0
    BY <2>1 DEF FirstKeyInv
  <2>3. VerdictInv'
    BY <1>1, <2>1, VerdictsStay DEF VerdictInv, VerdictTypeOK, disk, store
  <2>4. QED
    BY <1>1, <2>2, <2>3 DEF FirstKeyInv
<1>3. ASSUME NEW start \in Indices, OtherBackUp(start) PROVE VerdictInv' /\ FirstKeyInv'
  <2>1. start < backup /\ backup' = start /\ imports' = imports /\ start \in 0 .. NoKey
    BY <1>3, IndexTypes DEF OtherBackUp, main, Indices, NoKey
  <2>2. VerdictInv'
    BY <1>1, <2>1, VerdictsStay DEF VerdictInv, VerdictTypeOK, disk, store
  <2>3. CASE keys = 0
    <3>1. stored.first = NoKey /\ found = NoKey /\ imports = {} /\ opened = {} /\ reading = Idle
      BY <2>3 DEF FirstKeyInv
    <3>2. stored' = stored /\ found' = found /\ opened' = opened /\ reading' = reading /\ keys' = 1
      BY <1>1, <2>3 DEF disk
    <3>3. QED
      BY <2>1, <2>2, <3>1, <3>2 DEF FirstKeyInv, Idle
  <2>4. QED
    BY <1>1, <2>1, <2>2, <2>3 DEF FirstKeyInv
<1>4. QED
  BY <1>2, <1>3

\* lookup_keybackup's callback, before it saves and when it does.
LEMMA LookupVerdict ==
  ASSUME IInv, VerdictInv, FirstKeyInv, LookupAnswered \/ LookupSaved
  PROVE  VerdictInv' /\ FirstKeyInv'
<1>1. stored.first \in 0 .. NoKey /\ backup \in 0 .. NoKey /\ found \in 0 .. NoKey /\ notes \in Nat
      /\ NoKey \in 0 .. NoKey
  BY DecryptionOK DEF VerdictInv, VerdictTypeOK, NoKey
<1>2. CASE LookupAnswered
  <2>1. /\ found = NoKey /\ found' \in {backup, NoKey}
        /\ found' # NoKey => backup < stored.first
        /\ UNCHANGED <<disk, store, main, backup, world, opened>>
    BY <1>2 DEF LookupAnswered
  <2>2. /\ UNCHANGED <<stored, rows, cached, pending, suppressed, reading, notes, imports, keys, env,
                       backup, opened>>
        /\ found' \in 0 .. NoKey /\ keys \in Nat
        /\ imports # {} => May("download")
    BY <1>1, <2>1 DEF disk, store, main, world, VerdictInv, VerdictTypeOK
  <2>3. VerdictInv'
    BY <1>1, <2>2, VerdictsStay
  <2>4. keys <= 1 /\ found' # NoKey => found' = backup /\ stored.first = NoKey
    <3>1. SUFFICES ASSUME keys <= 1, found' # NoKey, stored.first # NoKey PROVE FALSE
      BY <2>1
    <3>2. backup < stored.first /\ backup >= stored.first
      BY <2>1, <3>1 DEF FirstKeyInv
    <3>3. QED
      BY <1>1, <3>2, IndexTypes
  <2>5. FirstKeyInv'
    BY <2>2, <2>4 DEF FirstKeyInv, Idle
  <2>6. QED
    BY <2>3, <2>5
<1>3. CASE LookupSaved
  <2>1. /\ found # NoKey /\ found' = NoKey /\ notes' = notes + 1
        /\ SaveInbound(Session(found, FALSE), "other")
        /\ UNCHANGED <<rows, store, reading, imports, backup, world, opened>>
    BY <1>3 DEF LookupSaved
  <2> PICK session : session = Session(found, FALSE)
    OBVIOUS
  <2>2. session.first = found /\ found \in Int /\ stored.first \in Int
    BY <1>1, IndexTypes DEF Session
  <2>3. stored'.first = Smaller(found, stored.first)
    BY <2>1, <2>2, SaveFirst
  <2>4. stored'.first \in 0 .. NoKey /\ stored'.first <= stored.first
    BY <1>1, <2>2, <2>3, IndexTypes DEF Smaller
  <2>5. VerdictInv'
    <3>1. /\ UNCHANGED <<rows, cached, pending, suppressed, reading, imports, keys, env, backup>>
          /\ notes' \in Nat /\ notes' > 0 /\ found' \in 0 .. NoKey
      BY <1>1, <2>1 DEF store, world
    <3>2. VerdictTypeOK' /\ MissingWait'
      BY <1>1, <2>4, <3>1 DEF VerdictInv, VerdictTypeOK, MissingWait, Missing, May
    <3>3. VerdictIsFresh'
      BY <3>1 DEF VerdictIsFresh
    <3>4. ReadIsNoted'
      <4>1. SUFFICES ASSUME reading # Idle
                     PROVE  reading.event \in rows /\ stored'.first <= reading.first
        BY <3>1 DEF ReadIsNoted, Idle
      <4>2. reading.event \in rows /\ stored.first <= reading.first /\ reading.first \in Int
        BY <4>1 DEF VerdictInv, ReadIsNoted, IInv, SessionTypeOK, Reading
      <4>3. QED
        BY <2>2, <2>4, <4>2, IndexTypes
    <3>5. QED
      BY <3>2, <3>3, <3>4 DEF VerdictInv
  <2>6. FirstKeyInv'
    <3>1. keys <= 1 => found = backup /\ stored.first = NoKey /\ opened = {} /\ reading = Idle
      BY <2>1 DEF FirstKeyInv
    <3>2. keys = 0 => FALSE
      BY <2>1 DEF FirstKeyInv
    <3>3. keys <= 1 => stored'.first = found
      BY <1>1, <2>3, <3>1, IndexTypes DEF Smaller
    <3>4. QED
      BY <1>1, <2>1, <3>1, <3>2, <3>3 DEF FirstKeyInv, world
  <2>7. QED
    BY <2>5, <2>6
<1>4. QED
  BY <1>2, <1>3

\* importSessionKeys: a view that reads at once lets the events wait again.
LEMMA ImportVerdict ==
  ASSUME IInv, VerdictInv, FirstKeyInv, NEW start \in Indices, ImportSessionKeys(start)
  PROVE  VerdictInv' /\ FirstKeyInv'
<1>1. /\ reading = Idle /\ reading' = Idle /\ start \in imports /\ imports' = imports \ {start}
      /\ UNCHANGED <<rows, suppressed, found, backup, notes, keys, env, opened>>
  BY DEF ImportSessionKeys, net, world
<1>2. FirstKeyInv'
  BY <1>1, IndexTypes DEF FirstKeyInv, VerdictInv, VerdictTypeOK
<1>3. CASE UNCHANGED <<stored, source, cached, pending>>
  <2>1. {found', backup'} \subseteq 0 .. NoKey /\ keys' \in Nat /\ (imports' # {} => May("download"))
    BY <1>1 DEF VerdictInv, VerdictTypeOK
  <2>2. stored'.first = stored.first /\ reading' = reading /\ rows \subseteq rows'
    BY <1>1, <1>3
  <2>3. VerdictInv'
    BY <1>1, <1>3, <2>1, <2>2, VerdictsStay
  <2>4. QED
    BY <1>2, <2>3
<1>4. CASE stored' = Session(start, FALSE)
  <2>1. stored'.first = start /\ start \in 0 .. NoKey
    BY <1>4, IndexTypes DEF Session, Indices, NoKey
  <2>2. CASE Received(pending)
    <3>1. {stored'.first, found', backup'} \subseteq 0 .. NoKey /\ keys' \in Nat /\ notes' \in Nat
      BY <1>1, <2>1 DEF VerdictInv, VerdictTypeOK
    <3>2. VerdictInv'
      BY <1>1, <2>2, <3>1, ReceivedKeeps
    <3>3. QED
      BY <1>2, <3>2
  <2>3. CASE May("eager") /\ pending' = pending \cap rows /\ UNCHANGED cached
    <3>1. {"download", "eager"} \subseteq env
      BY <1>1, <2>3 DEF VerdictInv, VerdictTypeOK, May
    <3>2. VerdictTypeOK' /\ VerdictIsFresh'
      BY <1>1, <2>1, <2>3, <3>1 DEF VerdictInv, VerdictTypeOK, VerdictIsFresh, May
    <3>3. MissingWait'
      BY <1>1, <2>3 DEF VerdictInv, MissingWait, Missing, May
    <3>4. QED
      BY <1>1, <1>2, <3>2, <3>3 DEF VerdictInv, ReadIsNoted
  <2>4. Received(pending) \/ (May("eager") /\ pending' = pending \cap rows /\ UNCHANGED cached)
        \/ UNCHANGED <<stored, source, cached, pending>>
    BY DEF ImportSessionKeys
  <2>5. QED
    BY <1>3, <2>2, <2>3, <2>4
<1>5. QED
  BY <1>3, <1>4 DEF ImportSessionKeys

LEMMA NextVerdict ==
  ASSUME IInv, VerdictInv, FirstKeyInv, [Next]_vars PROVE VerdictInv' /\ FirstKeyInv'
<1> USE DEF disk, store, main, net, world
<1>1. VerdictTypeOK
  BY DEF VerdictInv
<1>2. ASSUME NEW start \in Indices, RoomKey(start) PROVE VerdictInv' /\ FirstKeyInv'
  BY <1>2, KeyVerdict DEF RoomKey
<1>3. ASSUME NEW start \in Indices, NEW from \in {"sender", "other"}, ForwardedKey(start, from)
      PROVE  VerdictInv' /\ FirstKeyInv'
  BY <1>3, KeyVerdict DEF ForwardedKey, Trusted
<1>4. CASE Notified
  <2>1. VerdictInv'
    BY <1>1, <1>4, ReceivedKeeps DEF Notified, VerdictTypeOK
  <2>2. FirstKeyInv'
    BY <1>4 DEF Notified, FirstKeyInv
  <2>3. QED
    BY <2>1, <2>2
<1>5. ASSUME NEW e \in Events, Sync(e) \/ Read(e) PROVE VerdictInv' /\ FirstKeyInv'
  BY <1>5, DecryptVerdict DEF Sync, Read
<1>6. ASSUME NEW e \in Events, Page(e) PROVE VerdictInv' /\ FirstKeyInv'
  <2>1. VerdictInv'
    BY <1>1, <1>6, VerdictsStay DEF Page, VerdictTypeOK
  <2>2. FirstKeyInv'
    BY <1>6 DEF Page, FirstKeyInv
  <2>3. QED
    BY <2>1, <2>2
<1>7. CASE TenMinutes \/ UNCHANGED vars
  <2>1. VerdictInv'
    BY <1>1, <1>7, VerdictsStay DEF TenMinutes, vars, VerdictTypeOK
  <2>2. FirstKeyInv'
    BY <1>7 DEF TenMinutes, vars, FirstKeyInv
  <2>3. QED
    BY <2>1, <2>2
<1>8. CASE FirstSyncOver \/ SyncLimited \/ Restart
  <2>1. VerdictInv'
    BY <1>1, <1>8, DroppedKeeps DEF FirstSyncOver, SyncLimited, Restart, Use, VerdictTypeOK
  <2>2. FirstKeyInv'
    BY <1>8 DEF FirstSyncOver, SyncLimited, Restart, FirstKeyInv
  <2>3. QED
    BY <2>1, <2>2
<1>9. QED
  BY <1>2, <1>3, <1>4, <1>5, <1>6, <1>7, <1>8, BackupVerdict, LookupVerdict, ImportVerdict,
     ReadSessionVerdict, ReadDataVerdict DEF Next, Keys, Views

\* Session, verdicts and waiting events agree, and the first key's list of
\* indexes holds whatever was opened with it.
THEOREM VerdictInvariance == Spec => [](VerdictInv /\ FirstKeyInv)
<1>1. Init => VerdictInv /\ FirstKeyInv
  BY InitVerdict
<1>2. IInv /\ (VerdictInv /\ FirstKeyInv) /\ [Next]_vars => (VerdictInv /\ FirstKeyInv)'
  BY NextVerdict
<1>3. QED
  BY <1>1, <1>2, TrustInvariance, PTL DEF Spec

\* receivedSessionKey: no event stays unreadable whose key is there, unless the
\* report of the key is on its way.
THEOREM NoVerdictLeftOver == Spec => []VerdictIsFresh
<1>1. VerdictInv => VerdictIsFresh
  BY DEF VerdictInv
<1>2. QED
  BY <1>1, VerdictInvariance, PTL

\* GroupSessionData::indices: a replayed index is seen, across restarts too.
THEOREM ReplayIsSeen == Spec => []OneEventPerIndex
<1>1. FirstKeyInv => OneEventPerIndex
  BY DEF FirstKeyInv, OneEventPerIndex
<1>2. QED
  BY <1>1, VerdictInvariance, PTL

------------------------------------------------------------------------------
\* The window

\* The smallest and the largest number of an interval.
LEMMA IntervalEnds ==
  ASSUME NEW a \in Int, NEW b \in Int, a <= b
  PROVE  Min(a .. b) = a /\ Max(a .. b) = b
  <1>1. \E x \in a .. b : \A y \in a .. b : x =< y
    OBVIOUS
  <1>2. Min(a .. b) \in a .. b /\ \A y \in a .. b : Min(a .. b) =< y
    BY <1>1 DEF Min
  <1>3. \E x \in a .. b : \A y \in a .. b : x >= y
    OBVIOUS
  <1>4. Max(a .. b) \in a .. b /\ \A y \in a .. b : Max(a .. b) >= y
    BY <1>3 DEF Max
  <1>. QED
    BY <1>2, <1>4

\* Of nested sets that grow with the members of S, each has its own number of
\* members, and every number occurs.
Nested(S, A) ==
  /\ A \in [S -> SUBSET S]
  /\ \A e \in S : e \in A[e]
  /\ \A d, e \in S : d # e => A[d] # A[e] /\ (A[d] \subseteq A[e] \/ A[e] \subseteq A[d])

Ranked(S, A) ==
  /\ \A e \in S : Cardinality(A[e]) \in 1 .. Cardinality(S)
  /\ \A d, e \in S : Cardinality(A[d]) = Cardinality(A[e]) => d = e
  /\ \A n \in 1 .. Cardinality(S) : \E e \in S : Cardinality(A[e]) = n

\* They are counted up to their number of members, by the pigeonhole principle.
LEMMA Ranks ==
  ASSUME NEW S, IsFiniteSet(S), NEW A, Nested(S, A)
  PROVE  Ranked(S, A)
  <1>1. Cardinality(S) \in Nat
    BY FS_CardinalityType
  <1>2. ASSUME NEW e \in S
        PROVE  IsFiniteSet(A[e]) /\ Cardinality(A[e]) \in 1 .. Cardinality(S)
    <2>1. A[e] \in SUBSET S /\ e \in A[e]
      BY DEF Nested
    <2>2. IsFiniteSet(A[e]) /\ Cardinality(A[e]) <= Cardinality(S)
      BY <2>1, FS_Subset
    <2>3. Cardinality(A[e]) \in Nat /\ Cardinality(A[e]) # 0
      BY <2>1, <2>2, FS_CardinalityType, FS_EmptySet
    <2>. QED
      BY <1>1, <2>2, <2>3
  <1>3. ASSUME NEW d \in S, NEW e \in S, Cardinality(A[d]) = Cardinality(A[e])
        PROVE  d = e
    <2>1. SUFFICES ASSUME d # e PROVE FALSE
      OBVIOUS
    <2>2. CASE A[d] \subseteq A[e]
      BY <1>2, <1>3, <2>1, <2>2, FS_Subset DEF Nested
    <2>3. CASE A[e] \subseteq A[d]
      BY <1>2, <1>3, <2>1, <2>3, FS_Subset DEF Nested
    <2>. QED
      BY <2>1, <2>2, <2>3 DEF Nested
  <1>4. ASSUME NEW n \in 1 .. Cardinality(S), \A e \in S : Cardinality(A[e]) # n
        PROVE  FALSE
    <2> DEFINE T == (1 .. Cardinality(S)) \ {n}
               f == [e \in S |-> Cardinality(A[e])]
    <2>1. IsFiniteSet(1 .. Cardinality(S)) /\ Cardinality(1 .. Cardinality(S)) = Cardinality(S)
      BY <1>1, FS_Interval
    <2>2. IsFiniteSet(T) /\ Cardinality(T) = Cardinality(S) - 1
      BY <2>1, FS_RemoveElement
    <2>3. f \in [S -> T]
      BY <1>2, <1>4
    <2>4. Cardinality(T) < Cardinality(S)
      BY <1>1, <2>2
    <2> HIDE DEF T, f
    <2>5. PICK d \in S, e \in S : d # e /\ f[d] = f[e]
      BY <2>2, <2>3, <2>4, FS_PigeonHole
    <2>. QED
      BY <1>3, <2>5 DEF f
  <1>. QED
    BY <1>2, <1>3, <1>4 DEF Ranked

\* The members of a finite set of numbers, counted from the oldest and from
\* the newest.
LEMMA Oldest ==
  ASSUME NEW S \in SUBSET Int, IsFiniteSet(S)
  PROVE  /\ Cardinality(S) \in Nat
         /\ \A n \in 1 .. Cardinality(S) :
              /\ FromOldest(S, n) \in S
              /\ Cardinality({x \in S : x <= FromOldest(S, n)}) = n
         /\ \A e \in S : \E n \in 1 .. Cardinality(S) : FromOldest(S, n) = e
  <1>1. PICK A : A = [e \in S |-> {x \in S : x <= e}]
    OBVIOUS
  <1>2. A \in [S -> SUBSET S] /\ \A e \in S : e \in A[e]
    BY <1>1
  <1>3. \A e \in S : A[e] = {x \in S : x <= e}
    BY <1>1
  <1>4. ASSUME NEW d \in S, NEW e \in S, d < e
        PROVE  A[d] # A[e] /\ (A[d] \subseteq A[e] \/ A[e] \subseteq A[d])
    <2>1. d \in Int /\ e \in Int /\ S \subseteq Int
      OBVIOUS
    <2>2. A[d] = {x \in S : x <= d} /\ A[e] = {x \in S : x <= e}
      BY <1>3
    <2>3. e \in A[e] /\ e \notin A[d]
      BY <1>4, <2>1, <2>2
    <2>4. A[d] \subseteq A[e]
      <3>1. \A x \in Int : x <= d => x <= e
        BY <1>4, <2>1
      <3>. QED
        BY <2>1, <2>2, <3>1
    <2>. QED
      BY <2>3, <2>4
  <1>5. \A d, e \in S : d # e => A[d] # A[e] /\ (A[d] \subseteq A[e] \/ A[e] \subseteq A[d])
    <2> SUFFICES ASSUME NEW d \in S, NEW e \in S, d # e
                 PROVE  A[d] # A[e] /\ (A[d] \subseteq A[e] \/ A[e] \subseteq A[d])
      OBVIOUS
    <2>1. d < e \/ e < d
      OBVIOUS
    <2>. QED
      BY <1>4, <2>1
  <1>6. /\ \A e \in S : Cardinality(A[e]) \in 1 .. Cardinality(S)
        /\ \A d, e \in S : Cardinality(A[d]) = Cardinality(A[e]) => d = e
        /\ \A n \in 1 .. Cardinality(S) : \E e \in S : Cardinality(A[e]) = n
    <2>1. Nested(S, A)
      BY <1>2, <1>5 DEF Nested
    <2>2. Ranked(S, A)
      BY <2>1, Ranks
    <2>. QED
      BY <2>2 DEF Ranked
  <1>7. ASSUME NEW n \in 1 .. Cardinality(S)
        PROVE  FromOldest(S, n) \in S /\ Cardinality(A[FromOldest(S, n)]) = n
    <2>1. PICK e \in S : Cardinality(A[e]) = n
      BY <1>6
    <2>2. \E d \in S : Cardinality({x \in S : x <= d}) = n
      BY <1>3, <2>1
    <2>3. FromOldest(S, n) \in S /\ Cardinality({x \in S : x <= FromOldest(S, n)}) = n
      BY <2>2 DEF FromOldest
    <2>. QED
      BY <1>3, <2>3
  <1>8. ASSUME NEW e \in S PROVE \E n \in 1 .. Cardinality(S) : FromOldest(S, n) = e
    <2>1. PICK n \in 1 .. Cardinality(S) : n = Cardinality(A[e])
      BY <1>6
    <2>2. FromOldest(S, n) = e
      BY <1>6, <1>7, <2>1
    <2>. QED
      BY <2>2
  <1>. QED
    BY <1>3, <1>7, <1>8, FS_CardinalityType

\* The same counted from the newest.
LEMMA Newest ==
  ASSUME NEW S \in SUBSET Int, IsFiniteSet(S)
  PROVE  /\ Cardinality(S) \in Nat
         /\ \A n \in 1 .. Cardinality(S) : FromNewest(S, n) \in S
         /\ \A e \in S : \E n \in 1 .. Cardinality(S) : FromNewest(S, n) = e
  <1>1. PICK A : A = [e \in S |-> {x \in S : x >= e}]
    OBVIOUS
  <1>2. A \in [S -> SUBSET S] /\ \A e \in S : e \in A[e]
    BY <1>1
  <1>3. \A e \in S : A[e] = {x \in S : x >= e}
    BY <1>1
  <1>4. ASSUME NEW d \in S, NEW e \in S, d < e
        PROVE  A[d] # A[e] /\ (A[d] \subseteq A[e] \/ A[e] \subseteq A[d])
    <2>1. d \in Int /\ e \in Int /\ S \subseteq Int
      OBVIOUS
    <2>2. A[d] = {x \in S : x >= d} /\ A[e] = {x \in S : x >= e}
      BY <1>3
    <2>3. d \in A[d] /\ d \notin A[e]
      BY <1>4, <2>1, <2>2
    <2>4. A[e] \subseteq A[d]
      <3>1. \A x \in Int : x >= e => x >= d
        BY <1>4, <2>1
      <3>. QED
        BY <2>1, <2>2, <3>1
    <2>. QED
      BY <2>3, <2>4
  <1>5. \A d, e \in S : d # e => A[d] # A[e] /\ (A[d] \subseteq A[e] \/ A[e] \subseteq A[d])
    <2> SUFFICES ASSUME NEW d \in S, NEW e \in S, d # e
                 PROVE  A[d] # A[e] /\ (A[d] \subseteq A[e] \/ A[e] \subseteq A[d])
      OBVIOUS
    <2>1. d < e \/ e < d
      OBVIOUS
    <2>. QED
      BY <1>4, <2>1
  <1>6. /\ \A e \in S : Cardinality(A[e]) \in 1 .. Cardinality(S)
        /\ \A d, e \in S : Cardinality(A[d]) = Cardinality(A[e]) => d = e
        /\ \A n \in 1 .. Cardinality(S) : \E e \in S : Cardinality(A[e]) = n
    <2>1. Nested(S, A)
      BY <1>2, <1>5 DEF Nested
    <2>2. Ranked(S, A)
      BY <2>1, Ranks
    <2>. QED
      BY <2>2 DEF Ranked
  <1>7. ASSUME NEW n \in 1 .. Cardinality(S)
        PROVE  FromNewest(S, n) \in S /\ Cardinality(A[FromNewest(S, n)]) = n
    <2>1. PICK e \in S : Cardinality(A[e]) = n
      BY <1>6
    <2>2. \E d \in S : Cardinality({x \in S : x >= d}) = n
      BY <1>3, <2>1
    <2>3. FromNewest(S, n) \in S /\ Cardinality({x \in S : x >= FromNewest(S, n)}) = n
      BY <2>2 DEF FromNewest
    <2>. QED
      BY <1>3, <2>3
  <1>8. ASSUME NEW e \in S PROVE \E n \in 1 .. Cardinality(S) : FromNewest(S, n) = e
    <2>1. PICK n \in 1 .. Cardinality(S) : n = Cardinality(A[e])
      BY <1>6
    <2>2. FromNewest(S, n) = e
      BY <1>6, <1>7, <2>1
    <2>. QED
      BY <2>2
  <1>. QED
    BY <1>7, <1>8, FS_CardinalityType

\* The oldest of a set that is not empty is its first one.
LEMMA OldestIsMin ==
  ASSUME NEW S \in SUBSET Int, IsFiniteSet(S), S # {}
  PROVE  /\ 1 \in 1 .. Cardinality(S)
         /\ Min(S) = FromOldest(S, 1) /\ Min(S) \in S
  <1>1. 1 \in 1 .. Cardinality(S)
    BY FS_CardinalityType, FS_EmptySet
  <1>2. PICK m : m = FromOldest(S, 1)
    OBVIOUS
  <1>3. PICK L : L = {x \in S : x <= m}
    OBVIOUS
  <1>4. m \in S /\ Cardinality(L) = 1
    BY <1>1, <1>2, <1>3, Oldest
  <1>5. L \in SUBSET S /\ m \in L
    BY <1>3, <1>4
  <1>6. IsFiniteSet(L)
    BY <1>5, FS_Subset
  <1>7. PICK x : L = {x}
    BY <1>4, <1>6, FS_Singleton
  <1>8. \A y \in S : m =< y
    <2>1. \A y \in S : y <= m => y = m
      BY <1>3, <1>5, <1>7
    <2>. QED
      BY <1>4, <2>1
  <1>9. Min(S) \in S /\ \A y \in S : Min(S) =< y
    BY <1>4, <1>8 DEF Min
  <1>10. Min(S) = m
    <2>1. Min(S) =< m /\ m =< Min(S) /\ m \in Int /\ Min(S) \in Int
      BY <1>4, <1>8, <1>9
    <2>. QED
      BY <2>1
  <1>. QED
    BY <1>1, <1>2, <1>9, <1>10

\* Numbers without a gap, none when nothing is stored.
Interval(f) == \E a, b \in Int : DOMAIN f = a .. b

\* The first and the last number, and the middle when nothing is stored.
LEMMA Ends ==
  ASSUME NEW f, NEW a \in Int, NEW b \in Int, DOMAIN f = a .. b
  PROVE  /\ Highest(f) \in Int /\ Lowest(f) \in Int
         /\ a <= b => Highest(f) = b /\ Lowest(f) = a /\ DOMAIN f # {}
         /\ ~(a <= b) => Highest(f) = Mid /\ Lowest(f) = Mid /\ DOMAIN f = {}
  <1>1. Mid \in Int
    BY TimelineOK DEF Mid
  <1>2. CASE a <= b
    <2>1. DOMAIN f # {}
      BY <1>2
    <2>2. Min(DOMAIN f) = a /\ Max(DOMAIN f) = b
      BY <1>2, IntervalEnds
    <2>. QED
      BY <1>2, <2>1, <2>2 DEF Highest, Lowest
  <1>3. CASE ~(a <= b)
    <2>1. DOMAIN f = {}
      BY <1>3
    <2>. QED
      BY <1>1, <1>3, <2>1 DEF Highest, Lowest
  <1>. QED
    BY <1>2, <1>3

\* What is put behind the end and in front of the start are the events of S.
LEMMA BehindEvents ==
  ASSUME NEW f, Highest(f) \in Int, NEW S \in SUBSET Int, IsFiniteSet(S)
  PROVE  /\ Cardinality(S) \in Nat
         /\ DOMAIN Behind(f, S) = Highest(f) + 1 .. Highest(f) + Cardinality(S)
         /\ Range(Behind(f, S)) = S
         /\ S # {} => Cardinality(S) >= 1 /\ Min(S) \in S /\ Behind(f, S)[Highest(f) + 1] = Min(S)
  <1>1. PICK h \in Int, n \in Nat : h = Highest(f) /\ n = Cardinality(S)
    BY Oldest
  <1>2. PICK B : B = [i \in h + 1 .. h + n |-> FromOldest(S, i - h)]
    OBVIOUS
  <1>3. Behind(f, S) = B
    BY <1>1, <1>2 DEF Behind
  <1>4. ASSUME NEW i \in h + 1 .. h + n PROVE B[i] \in S
    <2>1. i - h \in 1 .. n
      OBVIOUS
    <2>. QED
      BY <1>1, <1>2, <2>1, Oldest
  <1>5. ASSUME NEW e \in S PROVE \E i \in h + 1 .. h + n : B[i] = e
    <2>1. PICK k \in 1 .. n : FromOldest(S, k) = e
      BY <1>1, Oldest
    <2>2. h + k \in h + 1 .. h + n /\ (h + k) - h = k
      OBVIOUS
    <2>. QED
      BY <1>2, <2>1, <2>2
  <1>6. Range(B) = S
    BY <1>2, <1>4, <1>5 DEF Range
  <1>7. ASSUME S # {} PROVE n >= 1 /\ Min(S) \in S /\ B[h + 1] = Min(S)
    <2>1. 1 \in 1 .. n /\ Min(S) = FromOldest(S, 1) /\ Min(S) \in S
      BY <1>1, <1>7, OldestIsMin
    <2>2. h + 1 \in h + 1 .. h + n /\ (h + 1) - h = 1
      BY <2>1
    <2>. QED
      BY <1>2, <2>1, <2>2
  <1>. QED
    BY <1>1, <1>2, <1>3, <1>6, <1>7

\* And in front of the start.
LEMMA BeforeEvents ==
  ASSUME NEW f, Lowest(f) \in Int, NEW S \in SUBSET Int, IsFiniteSet(S)
  PROVE  /\ Cardinality(S) \in Nat
         /\ DOMAIN Before(f, S) = Lowest(f) - Cardinality(S) .. Lowest(f) - 1
         /\ Range(Before(f, S)) = S
  <1>1. PICK l \in Int, n \in Nat : l = Lowest(f) /\ n = Cardinality(S)
    BY Newest
  <1>2. PICK B : B = [i \in l - n .. l - 1 |-> FromNewest(S, l - i)]
    OBVIOUS
  <1>3. Before(f, S) = B
    BY <1>1, <1>2 DEF Before
  <1>4. ASSUME NEW i \in l - n .. l - 1 PROVE B[i] \in S
    <2>1. l - i \in 1 .. n
      OBVIOUS
    <2>. QED
      BY <1>1, <1>2, <2>1, Newest
  <1>5. ASSUME NEW e \in S PROVE \E i \in l - n .. l - 1 : B[i] = e
    <2>1. PICK k \in 1 .. n : FromNewest(S, k) = e
      BY <1>1, Newest
    <2>2. l - k \in l - n .. l - 1 /\ l - (l - k) = k
      OBVIOUS
    <2>. QED
      BY <1>2, <2>1, <2>2
  <1>6. Range(B) = S
    BY <1>2, <1>4, <1>5 DEF Range
  <1>. QED
    BY <1>1, <1>2, <1>3, <1>6

\* Two functions put together hold what either holds.
LEMMA JoinEvents ==
  ASSUME NEW f, NEW g, DOMAIN f \cap DOMAIN g = {}
  PROVE  /\ DOMAIN Join(f, g) = DOMAIN f \cup DOMAIN g
         /\ Range(Join(f, g)) = Range(f) \cup Range(g)
         /\ \A i \in DOMAIN f : Join(f, g)[i] = f[i]
         /\ \A i \in DOMAIN g : Join(f, g)[i] = g[i]
  <1>1. /\ DOMAIN Join(f, g) = DOMAIN f \cup DOMAIN g
        /\ \A i \in DOMAIN f : Join(f, g)[i] = f[i]
        /\ \A i \in DOMAIN g : Join(f, g)[i] = g[i]
    BY DEF Join
  <1>. QED
    BY <1>1 DEF Range

\* Numbers put behind the end of f and in front of its start leave no gap; the
\* token of the room is the one of the lowest number.
LEMMA Appended ==
  ASSUME NEW f, Interval(f), NEW g, NEW n \in Nat, DOMAIN g = Highest(f) + 1 .. Highest(f) + n
  PROVE  /\ Highest(f) \in Int
         /\ DOMAIN g \cap DOMAIN f = {}
         /\ Interval(Join(g, f))
         /\ DOMAIN f # {} => DOMAIN Join(g, f) # {} /\ Token(Join(g, f)) = Token(f)
         /\ DOMAIN f = {} /\ n >= 1 =>
              DOMAIN Join(g, f) # {} /\ Token(Join(g, f)) = g[Highest(f) + 1].tok
  <1>1. PICK a \in Int, b \in Int : DOMAIN f = a .. b
    BY DEF Interval
  <1>2. PICK h \in Int : h = Highest(f)
    BY <1>1, Ends
  <1>3. PICK J : J = Join(g, f)
    OBVIOUS
  <1>4. DOMAIN g = h + 1 .. h + n
    BY <1>2
  <1>5. CASE a <= b
    <2>1. h = b /\ DOMAIN f # {}
      BY <1>1, <1>2, <1>5, Ends
    <2>2. (h + 1 .. h + n) \cap (a .. b) = {} /\ (h + 1 .. h + n) \cup (a .. b) = a .. b + n
      BY <1>5, <2>1
    <2>3. DOMAIN g \cap DOMAIN f = {}
      BY <1>1, <1>4, <2>2
    <2>4. DOMAIN Join(g, f) = DOMAIN g \cup DOMAIN f
      BY <2>3, JoinEvents
    <2>5. \A i \in DOMAIN f : Join(g, f)[i] = f[i]
      BY <2>3, JoinEvents
    <2>6. DOMAIN J = DOMAIN g \cup DOMAIN f /\ \A i \in DOMAIN f : J[i] = f[i]
      BY <1>3, <2>4, <2>5
    <2>7. DOMAIN J = a .. b + n
      BY <1>1, <1>4, <2>2, <2>6
    <2>8. b + n \in Int /\ a <= b + n /\ a \in a .. b /\ a \in a .. b + n
      BY <1>5
    <2>9. Min(DOMAIN f) = a /\ Min(DOMAIN J) = a
      BY <1>1, <1>5, <2>7, <2>8, IntervalEnds
    <2>10. Interval(J) /\ DOMAIN J # {}
      BY <2>7, <2>8 DEF Interval
    <2>11. Token(J) = Token(f)
      BY <1>1, <2>1, <2>8, <2>9, <2>10, <2>6 DEF Token
    <2>. QED
      BY <1>2, <1>3, <2>1, <2>3, <2>10, <2>11
  <1>6. CASE ~(a <= b)
    <2>1. DOMAIN f = {}
      BY <1>1, <1>6
    <2>2. DOMAIN g \cap DOMAIN f = {}
      BY <2>1
    <2>3. DOMAIN J = h + 1 .. h + n /\ \A i \in DOMAIN g : J[i] = g[i]
      BY <1>3, <1>4, <2>1, <2>2, JoinEvents
    <2>4. h + 1 \in Int /\ h + n \in Int
      OBVIOUS
    <2>5. Interval(J)
      BY <2>3, <2>4 DEF Interval
    <2>6. ASSUME n >= 1 PROVE DOMAIN J # {} /\ Token(J) = g[h + 1].tok
      <3>1. h + 1 <= h + n /\ h + 1 \in h + 1 .. h + n
        BY <2>6
      <3>2. Min(DOMAIN J) = h + 1
        BY <2>3, <2>4, <3>1, IntervalEnds
      <3>3. DOMAIN J # {} /\ J[h + 1] = g[h + 1]
        BY <1>4, <2>3, <3>1
      <3>. QED
        BY <3>2, <3>3 DEF Token
    <2>. QED
      BY <1>2, <1>3, <2>1, <2>2, <2>5, <2>6
  <1>. QED
    BY <1>5, <1>6

LEMMA Prepended ==
  ASSUME NEW f, Interval(f), NEW g, NEW n \in Nat, DOMAIN g = Lowest(f) - n .. Lowest(f) - 1
  PROVE  /\ Lowest(f) \in Int
         /\ DOMAIN g \cap DOMAIN f = {}
         /\ Interval(Join(g, f))
         /\ DOMAIN f # {} => DOMAIN Join(g, f) # {} /\ Min(DOMAIN Join(g, f)) = Lowest(f) - n
  <1>1. PICK a \in Int, b \in Int : DOMAIN f = a .. b
    BY DEF Interval
  <1>2. PICK l \in Int : l = Lowest(f)
    BY <1>1, Ends
  <1>3. PICK J : J = Join(g, f)
    OBVIOUS
  <1>4. DOMAIN g = l - n .. l - 1
    BY <1>2
  <1>5. CASE a <= b
    <2>1. l = a /\ DOMAIN f # {}
      BY <1>1, <1>2, <1>5, Ends
    <2>2. (l - n .. l - 1) \cap (a .. b) = {} /\ (l - n .. l - 1) \cup (a .. b) = l - n .. b
      BY <1>5, <2>1
    <2>3. DOMAIN g \cap DOMAIN f = {}
      BY <1>1, <1>4, <2>2
    <2>4. DOMAIN J = DOMAIN g \cup DOMAIN f
      BY <1>3, <2>3, JoinEvents
    <2>5. DOMAIN J = l - n .. b
      BY <1>1, <1>4, <2>2, <2>4
    <2>6. l - n \in Int /\ l - n <= b /\ l - n \in l - n .. b
      BY <1>5, <2>1
    <2>7. Min(DOMAIN J) = l - n
      BY <2>5, <2>6, IntervalEnds
    <2>8. Interval(J) /\ DOMAIN J # {}
      BY <2>5, <2>6 DEF Interval
    <2>. QED
      BY <1>2, <1>3, <2>3, <2>7, <2>8
  <1>6. CASE ~(a <= b)
    <2>1. DOMAIN f = {}
      BY <1>1, <1>6
    <2>2. DOMAIN g \cap DOMAIN f = {}
      BY <2>1
    <2>3. DOMAIN J = DOMAIN g \cup DOMAIN f
      BY <1>3, <2>2, JoinEvents
    <2>4. DOMAIN J = l - n .. l - 1
      BY <1>4, <2>1, <2>3
    <2>5. l - n \in Int /\ l - 1 \in Int
      OBVIOUS
    <2>6. Interval(J)
      BY <2>4, <2>5 DEF Interval
    <2>. QED
      BY <1>2, <1>3, <2>1, <2>2, <2>6
  <1>. QED
    BY <1>5, <1>6

\* Rows put behind and in front of rows without a gap.
LEMMA RowsBehind ==
  ASSUME NEW f, Interval(f), NEW S \in SUBSET Int, IsFiniteSet(S)
  PROVE  Interval(Join(Behind(f, S), f)) /\ Range(Join(Behind(f, S), f)) = S \cup Range(f)
  <1>1. PICK B : B = Behind(f, S)
    OBVIOUS
  <1>2. PICK a \in Int, b \in Int : DOMAIN f = a .. b
    BY DEF Interval
  <1>3. Highest(f) \in Int
    BY <1>2, Ends
  <1>4. PICK n \in Nat : DOMAIN B = Highest(f) + 1 .. Highest(f) + n
    BY <1>1, <1>3, BehindEvents
  <1>5. Range(B) = S
    BY <1>1, <1>3, BehindEvents
  <1>6. DOMAIN B \cap DOMAIN f = {} /\ Interval(Join(B, f))
    BY <1>4, Appended
  <1>. QED
    BY <1>1, <1>5, <1>6, JoinEvents

LEMMA RowsBefore ==
  ASSUME NEW f, Interval(f), NEW S \in SUBSET Int, IsFiniteSet(S)
  PROVE  Interval(Join(Before(f, S), f)) /\ Range(Join(Before(f, S), f)) = S \cup Range(f)
  <1>1. PICK B : B = Before(f, S)
    OBVIOUS
  <1>2. PICK a \in Int, b \in Int : DOMAIN f = a .. b
    BY DEF Interval
  <1>3. Lowest(f) \in Int
    BY <1>2, Ends
  <1>4. PICK n \in Nat : DOMAIN B = Lowest(f) - n .. Lowest(f) - 1
    BY <1>1, <1>3, BeforeEvents
  <1>5. Range(B) = S
    BY <1>1, <1>3, BeforeEvents
  <1>6. DOMAIN B \cap DOMAIN f = {} /\ Interval(Join(B, f))
    BY <1>4, Prepended
  <1>. QED
    BY <1>1, <1>5, <1>6, JoinEvents

------------------------------------------------------------------------------

\* Neither a limited sync between the check of a page and its slot, nor a
\* deletion.
Quiet == Undisturbed({"race", "cleanup"})

\* The events that get a number when they are stored, and the page the server
\* has for position t.
Counts(e) == kind[e] # "redaction" /\ kind[e] # "unseen"
Low(t)    == Max({0, t - PageSize})
PageAt(t) == [events |-> Seen(Low(t) + 1, t), end |-> Low(t)]

\* Before the first answer of /sync nothing is stored or asked for; after it
\* the order database has an entry, which carries the token.
Started ==
  IF synced = 0 THEN /\ DOMAIN order = {} /\ DOMAIN msgs = {} /\ known = {}
                     /\ requests = {} /\ answers = <<>>
                ELSE DOMAIN order # {}

\* Both databases are numbered without a gap.
Numbered == Interval(order) /\ Interval(msgs)

\* What is stored are the events between the token of the lowest entry and
\* the end of the last sync.
Stretch ==
  synced # 0 => /\ Token(order) \in 0 .. synced
                /\ known = {e \in Token(order) + 1 .. synced : Counts(e)}

\* The rows are the stored events that are shown.
Rowed == Range(msgs) = {e \in known : IsRow(e)}

\* A page on its way to the slot is the one in front of the stored events, or
\* one that is stored already; behind the former there are only copies of it.
Fits(i) == answers[i] = PageAt(Token(order)) \/ answers[i].end = Token(order)

PagesFit ==
  /\ answers \in Seq([events : SUBSET LogEvents, end : Nat])
  /\ \A i \in 1 .. Len(answers) : Fits(i)
  /\ \A i, j \in 1 .. Len(answers) :
       i < j /\ answers[i].end # Token(order) => answers[j] = PageAt(Token(order))

WindowInv ==
  /\ pos \in 0 .. MaxPos /\ synced \in 0 .. pos
  /\ Quiet => Started /\ Numbered /\ Stretch /\ Rowed /\ PagesFit

USE TimelineOK DEF LogEvents

\* An empty cache is an empty stretch.
LEMMA WindowStart == WindowInit => WindowInv
  <1> SUFFICES ASSUME WindowInit PROVE WindowInv
    OBVIOUS
  <1>1. pos = 0 /\ synced = 0 /\ order = Empty /\ known = {} /\ msgs = Empty
        /\ requests = {} /\ answers = <<>>
    BY DEF WindowInit
  <1>2. DOMAIN Empty = {}
    BY DEF Empty
  <1>3. Started /\ Stretch
    BY <1>1, <1>2 DEF Started, Stretch
  <1>4. Interval(Empty)
    <2>1. 1 .. 0 = {} /\ 1 \in Int /\ 0 \in Int
      OBVIOUS
    <2>. QED
      BY <1>2, <2>1 DEF Interval
  <1>5. Rowed
    <2>1. Range(Empty) = {}
      BY <1>2 DEF Range
    <2>. QED
      BY <1>1, <2>1 DEF Rowed
  <1>6. PagesFit
    BY <1>1 DEF PagesFit
  <1>. QED
    BY <1>1, <1>3, <1>4, <1>5, <1>6 DEF WindowInv, Numbered

\* The page in front of position t.
LEMMA PageEnd ==
  ASSUME NEW t \in Nat
  PROVE  Low(t) \in Nat /\ Low(t) <= t
  <1>1. PICK u \in Int : u = t - PageSize
    OBVIOUS
  <1>2. PICK S : S = {0, u}
    OBVIOUS
  <1>3. \E x \in S : \A y \in S : x >= y
    <2>1. CASE u >= 0
      BY <1>2, <2>1
    <2>2. CASE ~(u >= 0)
      BY <1>2, <2>2
    <2>. QED
      BY <2>1, <2>2
  <1>4. Max(S) \in S /\ \A y \in S : Max(S) >= y
    BY <1>3 DEF Max
  <1>5. Max(S) >= 0 /\ (Max(S) = 0 \/ Max(S) = u)
    BY <1>2, <1>4
  <1>. QED
    BY <1>1, <1>2, <1>5 DEF Low

\* What does not change with the databases: the kinds of the events, and so
\* the pages of the server.
LEMMA SamePages ==
  ASSUME kind' = kind
  PROVE  /\ \A e : Counts(e)' = Counts(e) /\ IsRow(e)' = IsRow(e)
         /\ \A t : PageAt(t)' = PageAt(t)
  BY DEF Counts, IsRow, PageAt, Low, Seen

\* The rows have no gap.
LEMMA RowsFollow == WindowInv => NoGapUndisturbed
  <1> SUFFICES ASSUME WindowInv, Quiet,
                      NEW i \in DOMAIN msgs, NEW j \in DOMAIN msgs, NEW e \in LogEvents,
                      msgs[i] < e, e < msgs[j], IsRow(e)
               PROVE  \E k \in DOMAIN msgs : msgs[k] = e
    BY DEF NoGapUndisturbed, NoGap, Quiet
  <1>1. synced # 0
    BY DEF WindowInv, Started
  <1>2. /\ Token(order) \in 0 .. synced /\ synced \in Nat
        /\ known = {d \in Token(order) + 1 .. synced : Counts(d)}
    BY <1>1 DEF WindowInv, Stretch
  <1>3. Range(msgs) = {d \in known : IsRow(d)}
    BY DEF WindowInv, Rowed
  <1>4. msgs[i] \in known /\ msgs[j] \in known
    BY <1>3 DEF Range
  <1>5. e \in Token(order) + 1 .. synced
    BY <1>2, <1>4
  <1>6. e \in Range(msgs)
    BY <1>2, <1>3, <1>5 DEF IsRow, Counts
  <1>. QED
    BY <1>6 DEF Range

\* The events of an answer of /sync that get a number.
LEMMA Fresh ==
  ASSUME NEW a \in Nat, NEW n \in Nat, NEW old, \A e \in old : e < a
  PROVE  /\ New(Seen(a, n), old) = {e \in a .. n : Counts(e)}
         /\ {e \in Seen(a, n) : kind[e] # "redaction"} = {e \in a .. n : Counts(e)}
         /\ IsFiniteSet({e \in a .. n : Counts(e)})
  <1>1. \A e \in a .. n : e \notin old
    OBVIOUS
  <1>2. IsFiniteSet(a .. n)
    BY FS_Interval
  <1>. QED
    BY <1>1, <1>2, FS_Subset DEF New, Seen, Counts

\* saveTimelineMessages: the token is the one of the first entry when nothing
\* was stored, and stays otherwise; the rows follow.
LEMMA SyncKeeps ==
  ASSUME WindowInv,
         NEW limited \in BOOLEAN, NEW a \in LogEvents, NEW n \in LogEvents,
         SyncWindow(limited, a, n)
  PROVE  WindowInv'
  <1>1. /\ a \in synced + 1 .. pos /\ n \in a .. pos
        /\ limited \/ a = synced + 1
        /\ synced' = n /\ pos' = pos /\ kind' = kind
        /\ requests' = requests /\ answers' = answers /\ happening' = happening
    BY DEF SyncWindow, pages
  <1>2. pos \in 0 .. MaxPos /\ synced \in 0 .. pos /\ MaxPos \in Nat
    BY DEF WindowInv
  <1>3. pos' \in 0 .. MaxPos /\ synced' \in 0 .. pos'
    BY <1>1, <1>2
  <1>4. SUFFICES ASSUME Quiet PROVE (Started /\ Numbered /\ Stretch /\ Rowed /\ PagesFit)'
    BY <1>1, <1>3 DEF WindowInv, Quiet, Undisturbed
  <1>5. Started /\ Interval(order) /\ Interval(msgs) /\ Stretch /\ Rowed /\ PagesFit
    BY <1>4 DEF WindowInv, Numbered
  <1>6. PICK base, stay, old :
          /\ base = Remaining(limited, order, Empty)
          /\ stay = Remaining(limited, msgs, Empty)
          /\ old = Remaining(limited, known, {})
    OBVIOUS
  <1>7. PICK new : new = New(Seen(a, n), old)
    OBVIOUS
  <1>8. PICK added : added = Behind(base, new)
    OBVIOUS
  <1>9. PICK head : head = {e \in Seen(a, n) : kind[e] # "redaction"}
    OBVIOUS
  <1>10. PICK g : g = [i \in DOMAIN added |->
                         Entry(added[i], IF added[i] = Min(head) THEN a - 1 ELSE NoTok)]
    OBVIOUS
  <1>11. order' = Join(g, base) /\ known' = old \cup new
    BY <1>6, <1>7, <1>8, <1>9, <1>10 DEF SyncWindow
  <1>12. msgs' = Join(Behind(stay, {e \in new : IsRow(e)}), stay)
    BY <1>6, <1>7 DEF SyncWindow
  <1>13. /\ limited \/ synced = 0 => head # {}
         /\ limited /\ synced # 0 => requests = {} /\ answers = <<>>
    <2>1. ~Happens("race")
      BY <1>4 DEF Quiet, Undisturbed, Happens
    <2>. QED
      BY <1>9, <2>1 DEF SyncWindow
  <1>14. a \in Nat /\ n \in Nat /\ synced \in Nat /\ synced < a /\ a <= n
    BY <1>1, <1>2
  <1>15. \A e \in old : e < a
    <2>1. CASE limited \/ synced = 0
      BY <1>5, <1>6, <2>1 DEF Remaining, Started
    <2>2. CASE ~limited /\ synced # 0
      BY <1>5, <1>6, <1>14, <2>2 DEF Remaining, Stretch
    <2>. QED
      BY <2>1, <2>2
  <1>16. new = {e \in a .. n : Counts(e)} /\ head = new /\ IsFiniteSet(new) /\ new \in SUBSET Int
    <2>1. /\ New(Seen(a, n), old) = {e \in a .. n : Counts(e)}
          /\ {e \in Seen(a, n) : kind[e] # "redaction"} = {e \in a .. n : Counts(e)}
          /\ IsFiniteSet({e \in a .. n : Counts(e)})
      BY <1>14, <1>15, Fresh
    <2>2. {e \in a .. n : Counts(e)} \in SUBSET Int
      BY <1>14
    <2>. QED
      BY <1>7, <1>9, <2>1, <2>2
  <1>17. PICK R : R = {e \in new : IsRow(e)}
    OBVIOUS
  <1>18. R \in SUBSET Int /\ IsFiniteSet(R)
    BY <1>16, <1>17, FS_Subset
  <1>19. /\ \A e : Counts(e)' = Counts(e) /\ IsRow(e)' = IsRow(e)
         /\ \A t : PageAt(t)' = PageAt(t)
    BY <1>1, SamePages
  <1>20. ASSUME Interval(base), Interval(stay)
         PROVE  /\ Interval(order') /\ Interval(msgs')
                /\ Range(msgs') = R \cup Range(stay)
                /\ DOMAIN base # {} => DOMAIN order' # {} /\ Token(order') = Token(base)
                /\ DOMAIN base = {} /\ new # {} => DOMAIN order' # {} /\ Token(order') = a - 1
    <2>1. Highest(base) \in Int
      <3>1. PICK c \in Int, d \in Int : DOMAIN base = c .. d
        BY <1>20 DEF Interval
      <3>. QED
        BY <3>1, Ends
    <2>2. PICK h \in Int, k \in Nat : h = Highest(base) /\ k = Cardinality(new)
      BY <1>16, <2>1, BehindEvents
    <2>3. DOMAIN added = h + 1 .. h + k
      BY <1>8, <1>16, <2>1, <2>2, BehindEvents
    <2>4. new # {} => k >= 1 /\ added[h + 1] = Min(new)
      BY <1>8, <1>16, <2>1, <2>2, BehindEvents
    <2>5. DOMAIN g = h + 1 .. h + k
      BY <1>10, <2>3
    <2>6. new # {} => g[h + 1].tok = a - 1
      <3>1. new # {} => h + 1 \in DOMAIN added
        BY <2>3, <2>4
      <3>. QED
        BY <1>10, <1>16, <2>4, <3>1 DEF Entry
    <2>7. /\ Interval(Join(g, base))
          /\ DOMAIN base # {} => DOMAIN Join(g, base) # {} /\ Token(Join(g, base)) = Token(base)
          /\ DOMAIN base = {} /\ k >= 1 =>
               DOMAIN Join(g, base) # {} /\ Token(Join(g, base)) = g[h + 1].tok
      BY <1>20, <2>2, <2>5, Appended
    <2>8. Interval(msgs') /\ Range(msgs') = R \cup Range(stay)
      BY <1>12, <1>17, <1>18, <1>20, RowsBehind
    <2>. QED
      BY <1>11, <2>4, <2>6, <2>7, <2>8
  <1>21. CASE limited \/ synced = 0
    <2>1. DOMAIN base = {} /\ DOMAIN stay = {} /\ old = {}
      BY <1>5, <1>6, <1>21 DEF Remaining, Started, Empty
    <2>2. Interval(base) /\ Interval(stay)
      <3>1. 1 .. 0 = {} /\ 1 \in Int /\ 0 \in Int
        OBVIOUS
      <3>. QED
        BY <2>1, <3>1 DEF Interval
    <2>3. new # {}
      BY <1>13, <1>16, <1>21
    <2>4. DOMAIN order' # {} /\ Token(order') = a - 1
      BY <1>20, <2>1, <2>2, <2>3
    <2>5. Interval(order') /\ Interval(msgs') /\ Range(msgs') = R \cup Range(stay)
      BY <1>20, <2>2
    <2>6. known' = new
      BY <1>11, <2>1
    <2>7. requests = {} /\ answers = <<>>
      BY <1>5, <1>13, <1>21 DEF Started
    <2>8. Stretch'
      <3>1. a - 1 \in 0 .. n /\ (a - 1) + 1 = a
        BY <1>14
      <3>. QED
        BY <1>1, <1>16, <1>19, <2>4, <2>6, <3>1 DEF Stretch, Token, Counts
    <2>9. Rowed'
      <3>1. Range(stay) = {}
        BY <2>1 DEF Range
      <3>. QED
        BY <1>17, <1>19, <2>5, <2>6, <3>1 DEF Rowed
    <2>10. PagesFit'
      BY <1>1, <2>7 DEF PagesFit
    <2>. QED
      BY <1>1, <1>14, <2>4, <2>5, <2>8, <2>9, <2>10 DEF Started, Numbered
  <1>22. CASE ~limited /\ synced # 0
    <2>1. base = order /\ stay = msgs /\ old = known /\ a = synced + 1
      BY <1>1, <1>6, <1>22 DEF Remaining
    <2>2. DOMAIN order # {}
      BY <1>5, <1>22 DEF Started
    <2>3. DOMAIN order' # {} /\ Token(order') = Token(order)
      BY <1>5, <1>20, <2>1, <2>2
    <2>4. Interval(order') /\ Interval(msgs') /\ Range(msgs') = R \cup Range(msgs)
      BY <1>5, <1>20, <2>1
    <2>5. /\ Token(order) \in 0 .. synced
          /\ known = {e \in Token(order) + 1 .. synced : Counts(e)}
      BY <1>5, <1>22 DEF Stretch
    <2>6. Token(order)' = Token(order)
      BY <2>3 DEF Token
    <2>7. Stretch'
      <3>1. PICK t \in Int : t = Token(order)
        BY <2>5
      <3>2. t \in 0 .. n
        BY <1>14, <2>5, <3>1
      <3>3. (t + 1 .. synced) \cup (synced + 1 .. n) = t + 1 .. n
        BY <1>14, <2>5, <3>1
      <3>4. known' = {e \in t + 1 .. n : Counts(e)}
        BY <1>11, <1>16, <2>1, <2>5, <3>1, <3>3
      <3>. QED
        BY <1>1, <1>19, <2>6, <3>1, <3>2, <3>4 DEF Stretch, Counts
    <2>8. Rowed'
      BY <1>5, <1>11, <1>17, <1>19, <2>1, <2>4 DEF Rowed
    <2>9. PagesFit'
      BY <1>1, <1>5, <1>19, <2>6 DEF PagesFit, Fits, PageAt, Low, Seen
    <2>. QED
      BY <1>1, <1>14, <2>3, <2>4, <2>7, <2>8, <2>9 DEF Started, Numbered
  <1>. QED
    BY <1>21, <1>22

\* Only the token of the databases and the pages matter to what is under way.
LEMMA SameStore ==
  ASSUME WindowInv, UNCHANGED <<kind, synced, order, known, msgs, happening>>,
         pos' \in 0 .. MaxPos, synced' \in 0 .. pos',
         synced = 0 => requests' = {} /\ answers' = <<>>,
         Quiet => PagesFit'
  PROVE  WindowInv'
  <1>1. SUFFICES ASSUME Quiet PROVE (Started /\ Numbered /\ Stretch /\ Rowed /\ PagesFit)'
    BY DEF WindowInv, Quiet, Undisturbed
  <1>2. Started /\ Numbered /\ Stretch /\ Rowed
    BY <1>1 DEF WindowInv
  <1>3. Token(order)' = Token(order) /\ \A e : Counts(e)' = Counts(e) /\ IsRow(e)' = IsRow(e)
    BY SamePages DEF Token
  <1>4. Started'
    BY <1>2 DEF Started
  <1>5. Numbered' /\ Rowed'
    BY <1>2, <1>3 DEF Numbered, Rowed
  <1>6. Stretch'
    BY <1>2, <1>3 DEF Stretch, Counts
  <1>. QED
    BY <1>1, <1>4, <1>5, <1>6

\* The pages that fit still do when the databases and the pages are as before.
LEMMA SameFit ==
  ASSUME PagesFit, UNCHANGED <<kind, order, answers>>
  PROVE  PagesFit'
  <1>1. Token(order)' = Token(order) /\ \A t : PageAt(t)' = PageAt(t)
    BY SamePages DEF Token
  <1>. QED
    BY <1>1 DEF PagesFit, Fits, PageAt, Low, Seen

\* Asking for a page changes nothing that is stored.
LEMMA FetchKeeps == WindowInv /\ FetchMore => WindowInv'
  <1> SUFFICES ASSUME WindowInv, FetchMore PROVE WindowInv'
    OBVIOUS
  <1>1. /\ UNCHANGED <<kind, pos, synced, order, known, msgs, answers, happening>>
        /\ synced # 0
    BY DEF FetchMore, orderDbs
  <1>2. pos' \in 0 .. MaxPos /\ synced' \in 0 .. pos'
    BY <1>1 DEF WindowInv
  <1>3. Quiet => PagesFit'
    BY <1>1, SameFit DEF WindowInv
  <1>. QED
    BY <1>1, <1>2, <1>3, SameStore

\* A page that is queued is the one in front of the stored events, for its
\* token is compared with the one of the database.
LEMMA AnswerKeeps ==
  ASSUME WindowInv, NEW r \in requests, PageAnswered(r)
  PROVE  WindowInv'
  <1>1. /\ UNCHANGED <<kind, pos, synced, order, known, msgs, happening>>
        /\ requests' = requests \ {r}
        /\ answers' = answers \/ (TokenUnchanged(r) /\ answers' = Append(answers, PageOf(r)))
    <2>1. UNCHANGED <<kind, pos, synced, order, known, msgs, happening>>
      BY DEF PageAnswered, orderDbs
    <2>2. requests' = requests \ {r}
      BY DEF PageAnswered
    <2>3. answers' = answers \/ (TokenUnchanged(r) /\ answers' = Append(answers, PageOf(r)))
      BY DEF PageAnswered
    <2>. QED
      BY <2>1, <2>2, <2>3
  <1>2. pos' \in 0 .. MaxPos /\ synced' \in 0 .. pos'
    BY <1>1 DEF WindowInv
  <1>3. SUFFICES ASSUME Quiet PROVE PagesFit' /\ synced # 0
    <2>1. CASE Quiet
      BY <1>1, <1>2, <1>3, <2>1, SameStore
    <2>2. CASE ~Quiet
      BY <1>1, <1>2, <2>2 DEF WindowInv, Quiet, Undisturbed
    <2>. QED
      BY <2>1, <2>2
  <1>4. synced # 0
    BY <1>3 DEF WindowInv, Started
  <1>5. PagesFit /\ Token(order) \in 0 .. synced /\ synced \in 0 .. pos /\ pos \in 0 .. MaxPos
    BY <1>3, <1>4 DEF WindowInv, Stretch
  <1>6. CASE answers' = answers
    BY <1>1, <1>4, <1>5, <1>6, SameFit
  <1>7. CASE TokenUnchanged(r) /\ answers' = Append(answers, PageOf(r))
    <2>1. PICK t : t = Token(order)
      OBVIOUS
    <2>2. t \in Nat /\ t <= MaxPos /\ r.tok = t /\ t # NoTok
      BY <1>5, <1>7, <2>1 DEF TokenUnchanged, NoTok
    <2>3. PICK p : p = PageAt(t)
      OBVIOUS
    <2>4. PageOf(r) = p
      BY <2>2, <2>3 DEF PageOf, PageAt, Low
    <2>5. p \in [events : SUBSET LogEvents, end : Nat]
      <3>1. Low(t) \in Nat /\ Low(t) <= t
        BY <2>2, PageEnd
      <3>2. Seen(Low(t) + 1, t) \in SUBSET LogEvents
        BY <2>2, <3>1 DEF Seen
      <3>. QED
        BY <2>3, <3>1, <3>2 DEF PageAt
    <2>6. PICK l \in Nat : l = Len(answers)
      BY <1>5 DEF PagesFit
    <2>7. /\ answers \in Seq([events : SUBSET LogEvents, end : Nat])
          /\ \A i \in 1 .. l : answers[i] = PageAt(t) \/ answers[i].end = t
          /\ \A i, j \in 1 .. l : i < j /\ answers[i].end # t => answers[j] = PageAt(t)
      BY <1>5, <2>1, <2>6 DEF PagesFit, Fits
    <2>8. /\ answers' \in Seq([events : SUBSET LogEvents, end : Nat])
          /\ Len(answers') = l + 1 /\ answers'[l + 1] = p
          /\ \A i \in 1 .. l : answers'[i] = answers[i]
      BY <1>7, <2>4, <2>5, <2>6, <2>7
    <2>9. \A i \in 1 .. l + 1 : i \in 1 .. l \/ i = l + 1
      OBVIOUS
    <2>10. \A i \in 1 .. l + 1 : answers'[i] = PageAt(t) \/ answers'[i].end = t
      BY <2>3, <2>7, <2>8, <2>9
    <2>11. \A i, j \in 1 .. l + 1 : i < j /\ answers'[i].end # t => answers'[j] = PageAt(t)
      <3> SUFFICES ASSUME NEW i \in 1 .. l + 1, NEW j \in 1 .. l + 1, i < j, answers'[i].end # t
                   PROVE  answers'[j] = PageAt(t)
        OBVIOUS
      <3>1. i \in 1 .. l
        OBVIOUS
      <3>2. CASE j \in 1 .. l
        BY <2>7, <2>8, <3>1, <3>2
      <3>3. CASE j = l + 1
        BY <2>3, <2>8, <3>3
      <3>. QED
        BY <2>9, <3>2, <3>3
    <2>12. Token(order)' = t /\ PageAt(t)' = PageAt(t)
      BY <1>1, <2>1, SamePages DEF Token, PageAt, Low, Seen
    <2>. QED
      BY <1>4, <2>8, <2>10, <2>11, <2>12 DEF PagesFit, Fits, PageAt, Low, Seen
  <1>. QED
    BY <1>1, <1>6, <1>7

\* The timelines are created again: what was under way is forgotten.
LEMMA RestartKeeps == WindowInv /\ RestartWindow => WindowInv'
  <1> SUFFICES ASSUME WindowInv, RestartWindow PROVE WindowInv'
    OBVIOUS
  <1>1. /\ UNCHANGED <<kind, pos, synced, order, known, msgs, happening>>
        /\ requests' = {} /\ answers' = <<>>
    BY DEF RestartWindow, orderDbs
  <1>2. pos' \in 0 .. MaxPos /\ synced' \in 0 .. pos'
    BY <1>1 DEF WindowInv
  <1>3. PagesFit'
    BY <1>1 DEF PagesFit
  <1>. QED
    BY <1>1, <1>2, <1>3, SameStore

\* An event in the room is in no page and no sync yet.
LEMMA SendKeeps == WindowInv /\ Send => WindowInv'
  <1> SUFFICES ASSUME WindowInv, Send PROVE WindowInv'
    OBVIOUS
  <1>1. /\ UNCHANGED <<kind, synced, order, known, msgs, requests, answers, happening>>
        /\ pos < MaxPos /\ pos' = pos + 1
    BY DEF Send, orderDbs, pages
  <1>2. pos' \in 0 .. MaxPos /\ synced' \in 0 .. pos'
    BY <1>1 DEF WindowInv
  <1>3. Quiet => PagesFit'
    BY <1>1, SameFit DEF WindowInv
  <1>4. synced = 0 => (requests' = {} /\ answers' = <<>>) \/ ~Quiet
    BY <1>1 DEF WindowInv, Started
  <1>5. CASE Quiet
    BY <1>1, <1>2, <1>3, <1>4, <1>5, SameStore
  <1>6. CASE ~Quiet
    BY <1>1, <1>2, <1>6 DEF WindowInv, Quiet, Undisturbed
  <1>. QED
    BY <1>5, <1>6

\* A deletion is one of the disturbances.
LEMMA CleanupKeeps == WindowInv /\ Cleanup => WindowInv'
  <1> SUFFICES ASSUME WindowInv, Cleanup PROVE WindowInv'
    OBVIOUS
  <1>1. ~Quiet
    BY DEF Cleanup, Happens, Quiet, Undisturbed
  <1>2. UNCHANGED <<pos, synced, happening>>
    BY DEF Cleanup
  <1>. QED
    BY <1>1, <1>2 DEF WindowInv, Quiet, Undisturbed

\* The events of the page in front of the stored ones are all new.
LEMMA PageIsNew ==
  ASSUME NEW t \in Nat, NEW s \in Nat, t <= s, known = {e \in t + 1 .. s : Counts(e)},
         Low(t) <= t, Low(t) \in Nat
  PROVE  /\ New(PageAt(t).events, known) = {e \in Low(t) + 1 .. t : Counts(e)}
         /\ IsFiniteSet({e \in Low(t) + 1 .. t : Counts(e)})
         /\ {e \in Low(t) + 1 .. t : Counts(e)} \in SUBSET Int
         /\ known \cup {e \in Low(t) + 1 .. t : Counts(e)} = {e \in Low(t) + 1 .. s : Counts(e)}
         /\ PageAt(t).events = {} => {e \in Low(t) + 1 .. t : Counts(e)} = {}
  <1>1. PICK m \in Nat : m = Low(t)
    OBVIOUS
  <1>2. PICK E : E = {e \in m + 1 .. t : Counts(e)}
    OBVIOUS
  <1>3. PageAt(t).events = {e \in m + 1 .. t : kind[e] # "unseen"}
    BY <1>1 DEF PageAt, Seen
  <1>4. \A e \in m + 1 .. t : e \notin known
    OBVIOUS
  <1>5. New(PageAt(t).events, known) = E
    BY <1>2, <1>3, <1>4 DEF New, Counts
  <1>6. IsFiniteSet(E) /\ E \in SUBSET Int
    <2>1. m + 1 \in Int /\ t \in Int
      OBVIOUS
    <2>2. IsFiniteSet(m + 1 .. t)
      BY <2>1, FS_Interval
    <2>3. E \in SUBSET (m + 1 .. t)
      BY <1>2
    <2>4. IsFiniteSet(E)
      BY <2>2, <2>3, FS_Subset
    <2>. QED
      BY <2>3, <2>4
  <1>7. known \cup E = {e \in m + 1 .. s : Counts(e)}
    <2>1. (t + 1 .. s) \cup (m + 1 .. t) = m + 1 .. s
      BY <1>1
    <2>. QED
      BY <1>2, <2>1
  <1>8. PageAt(t).events = {} => E = {}
    BY <1>2, <1>3 DEF Counts
  <1>. QED
    BY <1>1, <1>2, <1>5, <1>6, <1>7, <1>8

\* saveOldMessages puts the page in front of what is stored; the lowest entry
\* gets its token.
LEMMA SaveStores ==
  ASSUME NEW t \in Nat, NEW s \in Nat, t <= s, t = Token(order), DOMAIN order # {},
         known = {e \in t + 1 .. s : Counts(e)},
         Interval(order), Interval(msgs), Rowed, kind' = kind,
         SavePage(PageAt(t))
  PROVE  /\ DOMAIN order' # {} /\ Interval(order') /\ Interval(msgs')
         /\ Token(order') = Low(t)
         /\ known' = {e \in Low(t) + 1 .. s : Counts(e)}
         /\ Rowed'
  <1>1. PICK p : p = PageAt(t)
    OBVIOUS
  <1>2. PICK m \in Nat : m = Low(t) /\ m <= t /\ p.end = m
    BY <1>1, PageEnd DEF PageAt
  <1>3. PICK new : new = {e \in m + 1 .. t : Counts(e)}
    OBVIOUS
  <1>4. /\ New(p.events, known) = new /\ IsFiniteSet(new) /\ new \in SUBSET Int
        /\ known \cup new = {e \in m + 1 .. s : Counts(e)}
        /\ p.events = {} => new = {}
    <2>1. Low(t) <= t /\ Low(t) \in Nat
      BY <1>2
    <2>2. /\ New(PageAt(t).events, known) = {e \in Low(t) + 1 .. t : Counts(e)}
          /\ IsFiniteSet({e \in Low(t) + 1 .. t : Counts(e)})
          /\ {e \in Low(t) + 1 .. t : Counts(e)} \in SUBSET Int
          /\ known \cup {e \in Low(t) + 1 .. t : Counts(e)} = {e \in Low(t) + 1 .. s : Counts(e)}
          /\ PageAt(t).events = {} => {e \in Low(t) + 1 .. t : Counts(e)} = {}
      BY <2>1, PageIsNew
    <2>. QED
      BY <1>1, <1>2, <1>3, <2>2
  <1>5. PICK a \in Int, b \in Int : DOMAIN order = a .. b
    BY DEF Interval
  <1>6. a <= b /\ Lowest(order) = a /\ Min(DOMAIN order) = a
    <2>1. a <= b
      BY <1>5
    <2>. QED
      BY <1>5, <2>1, Ends, IntervalEnds
  <1>7. PICK k \in Nat : k = Cardinality(new)
    BY <1>4, Newest
  <1>8. \A e : IsRow(e)' = IsRow(e)
    BY SamePages
  <1>9. CASE p.events = {}
    <2>1. new = {} /\ k = 0 /\ a - k = a
      BY <1>4, <1>7, <1>9, FS_EmptySet
    <2>2. /\ order' = [i \in DOMAIN order |->
                        IF i = a THEN Entry(order[i].ev, p.end) ELSE order[i]]
          /\ known' = known /\ msgs' = msgs
      <3>1. Lowest(order) - Cardinality(New(p.events, known)) = a
        BY <1>4, <1>6, <1>7, <2>1
      <3>2. SavePage(p)
        BY <1>1
      <3>. QED
        BY <1>9, <3>1, <3>2 DEF SavePage
    <2>3. a \in DOMAIN order /\ DOMAIN order' = DOMAIN order
      BY <1>5, <1>6, <2>2
    <2>4. order'[a].tok = m
      BY <1>2, <2>2, <2>3 DEF Entry
    <2>5. Token(order') = m
      BY <1>6, <2>3, <2>4 DEF Token
    <2>6. Interval(order') /\ Interval(msgs') /\ DOMAIN order' # {}
      BY <2>2, <2>3 DEF Interval
    <2>7. known' = {e \in m + 1 .. s : Counts(e)}
      BY <1>4, <2>1, <2>2
    <2>8. Rowed'
      BY <1>8, <2>2 DEF Rowed
    <2>. QED
      BY <1>2, <2>5, <2>6, <2>7, <2>8
  <1>10. CASE p.events # {}
    <2>1. PICK R : R = {e \in new : IsRow(e)}
      OBVIOUS
    <2>2. R \in SUBSET Int /\ IsFiniteSet(R)
      BY <1>4, <2>1, FS_Subset
    <2>3. PICK g, x : /\ g = [i \in DOMAIN Before(order, new) |->
                                Entry(Before(order, new)[i], NoTok)]
                      /\ x = (IF {e \in p.events : kind[e] # "redaction"} = {} THEN NoEv
                              ELSE Min({e \in p.events : kind[e] # "redaction"}))
      OBVIOUS
    <2>4. PICK J, o : J = Join(g, order) /\ o = [i \in {a - k} |-> Entry(x, p.end)]
      OBVIOUS
    <2>5. /\ order' = Join(o, J) /\ known' = known \cup new
          /\ msgs' = Join(Before(msgs, R), msgs)
      <3>1. SavePage(p)
        BY <1>1
      <3>2. New(p.events, known) = new /\ Lowest(order) - Cardinality(new) = a - k
        BY <1>4, <1>6, <1>7
      <3>3. order' = Join(o, J)
        <4>1. order' =
                Join([i \in {Lowest(order) - Cardinality(New(p.events, known))} |->
                        Entry(IF {e \in p.events : kind[e] # "redaction"} = {} THEN NoEv
                              ELSE Min({e \in p.events : kind[e] # "redaction"}), p.end)],
                     Join([i \in DOMAIN Before(order, New(p.events, known)) |->
                             Entry(Before(order, New(p.events, known))[i], NoTok)], order))
          BY <1>10, <3>1 DEF SavePage
        <4>2. order' =
                Join([i \in {a - k} |-> Entry(x, p.end)],
                     Join([i \in DOMAIN Before(order, new) |->
                             Entry(Before(order, new)[i], NoTok)], order))
          BY <2>3, <3>2, <4>1
        <4>. QED
          BY <2>3, <2>4, <4>2
      <3>4. known' = known \cup new
        BY <1>10, <3>1, <3>2 DEF SavePage
      <3>5. msgs' = Join(Before(msgs, R), msgs)
        BY <1>10, <2>1, <3>1, <3>2 DEF SavePage
      <3>. QED
        BY <3>3, <3>4, <3>5
    <2>6. Interval(msgs') /\ Range(msgs') = R \cup Range(msgs)
      BY <2>2, <2>5, RowsBefore
    <2>7. DOMAIN g = Lowest(order) - k .. Lowest(order) - 1
      BY <1>4, <1>6, <1>7, <2>3, BeforeEvents
    <2>8. DOMAIN J # {} /\ Interval(J) /\ Min(DOMAIN J) = a - k
      BY <1>6, <2>4, <2>7, Prepended
    <2>9. PICK c \in Int, d \in Int : DOMAIN J = c .. d
      BY <2>8 DEF Interval
    <2>10. c <= d /\ c = a - k
      <3>1. c <= d
        BY <2>8, <2>9
      <3>. QED
        BY <2>8, <2>9, <3>1, IntervalEnds
    <2>11. DOMAIN o = {c} /\ o[c].tok = m
      BY <1>2, <2>4, <2>10 DEF Entry
    <2>12. DOMAIN order' = c .. d /\ order'[c] = o[c]
      <3>1. {c} \cup (c .. d) = c .. d
        BY <2>10
      <3>. QED
        BY <2>5, <2>9, <2>11, <3>1 DEF Join
    <2>13. DOMAIN order' # {} /\ Min(DOMAIN order') = c
      <3>1. c \in c .. d
        BY <2>10
      <3>. QED
        BY <2>10, <2>12, <3>1, IntervalEnds
    <2>14. Token(order') = m
      BY <2>11, <2>12, <2>13 DEF Token
    <2>15. Interval(order')
      BY <2>12 DEF Interval
    <2>16. Rowed'
      <3>1. Range(msgs) = {e \in known : IsRow(e)}
        BY DEF Rowed
      <3>. QED
        BY <1>8, <2>1, <2>5, <2>6, <3>1 DEF Rowed
    <2>. QED
      BY <1>2, <1>4, <2>5, <2>6, <2>13, <2>14, <2>15, <2>16
  <1>. QED
    BY <1>9, <1>10

\* The oldMessagesRetrieved slot: what is stored grows by the page in front of
\* it, and the pages behind are copies of it.
LEMMA SlotKeeps == WindowInv /\ Slot => WindowInv'
  <1> SUFFICES ASSUME WindowInv, Slot PROVE WindowInv'
    OBVIOUS
  <1>1. PICK p : p = Head(answers)
    OBVIOUS
  <1>2. /\ answers # <<>> /\ answers' = Tail(answers)
        /\ UNCHANGED <<kind, pos, synced, happening>>
    BY DEF Slot, OldMessagesRetrieved
  <1>3. /\ AtStart(p) => UNCHANGED <<orderDbs, requests>>
        /\ ~AtStart(p) => SavePage(p)
    BY <1>1 DEF Slot, OldMessagesRetrieved
  <1>4. pos' \in 0 .. MaxPos /\ synced' \in 0 .. pos'
    BY <1>2 DEF WindowInv
  <1>5. SUFFICES ASSUME Quiet PROVE (Started /\ Numbered /\ Stretch /\ Rowed /\ PagesFit)'
    BY <1>2, <1>4 DEF WindowInv, Quiet, Undisturbed
  <1>6. synced # 0 /\ DOMAIN order # {}
    BY <1>2, <1>5 DEF WindowInv, Started
  <1>7. PICK t, s : t = Token(order) /\ s = synced
    OBVIOUS
  <1>8. t \in Nat /\ s \in Nat /\ t <= s /\ known = {e \in t + 1 .. s : Counts(e)}
    BY <1>5, <1>6, <1>7 DEF WindowInv, Stretch
  <1>9. Interval(order) /\ Interval(msgs) /\ Rowed
    BY <1>5 DEF WindowInv, Numbered
  <1>10. PICK l : l = Len(answers)
    OBVIOUS
  <1>11. /\ answers \in Seq([events : SUBSET LogEvents, end : Nat])
         /\ \A i \in 1 .. l : answers[i] = PageAt(t) \/ answers[i].end = t
         /\ \A i, j \in 1 .. l : i < j /\ answers[i].end # t => answers[j] = PageAt(t)
    BY <1>5, <1>7, <1>10 DEF WindowInv, PagesFit, Fits
  <1>12. /\ l \in Nat /\ l >= 1 /\ answers[1] = p
         /\ answers' \in Seq([events : SUBSET LogEvents, end : Nat])
         /\ Len(answers') = l - 1
         /\ \A i \in 1 .. l - 1 : answers'[i] = answers[i + 1]
    BY <1>1, <1>2, <1>10, <1>11
  <1>13. \A x : PageAt(x)' = PageAt(x)
    BY <1>2, SamePages
  <1>14. CASE AtStart(p)
    <2>1. UNCHANGED <<order, known, msgs, requests>>
      BY <1>3, <1>14 DEF orderDbs
    <2>2. Token(order)' = t
      BY <1>7, <2>1 DEF Token
    <2>3. PagesFit'
      <3>1. \A i \in 1 .. l - 1 : i + 1 \in 1 .. l
        BY <1>12
      <3>2. \A i \in 1 .. l - 1 : answers'[i] = PageAt(t) \/ answers'[i].end = t
        BY <1>11, <1>12, <3>1
      <3>3. \A i, j \in 1 .. l - 1 : i < j /\ answers'[i].end # t => answers'[j] = PageAt(t)
        <4> SUFFICES ASSUME NEW i \in 1 .. l - 1, NEW j \in 1 .. l - 1, i < j, answers'[i].end # t
                     PROVE  answers'[j] = PageAt(t)
          OBVIOUS
        <4>1. i + 1 \in 1 .. l /\ j + 1 \in 1 .. l /\ i + 1 < j + 1
          BY <1>12
        <4>. QED
          BY <1>11, <1>12, <4>1
      <3>. QED
        BY <1>12, <1>13, <2>2, <3>2, <3>3 DEF PagesFit, Fits, PageAt, Low, Seen
    <2>. QED
      <3>1. synced = 0 => requests' = {} /\ answers' = <<>>
        BY <1>6
      <3>2. WindowInv'
        BY <1>2, <1>4, <2>1, <2>3, <3>1, SameStore
      <3>. QED
        BY <1>2, <1>5, <3>2 DEF WindowInv, Quiet, Undisturbed
  <1>15. CASE ~AtStart(p)
    <2>1. p.end # t
      BY <1>7, <1>15 DEF AtStart
    <2>2. p = PageAt(t)
      BY <1>11, <1>12, <2>1
    <2>3. PICK m \in Nat : m = Low(t) /\ m <= t /\ p.end = m
      BY <1>8, <2>2, PageEnd DEF PageAt
    <2>4. /\ DOMAIN order' # {} /\ Interval(order') /\ Interval(msgs')
          /\ Token(order') = m
          /\ known' = {e \in m + 1 .. s : Counts(e)}
          /\ Rowed'
      <3>1. SavePage(PageAt(t)) /\ kind' = kind
        BY <1>2, <1>3, <1>15, <2>2
      <3>. QED
        BY <1>6, <1>7, <1>8, <1>9, <2>3, <3>1, SaveStores
    <2>5. Started' /\ Numbered'
      BY <1>2, <1>6, <2>4 DEF Started, Numbered
    <2>6. Token(order)' = m
      BY <2>4 DEF Token
    <2>7. Stretch'
      <3>1. m \in 0 .. s /\ synced' = s
        BY <1>2, <1>7, <1>8, <2>3
      <3>2. \A e : Counts(e)' = Counts(e)
        BY <1>2, SamePages
      <3>. QED
        BY <2>4, <2>6, <3>1, <3>2 DEF Stretch, Counts
    <2>8. PagesFit'
      <3>1. \A i \in 1 .. l - 1 : answers'[i].end = m
        <4> SUFFICES ASSUME NEW i \in 1 .. l - 1 PROVE answers'[i].end = m
          OBVIOUS
        <4>1. 1 \in 1 .. l /\ i + 1 \in 1 .. l /\ 1 < i + 1
          BY <1>12
        <4>2. answers[i + 1] = PageAt(t)
          BY <1>11, <1>12, <2>1, <4>1
        <4>. QED
          BY <1>12, <2>2, <2>3, <4>2
      <3>. QED
        BY <1>12, <2>6, <3>1 DEF PagesFit, Fits
    <2>. QED
      BY <2>4, <2>5, <2>7, <2>8
  <1>. QED
    BY <1>14, <1>15

\* Every action has its lemma above.
LEMMA WindowStep == WindowInv /\ [WindowNext]_windowVars => WindowInv'
  <1> SUFFICES ASSUME WindowInv, [WindowNext]_windowVars PROVE WindowInv'
    OBVIOUS
  <1>1. ASSUME NEW limited \in BOOLEAN, NEW a \in LogEvents, NEW n \in LogEvents,
               SyncWindow(limited, a, n)
        PROVE  WindowInv'
    BY <1>1, SyncKeeps
  <1>2. ASSUME NEW r \in requests, PageAnswered(r) PROVE WindowInv'
    BY <1>2, AnswerKeeps
  <1>3. CASE UNCHANGED windowVars
    <2>1. UNCHANGED <<kind, pos, synced, order, known, msgs, requests, answers, happening>>
      BY <1>3 DEF windowVars, orderDbs, pages
    <2>2. pos' \in 0 .. MaxPos /\ synced' \in 0 .. pos'
      BY <2>1 DEF WindowInv
    <2>3. CASE Quiet
      BY <2>1, <2>2, <2>3, SameFit, SameStore DEF WindowInv, Started
    <2>4. CASE ~Quiet
      BY <2>1, <2>2, <2>4 DEF WindowInv, Quiet, Undisturbed
    <2>. QED
      BY <2>3, <2>4
  <1>4. CASE Send
    BY <1>4, SendKeeps
  <1>5. CASE FetchMore
    BY <1>5, FetchKeeps
  <1>6. CASE Slot
    BY <1>6, SlotKeeps
  <1>7. CASE Cleanup
    BY <1>7, CleanupKeeps
  <1>8. CASE RestartWindow
    BY <1>8, RestartKeeps
  <1>. QED
    BY <1>1, <1>2, <1>3, <1>4, <1>5, <1>6, <1>7, <1>8 DEF WindowNext

\* What is stored and shown of the room is the stretch of its log that ends at
\* the last sync, and a page under way fits in front of it.
THEOREM WindowInvariant == WindowSpec => []WindowInv
  <1>. QED
    BY WindowStart, WindowStep, PTL DEF WindowSpec

\* The rows of a room have no gap while no limited sync and no deletion comes
\* between the check of a page and the slot that stores it.
THEOREM RowsWithoutGap == WindowSpec => []NoGapUndisturbed
  <1>. QED
    BY WindowInvariant, RowsFollow, PTL
==============================================================================
