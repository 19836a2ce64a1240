---------------------------- MODULE DeviceProofs ----------------------------
(***************************************************************************)
(* The four parts of a device's encryption, each for any sessions, bounds  *)
(* and scenarios.  The migrations: however often the program is ended      *)
(* between two transactions, the format version of the cache is true.  The *)
(* secrets: those stored are of the user's keys.  The channels: the latest *)
(* session with a peer can be read by it.  The keys: those handed out are  *)
(* kept until their message came.                                          *)
(***************************************************************************)
EXTENDS Device, SequenceTheorems, FiniteSetTheorems, TLAPS

Stages == {"off", "migrate", "load", "create", "upload", "initialSync", "running", "login"}
Secret == {Absent, "secret", "random"}
Disk   == [version : -1 .. Current + 1, token : BOOLEAN,
           account : [id : Nat, pickledWith : Secret], receipts : BOOLEAN,
           rooms : {"none", "messages", "events"}, olm : {"v1", "v2"},
           old : SUBSET Sessions, new : SUBSET Sessions, data : SUBSET Sessions,
           future : BOOLEAN]

StartTypeOK ==
  /\ stage \in Stages /\ step \in 1 .. Current + 1
  /\ disk \in Disk /\ pickleSecret \in Secret
  /\ starts \in Nat

\* What the i-th migration leaves behind.
Done(i) ==
  CASE i = 1 -> ~disk.receipts
    [] i = 2 -> disk.rooms # "messages"
    [] i = 3 -> disk.olm = "v2"
    [] i = 5 -> disk.account = NoAccount \/ disk.account.pickledWith = pickleSecret
    [] i = 6 -> disk.old = {}
    [] OTHER -> TRUE

\* What the cache contains, what runMigrations has reached, and a cache that
\* never had a token was made by this version.
Reached(i) == i <= disk.version \/ ~disk.token \/ (stage = "migrate" /\ i < step)

\* Random secrets came with the fifth migration, tokens come after the stamp.
DiskIsOfVersion ==
  /\ \A i \in 1 .. Current : Reached(i) => Done(i)
  /\ disk.version < 5 => disk.account = NoAccount \/ disk.account.pickledWith = "secret"
  /\ stage \in {"create", "upload", "initialSync"} => disk.version = Current
  /\ disk.future => "newer" \in env

StartInv == StartTypeOK /\ DiskIsOfVersion

------------------------------------------------------------------------------

LEMMA InitStartInv == Init => StartInv
<1> SUFFICES ASSUME Init PROVE StartInv
  OBVIOUS
<1>1. StartInit /\ starts \in Nat /\ stage = "off"
  BY DEF Init, StartInit
<1>2. CASE disk = EmptyDisk /\ pickleSecret = Absent
  BY <1>1, <1>2 DEF StartInit, StartInv, StartTypeOK, DiskIsOfVersion, Done, Reached, Disk, Stages,
                    Secret, EmptyDisk, NoAccount, Absent, Current
<1>3. ASSUME NEW v \in 0 .. Current + (IF May("newer") THEN 1 ELSE 0),
             NEW with \in {"secret", "random"}, NEW kept \in SUBSET Sessions,
             NEW dated \in SUBSET Sessions,
             v < 5 => with = "secret",
             disk = DiskOf(v, with, kept, dated),
             pickleSecret = IF v < 5 THEN Absent ELSE with
      PROVE  StartInv
  <2>1. v \in 0 .. Current + 1 /\ (v > Current => "newer" \in env)
    BY DEF May, Current
  <2>2. StartTypeOK
    BY <1>1, <1>3, <2>1 DEF StartInit, StartTypeOK, Disk, DiskOf, Stages, Secret, Absent, Current
  <2>3. DiskIsOfVersion
    <3> USE <1>1, <1>3, <2>1 DEF DiskOf, Current
    <3>1. disk.version = v /\ disk.token /\ disk.account = [id |-> 1, pickledWith |-> with]
      OBVIOUS
    <3>2. ASSUME NEW i \in 1 .. Current, Reached(i) PROVE Done(i)
      <4>1. i <= v
        BY <3>1, <3>2 DEF Reached
      <4>2. 1 <= v => ~disk.receipts
        <5>1. disk.receipts = (v < 1)
          OBVIOUS
        <5>2. v \in Int /\ (1 <= v => ~(v < 1))
          OBVIOUS
        <5>3. QED
          BY ONLY <5>1, <5>2, Zenon
      <4>3. (2 <= v => disk.rooms # "messages") /\ (3 <= v => disk.olm = "v2") /\ (6 <= v => disk.old = {})
        OBVIOUS
      <4>4. disk.account.pickledWith = with /\ (5 <= v => pickleSecret = with)
        BY <3>1
      <4>5. QED
        BY <4>1, <4>2, <4>3, <4>4 DEF Done
    <3>3. QED
      BY <3>1, <3>2 DEF DiskIsOfVersion
  <2>4. QED
    BY <2>2, <2>3 DEF StartInv
<1>4. QED
  BY <1>1, <1>2, <1>3 DEF StartInit

\* Each migration leaves its own mark and takes no other away.
LEMMA MigrateKeeps == StartInv /\ Migrate /\ UNCHANGED env => StartInv'
<1> SUFFICES ASSUME StartInv, Migrate, UNCHANGED env PROVE StartInv'
  OBVIOUS
<1> USE DEF StartInv, StartTypeOK, Disk, Stages, Secret, Current, Absent
<1>1. CASE ~Due(step)
  BY <1>1 DEF Migrate, DiskIsOfVersion, Done, Reached, Due
<1>2. CASE Due(step)
  <2>1. /\ stage = "migrate" /\ step \in 1 .. Current /\ step' = step + 1 /\ stage' = "migrate"
        /\ disk' = Migrated(step) /\ disk.version < step
        /\ pickleSecret' = IF step = 5 THEN "secret" ELSE pickleSecret
        /\ UNCHANGED <<starts, env>>
    BY <1>2 DEF Migrate, Due
  <2>2. /\ disk' \in Disk
        /\ disk'.version = disk.version /\ disk'.token = disk.token
        /\ disk'.future = disk.future /\ disk'.account = disk.account
    BY <2>1 DEF Migrated, DropPendingReceipts, MoveMessages, WrapOlmSessions, ClearRooms,
                DropSenderKeys
  <2>3. \A i \in 1 .. Current : Done(i) \/ i = step => Done(i)'
    BY <2>1 DEF Migrated, DropPendingReceipts, MoveMessages, WrapOlmSessions, ClearRooms,
                DropSenderKeys, Done, DiskIsOfVersion
  <2>4. \A i \in 1 .. Current : Reached(i)' => Reached(i) \/ i = step
    BY <2>1, <2>2 DEF Reached
  <2>5. QED
    BY <2>1, <2>2, <2>3, <2>4 DEF DiskIsOfVersion
<1>3. QED
  BY <1>1, <1>2

LEMMA StartInvNext == StartInv /\ StartNext /\ UNCHANGED env => StartInv'
<1> SUFFICES ASSUME StartInv, StartNext, UNCHANGED env PROVE StartInv'
  OBVIOUS
<1> USE DEF StartInv, StartTypeOK, DiskIsOfVersion, Done, Reached, Disk, Stages, Secret, Current,
            Absent, Go
<1>1. CASE Boot
  BY <1>1 DEF Boot, isInitialized, Older
<1>2. CASE Migrate
  BY <1>2, MigrateKeeps
<1>3. CASE StampFormat
  BY <1>3 DEF StampFormat
<1>4. CASE MigrationFails
  BY <1>4 DEF MigrationFails, GiveUp
<1>5. CASE LoadStateFromCache
  <2>1. CASE DropToLogin
    BY <1>5, <2>1 DEF LoadStateFromCache, DropToLogin, DeleteData, EmptyDisk, NoAccount
  <2>2. CASE ~DropToLogin
    BY <1>5, <2>2 DEF LoadStateFromCache, RestoreOlmAccount, SecretOrNew, NoAccount
  <2>3. QED
    BY <2>1, <2>2
<1>6. CASE CreateAccount
  <2>1. SecretOrNew \in Secret
    BY DEF SecretOrNew
  <2>2. QED
    BY <1>6, <2>1 DEF CreateAccount, NoAccount
<1>7. CASE TryInitialSync
  <2>1. CASE DropToLogin
    BY <1>7, <2>1 DEF TryInitialSync, DropToLogin, DeleteData, EmptyDisk, NoAccount
  <2>2. CASE ~DropToLogin
    BY <1>7, <2>2 DEF TryInitialSync
  <2>3. QED
    BY <2>1, <2>2
<1>8. CASE StartInitialSync
  <2>1. /\ disk' \in Disk /\ disk'.rooms = "events" /\ disk'.version = Current
        /\ \A f \in {"account", "receipts", "olm", "old", "future"} : disk'[f] = disk[f]
    BY <1>8 DEF StartInitialSync
  <2>2. \A i \in 1 .. Current : Done(i)
    BY <1>8 DEF StartInitialSync
  <2>3. \A i \in 1 .. Current : Done(i)'
    BY <1>8, <2>1, <2>2 DEF StartInitialSync
  <2>4. QED
    BY <1>8, <2>1, <2>3 DEF StartInitialSync
<1>9. CASE SaveState
  BY <1>9 DEF SaveState
<1>10. CASE ReceiveSession
  <2>1. PICK s \in Sessions : disk' = [disk EXCEPT !.new = @ \cup {s}, !.data = @ \cup {s}]
    BY <1>10 DEF ReceiveSession
  <2>2. /\ disk' \in Disk
        /\ \A f \in {"version", "token", "account", "receipts", "rooms", "olm", "old", "future"} :
             disk'[f] = disk[f]
    BY <2>1
  <2>3. QED
    BY <1>10, <2>2 DEF ReceiveSession
<1>11. CASE Quit
  BY <1>11 DEF Quit
<1>12. QED
  BY <1>1, <1>2, <1>3, <1>4, <1>5, <1>6, <1>7, <1>8, <1>9, <1>10, <1>11 DEF StartNext

\* The invariant of the start holds whatever the other parts of the device do:
\* bootstrap, runMigrations and dropToLogin alone write what it is about.
THEOREM StartInvariance == Spec => []StartInv
<1>1. StartInv /\ [Next]_vars => StartInv'
  <2> SUFFICES ASSUME StartInv, [Next]_vars PROVE StartInv'
    OBVIOUS
  <2>1. CASE StartNext /\ UNCHANGED env
    BY <2>1, StartInvNext
  <2>2. CASE UNCHANGED <<env, startVars>>
    BY <2>2 DEF startVars, StartInv, StartTypeOK, DiskIsOfVersion, Done, Reached
  <2>3. QED
    BY <2>1, <2>2 DEF Next, vars
<1>2. QED
  BY <1>1, InitStartInv, PTL DEF Spec

\* A cache that bears the current version has been through every migration,
\* and its account is pickled with the secret that is stored: whichever start
\* was killed and wherever runMigrations failed.
THEOREM StampIsTrue == Spec => []StampedIsMigrated
<1>1. StartInv => StampedIsMigrated
  <2> SUFFICES ASSUME StartInv, disk.version = Current
               PROVE  InCurrentFormat /\ ("newer" \notin env => ~disk.future)
    BY DEF StampedIsMigrated
  <2>1. \A i \in 1 .. Current : Done(i)
    BY DEF StartInv, StartTypeOK, DiskIsOfVersion, Reached, Disk, Current
  <2>2. Done(1) /\ Done(2) /\ Done(3) /\ Done(5) /\ Done(6)
    BY <2>1 DEF Current
  <2>3. QED
    BY <2>2 DEF InCurrentFormat, Done, StartInv, DiskIsOfVersion
<1>2. QED
  BY <1>1, StartInvariance, PTL


------------------------------------------------------------------------------

\* While no start is killed and nothing fails: a cache with a token holds the
\* account that is published, one without is being filled, and sessions are
\* stored without a sender key only when the migration to that has been done.
NothingBroken ==
  /\ disk.token => disk.account.id = published /\ disk.account.pickledWith # Absent
  /\ stage \in {"migrate", "load", "running"} => disk.token
  /\ stage \in {"create", "upload", "initialSync"} => ~disk.token
  /\ stage \in {"upload", "initialSync"} =>
       identity = disk.account.id /\ disk.account.pickledWith # Absent
  /\ stage \in {"initialSync", "running"} => identity = published
  /\ stage \in {"load", "running"} => disk.version = Current
  /\ stage # "login"
  /\ disk.version < Current => disk.new = {} \/ (stage = "migrate" /\ step > Current)

Calm == env \cap {"crash", "fail"} = {}

CalmInv == StartInv /\ (Calm => NothingBroken)

LEMMA InitCalm == Init => CalmInv
<1> SUFFICES ASSUME Init, Calm PROVE NothingBroken
  BY InitStartInv DEF CalmInv
<1>1. StartInit /\ stage = "off"
  BY DEF Init, StartInit
<1>2. CASE disk = EmptyDisk
  BY <1>1, <1>2 DEF NothingBroken, EmptyDisk
<1>3. ASSUME NEW v \in 0 .. Current + (IF May("newer") THEN 1 ELSE 0),
             NEW with \in {"secret", "random"}, NEW kept \in SUBSET Sessions,
             NEW dated \in SUBSET Sessions, disk = DiskOf(v, with, kept, dated), published = 1
      PROVE  NothingBroken
  <2>1. /\ disk.account.id = 1 /\ disk.account.pickledWith # Absent
        /\ disk.version = v /\ (v < Current => disk.new = {})
    BY <1>3 DEF DiskOf, Absent, Current
  <2>2. QED
    BY <1>1, <1>3, <2>1 DEF NothingBroken
<1>4. QED
  BY <1>1, <1>2, <1>3 DEF StartInit

\* A step of an undisturbed start keeps the account and every session with data.
StepKeeps ==
  /\ Dated(disk) \subseteq Dated(disk')
  /\ stage' # "login"
  /\ stage' = "running" => identity' = published

LEMMA CalmNext ==
  ASSUME StartInv, Calm, NothingBroken, StartNext, UNCHANGED env
  PROVE  NothingBroken' /\ StepKeeps
<1> USE DEF NothingBroken, StepKeeps, Dated, StartInv, StartTypeOK, Disk, Stages, Current, Go, May, Calm
<1>1. CASE Boot
  BY <1>1 DEF Boot, isInitialized, Older
<1>2. CASE Migrate
  <2>1. CASE ~Due(step)
    BY <1>2, <2>1 DEF Migrate, Due
  <2>2. CASE Due(step)
    <3>1. /\ stage = "migrate" /\ step \in 1 .. Current /\ step' = step + 1 /\ stage' = stage
          /\ disk' = Migrated(step) /\ disk.version < Current
          /\ UNCHANGED <<identity, published>>
      BY <1>2, <2>2 DEF Migrate, Due
    <3>2. /\ disk'.version = disk.version /\ disk'.token = disk.token
          /\ disk'.account = disk.account
          /\ disk.new = {}
          /\ \/ disk'.new = {} /\ disk'.old = disk.old /\ disk'.data = disk.data
             \/ /\ step = Current /\ disk'.new = disk.old \cap disk.data
                /\ disk'.data = disk.old \cap disk.data
      BY <3>1 DEF Migrated, DropPendingReceipts, MoveMessages, WrapOlmSessions, ClearRooms,
                  DropSenderKeys
    <3>3. QED
      BY <3>1, <3>2
  <2>3. QED
    BY <2>1, <2>2
<1>3. CASE StampFormat
  BY <1>3 DEF StampFormat
<1>4. CASE MigrationFails
  BY <1>4 DEF MigrationFails
<1>5. CASE LoadStateFromCache
  <2>1. /\ stage = "load" /\ disk.version = Current /\ disk.token
        /\ disk.account.pickledWith # Absent /\ disk.account.id = published
    BY <1>5 DEF LoadStateFromCache
  <2>2. Done(5)
    BY <2>1 DEF DiskIsOfVersion, Reached
  <2>3. disk.account.pickledWith = SecretOrNew
    BY <2>1, <2>2 DEF Done, NoAccount, SecretOrNew
  <2>4. /\ identity' = published /\ stage' = "running"
        /\ UNCHANGED <<disk, step, published>>
    BY <1>5, <2>1, <2>3 DEF LoadStateFromCache, RestoreOlmAccount
  <2>5. QED
    BY <2>1, <2>4
<1>6. CASE CreateAccount
  <2>1. SecretOrNew # Absent
    BY DEF SecretOrNew, Absent
  <2>2. /\ disk'.account.id = identity' /\ disk'.account.pickledWith # Absent
        /\ \A f \in {"token", "version", "old", "new", "data"} : disk'[f] = disk[f]
    BY <1>6, <2>1 DEF CreateAccount
  <2>3. QED
    BY <1>6, <2>2 DEF CreateAccount
<1>7. CASE TryInitialSync
  BY <1>7 DEF TryInitialSync
<1>8. CASE StartInitialSync
  <2>1. \A f \in {"account", "version", "old", "new", "data"} : disk'[f] = disk[f]
    BY <1>8 DEF StartInitialSync
  <2>2. disk.version = Current
    BY <1>8 DEF StartInitialSync, DiskIsOfVersion
  <2>3. QED
    BY <1>8, <2>1, <2>2 DEF StartInitialSync
<1>9. CASE SaveState
  BY <1>9 DEF SaveState
<1>10. CASE ReceiveSession
  <2>1. PICK s : disk' = [disk EXCEPT !.new = @ \cup {s}, !.data = @ \cup {s}]
    BY <1>10 DEF ReceiveSession
  <2>2. /\ disk'.new = disk.new \cup {s} /\ disk'.old = disk.old /\ disk'.data = disk.data \cup {s}
        /\ disk'.version = disk.version /\ disk'.token = disk.token /\ disk'.account = disk.account
    BY <2>1
  <2>3. QED
    BY <1>10, <2>2 DEF ReceiveSession
<1>11. CASE Quit
  BY <1>11 DEF Quit
<1>12. QED
  BY <1>1, <1>2, <1>3, <1>4, <1>5, <1>6, <1>7, <1>8, <1>9, <1>10, <1>11 DEF StartNext

\* Without a crash or a failure, bootstrap and runMigrations bring the cache of
\* every version to this one without dropping the account or a session that has
\* its GroupSessionData ("2022.04.08" drops one that has none): the migrations are
\* done once each, the account can be read with the secret that is found or made
\* up, and dropToLogin is never reached.
THEOREM NothingIsLost == Spec => NothingLost
<1>1. CalmInv /\ [Next]_vars => CalmInv' /\ [Calm => StepKeeps]_startVars
  <2> SUFFICES ASSUME CalmInv, [Next]_vars PROVE CalmInv' /\ [Calm => StepKeeps]_startVars
    OBVIOUS
  <2>1. CASE StartNext /\ UNCHANGED env
    <3>1. StartInv'
      BY <2>1, StartInvNext DEF CalmInv
    <3>2. Calm' = Calm
      BY <2>1 DEF Calm
    <3>3. Calm => NothingBroken' /\ StepKeeps
      BY <2>1, CalmNext DEF CalmInv
    <3>4. QED
      BY <3>1, <3>2, <3>3 DEF CalmInv
  <2>2. CASE UNCHANGED <<env, startVars>>
    BY <2>2 DEF startVars, CalmInv, Calm, NothingBroken, StartInv, StartTypeOK, DiskIsOfVersion, Done, Reached
  <2>3. QED
    BY <2>1, <2>2 DEF Next, vars
<1>2. [Calm => StepKeeps]_startVars <=>
      [env \cap {"crash", "fail"} = {} =>
         /\ Dated(disk) \subseteq Dated(disk')
         /\ stage' # "login"
         /\ stage' = "running" => identity' = published]_startVars
  BY DEF Calm, StepKeeps
<1>3. QED
  BY <1>1, <1>2, InitCalm, PTL DEF Spec, NothingLost

------------------------------------------------------------------------------
(* The secrets.                                                              *)

Ids  == [name : Names, round : Nat]
Mail == [id : Ids, device : Others, value : Int]

SecretsTypeOK ==
  /\ secret \in [Names -> Int] /\ setup \in Nat /\ made \in Nat /\ rounds \in Nat
  /\ homeserver \in [keys : Nat, backup : Nat, signed : Nat, storage : [Names -> Nat],
                     held : [Names -> Nat]]
  /\ pending \subseteq Ids /\ requests \subseteq [id : Ids, device : Others]
  /\ inbox \subseteq Mail
  /\ reading.keys \subseteq Names \X Nat /\ signing \in Nat
  /\ trustB \in BOOLEAN
  /\ version \in Nat /\ versionAnswer \in Int

\* Only what b says after it was revoked is not a secret of the user's keys,
\* and b is never verified again.
ForgedIsOfB ==
  /\ \A m \in inbox : m.value \in Nat \/ (m.device = "b" /\ ~trustB)
  /\ \A n \in Names : secret[n] \in Nat

\* The one generation of undisturbed keys: first it is here and in the secret
\* storage, then on the server and with the other devices.  That of the
\* backup is the one on the server wherever it is found.
OneGeneration ==
  /\ setup # 0 => homeserver.keys = 0 /\ May("setup")
  /\ homeserver.backup \in {0, setup, homeserver.keys}
  /\ \A n \in Names : /\ secret[n] \in {0, setup, homeserver.keys}
                      /\ homeserver.storage[n] \in {0, setup, homeserver.keys}
                      /\ homeserver.held[n] \in {0, homeserver.keys}
  /\ secret["backup"] \in {0, homeserver.backup}
  /\ homeserver.storage["backup"] \in {0, homeserver.backup}
  /\ homeserver.held["backup"] \in {0, homeserver.backup}
  /\ \A n \in Names, g \in Nat : <<n, g>> \in reading.keys =>
       g # 0 /\ g \in {setup, homeserver.keys} /\ (n = "backup" => g = homeserver.backup)
  /\ \A m \in inbox : m.value \in Nat =>
       m.value # 0 /\ m.value = homeserver.keys /\ (m.id.name = "backup" => m.value = homeserver.backup)
  /\ version # 0 => version = homeserver.backup /\ version = secret["backup"]

SecretsInv == SecretsTypeOK /\ ForgedIsOfB /\ (Undisturbed => OneGeneration)

LEMMA InitSecrets == Init => SecretsInv
BY DEF Init, SecretsInit, SecretsInv, SecretsTypeOK, ForgedIsOfB, Undisturbed, OneGeneration, Ids,
       Mail, Names, Others, NotReading, VersionAsked, May

LEMMA SecretsNames == "backup" \in Names /\ "self" \in Names /\ \A n \in Names : n \in {"backup", "self"}
BY DEF Names

LEMMA ReceiveKeepsSecrets == SecretsInv /\ ReceiveSecret /\ UNCHANGED env => SecretsInv'
<1> SUFFICES ASSUME SecretsInv, UNCHANGED env,
                    NEW m \in inbox,
                    inbox' = inbox \ {m},
                    \/ m.id \notin pending /\ UNCHANGED <<pending, secret, requests>>
                    \/ /\ m.id \in pending
                       /\ pending' = pending \ {m.id}
                       /\ \/ /\ Accepts(m.device)
                             /\ secret' = [secret EXCEPT ![m.id.name] = m.value]
                             /\ requests' = {q \in requests : q.id # m.id}
                          \/ ~Accepts(m.device) /\ UNCHANGED <<secret, requests>>,
                    UNCHANGED <<trustB, homeserver, setup, reading, signing, version, versionAnswer,
                                rounds, made, troubles>>
             PROVE  SecretsInv'
  BY DEF ReceiveSecret
<1>1. m \in Mail /\ m.id \in Ids /\ m.id.name \in Names /\ m.value \in Int
  BY DEF SecretsInv, SecretsTypeOK, Mail, Ids
<1>2. pending' \subseteq pending /\ requests' \subseteq requests /\ inbox' \subseteq inbox
  OBVIOUS
<1>3. \/ secret' = secret
      \/ secret' = [secret EXCEPT ![m.id.name] = m.value] /\ m.value \in Nat
  BY <1>1 DEF Accepts, Verified, SecretsInv, ForgedIsOfB
<1>4. SecretsTypeOK'
  BY <1>1, <1>2, <1>3 DEF SecretsInv, SecretsTypeOK
<1>5. ForgedIsOfB'
  BY <1>1, <1>2, <1>3 DEF SecretsInv, SecretsTypeOK, ForgedIsOfB
<1>6. ASSUME Undisturbed' PROVE OneGeneration'
  <2>1. Undisturbed /\ OneGeneration
    BY <1>6 DEF Undisturbed, SecretsInv
  <2>2. CASE secret' = secret
    BY <1>2, <2>1, <2>2 DEF OneGeneration, May
  <2>3. CASE secret' = [secret EXCEPT ![m.id.name] = m.value] /\ m.value \in Nat
    <3>1. /\ m.value # 0 /\ m.value = homeserver.keys
          /\ m.id.name = "backup" => m.value = homeserver.backup
      BY <2>1, <2>3 DEF OneGeneration
    <3>2. \A n \in Names : secret'[n] \in {secret[n], m.value}
      BY <1>1, <2>3 DEF SecretsInv, SecretsTypeOK
    <3>3. secret'["backup"] = IF m.id.name = "backup" THEN m.value ELSE secret["backup"]
      BY <1>1, <2>3, SecretsNames DEF SecretsInv, SecretsTypeOK
    <3>4. QED
      BY <1>2, <2>1, <3>1, <3>2, <3>3 DEF OneGeneration, May
  <2>4. QED
    BY <1>3, <2>2, <2>3
<1>7. QED
  BY <1>4, <1>5, <1>6 DEF SecretsInv

\* Actions that leave the keys and where they are as they are.
LEMMA SecretsFrame ==
  ASSUME SecretsInv, UNCHANGED <<env, secret, homeserver, setup, made, version, versionAnswer>>,
         rounds' \in Nat, pending' \subseteq Ids, requests' \subseteq [id : Ids, device : Others],
         inbox' \subseteq inbox, reading' \in {reading, NotReading},
         trustB' \in BOOLEAN, trustB' => trustB, signing' \in Nat
  PROVE  SecretsInv'
<1>1. reading'.keys \subseteq reading.keys
  BY DEF NotReading
<1>2. SecretsTypeOK'
  BY <1>1 DEF SecretsInv, SecretsTypeOK
<1>3. ForgedIsOfB'
  BY DEF SecretsInv, ForgedIsOfB, SecretsTypeOK
<1>4. Undisturbed' => OneGeneration'
  <2>1. SUFFICES ASSUME Undisturbed' PROVE OneGeneration'
    OBVIOUS
  <2>2. Undisturbed /\ OneGeneration
    BY <2>1 DEF Undisturbed, SecretsInv
  <2>3. QED
    BY <1>1, <2>2 DEF OneGeneration, May
<1>5. QED
  BY <1>2, <1>3, <1>4 DEF SecretsInv

LEMMA AnswersKeepSecrets == SecretsInv /\ OtherAnswers /\ UNCHANGED env => SecretsInv'
<1> SUFFICES ASSUME SecretsInv, UNCHANGED env,
                    NEW q \in requests,
                    requests' = requests \ {q},
                    inbox' = IF q.device = "b" /\ ~trustB
                             THEN inbox \cup {[id |-> q.id, device |-> "b", value |-> Forged]}
                             ELSE IF homeserver.held[q.id.name] = 0 THEN inbox
                             ELSE inbox \cup {[id |-> q.id, device |-> q.device,
                                               value |-> homeserver.held[q.id.name]]},
                    UNCHANGED <<secret, pending, trustB, homeserver, setup, reading, signing, version,
                                versionAnswer, rounds, made, troubles>>
             PROVE  SecretsInv'
  BY DEF OtherAnswers
<1>1. q.id \in Ids /\ q.id.name \in Names /\ q.device \in Others
      /\ homeserver.held[q.id.name] \in Nat
  BY DEF SecretsInv, SecretsTypeOK, Ids
<1>2. \A m \in inbox' :
        \/ m \in inbox
        \/ /\ m.id = q.id /\ m \in Mail
           /\ \/ m.device = "b" /\ ~trustB /\ m.value = Forged
              \/ m.value = homeserver.held[q.id.name] /\ m.value # 0
  BY <1>1 DEF Mail, Forged, Others
<1>3. SecretsTypeOK'
  BY <1>2 DEF SecretsInv, SecretsTypeOK
<1>4. ForgedIsOfB'
  BY <1>1, <1>2 DEF SecretsInv, ForgedIsOfB
<1>5. ASSUME Undisturbed' PROVE OneGeneration'
  <2>1. Undisturbed /\ OneGeneration
    BY <1>5 DEF Undisturbed, SecretsInv
  <2>2. \A m \in inbox' : m.value \in Nat =>
          m.value # 0 /\ m.value = homeserver.keys /\ (m.id.name = "backup" => m.value = homeserver.backup)
    BY <1>1, <1>2, <2>1 DEF OneGeneration, Forged
  <2>3. QED
    BY <2>1, <2>2 DEF OneGeneration, May
<1>6. QED
  BY <1>3, <1>4, <1>5 DEF SecretsInv

\* Keys are made once if nothing fails, and then there was no secret before.
LEMMA MakingKeepsSecrets ==
  ASSUME SecretsInv, UNCHANGED env,
         NEW fresh \in Fresh, NEW storage \in {{}, fresh}, NEW sent \in Sent,
         MakeKeys(fresh, storage, sent),
         setup' = made' \/ (May("fail") /\ setup' = setup)
  PROVE  SecretsInv'
<1>1. made \in Nat /\ made' \in Nat /\ made' = made + 1 /\ secret \in [Names -> Nat] /\ setup \in Nat
  BY DEF SecretsInv, SecretsTypeOK, ForgedIsOfB, MakeKeys
<1>2. /\ setup = 0 /\ ((homeserver.keys = 0 /\ May("setup")) \/ May("again"))
      /\ secret' = [n \in Names |-> IF n \in fresh THEN made' ELSE secret[n]]
      /\ UNCHANGED <<pending, requests, inbox, trustB, reading, signing, version,
                     versionAnswer, rounds>>
  BY DEF MakeKeys
<1>3. /\ homeserver'.backup = IF "version" \in sent /\ "backup" \in fresh THEN made' ELSE homeserver.backup
      /\ \A n \in Names : homeserver'.storage[n] =
                            IF n \in storage \cap sent THEN made' ELSE homeserver.storage[n]
      /\ homeserver'.keys = homeserver.keys /\ homeserver'.held = homeserver.held
      /\ homeserver' \in [keys : Nat, backup : Nat, signed : Nat, storage : [Names -> Nat],
                          held : [Names -> Nat]]
  BY <1>1 DEF SecretsInv, SecretsTypeOK, MakeKeys
<1>4. SecretsTypeOK' /\ ForgedIsOfB'
  <2>1. secret' \in [Names -> Nat] /\ setup' \in Nat
    BY <1>1, <1>2
  <2>2. secret' \in [Names -> Int] /\ \A n \in Names : secret'[n] \in Nat
    BY <2>1
  <2>3. SecretsTypeOK'
    BY <1>1, <1>2, <1>3, <2>1, <2>2 DEF SecretsInv, SecretsTypeOK
  <2>4. QED
    BY <1>2, <2>2, <2>3 DEF SecretsInv, ForgedIsOfB
<1>5. ASSUME Undisturbed' PROVE OneGeneration'
  <2>1. Undisturbed /\ OneGeneration
    BY <1>5 DEF Undisturbed, SecretsInv
  <2>2. /\ homeserver.keys = 0 /\ May("setup") /\ setup' = made'
        /\ sent = Uploads
    BY <1>2, <2>1 DEF Undisturbed, May, Sent
  <2>3. /\ homeserver.backup = 0 /\ version = 0 /\ inbox \cap {m \in Mail : m.value \in Nat} = {}
        /\ reading.keys = {}
        /\ \A n \in Names : secret[n] = 0 /\ homeserver.storage[n] = 0 /\ homeserver.held[n] = 0
    <3>1. \A r \in reading.keys : \E n \in Names, g \in Nat : r = <<n, g>>
      BY DEF SecretsInv, SecretsTypeOK
    <3>2. QED
      BY <1>2, <2>1, <2>2, <3>1, SecretsNames DEF OneGeneration, SecretsInv, SecretsTypeOK
  <2>4. homeserver'.backup = IF "backup" \in fresh THEN made' ELSE 0
    BY <1>3, <2>2, <2>3 DEF Uploads
  <2>5. \A n \in Names : /\ secret'[n] \in {0, made'} /\ homeserver'.storage[n] \in {0, made'}
                         /\ n \notin fresh => secret'[n] = 0 /\ homeserver'.storage[n] = 0
    BY <1>2, <1>3, <2>3
  <2>6. \A m \in inbox' : m.value \notin Nat
    BY <1>2, <2>3 DEF SecretsInv, SecretsTypeOK
  <2>7. QED
    BY <1>1, <1>2, <1>3, <2>2, <2>3, <2>4, <2>5, <2>6, SecretsNames DEF OneGeneration, May
<1>6. QED
  BY <1>4, <1>5 DEF SecretsInv

LEMMA SetupKeepsSecrets ==
  SecretsInv /\ (SetupCrosssigning \/ SetupGivesUp) /\ UNCHANGED env => SecretsInv'
<1> SUFFICES ASSUME SecretsInv, SetupCrosssigning \/ SetupGivesUp, UNCHANGED env PROVE SecretsInv'
  OBVIOUS
<1>1. PICK fresh \in Fresh, sent \in Sent :
        /\ MakeKeys(fresh, {}, sent) \/ MakeKeys(fresh, fresh, sent)
        /\ setup' = made' \/ (May("fail") /\ setup' = setup)
  BY DEF SetupCrosssigning, SetupGivesUp
<1>2. PICK storage \in {{}, fresh} : MakeKeys(fresh, storage, sent)
  BY <1>1
<1>3. QED
  BY <1>1, <1>2, MakingKeepsSecrets

LEMMA UploadKeepsSecrets == SecretsInv /\ KeysUploaded /\ UNCHANGED env => SecretsInv'
<1> SUFFICES ASSUME SecretsInv, KeysUploaded, UNCHANGED env PROVE SecretsInv'
  OBVIOUS
<1>1. CASE homeserver' = [homeserver EXCEPT !.keys = setup]
  <2>1. /\ setup # 0 /\ setup' = 0
        /\ UNCHANGED <<env, secret, pending, requests, inbox, trustB, reading, version, versionAnswer,
                       rounds, made>>
    BY DEF KeysUploaded
  <2>2. /\ homeserver'.keys = setup /\ homeserver'.backup = homeserver.backup
        /\ homeserver'.storage = homeserver.storage /\ homeserver'.held = homeserver.held
        /\ homeserver' \in [keys : Nat, backup : Nat, signed : Nat, storage : [Names -> Nat],
                            held : [Names -> Nat]]
    BY <1>1 DEF SecretsInv, SecretsTypeOK
  <2>3. SecretsTypeOK' /\ ForgedIsOfB'
    <3>1. signing' \in Nat
      BY <1>1 DEF KeysUploaded, SecretsInv, SecretsTypeOK
    <3>2. QED
      BY <2>1, <2>2, <3>1 DEF SecretsInv, SecretsTypeOK, ForgedIsOfB
  <2>4. ASSUME Undisturbed' PROVE OneGeneration'
    <3>1. Undisturbed /\ OneGeneration
      BY <2>1, <2>4 DEF Undisturbed, SecretsInv
    <3>2. homeserver.keys = 0 /\ \A m \in inbox : m.value \notin Nat
      BY <2>1, <3>1 DEF OneGeneration
    <3>3. QED
      BY <2>1, <2>2, <3>1, <3>2 DEF OneGeneration, May
  <2>5. QED
    BY <2>3, <2>4 DEF SecretsInv
<1>2. CASE May("fail") /\ UNCHANGED homeserver
  <2>1. ~Undisturbed'
    BY <1>2 DEF Undisturbed, May
  <2>2. SecretsTypeOK' /\ ForgedIsOfB'
    BY <1>2 DEF KeysUploaded, SecretsInv, SecretsTypeOK, ForgedIsOfB
  <2>3. QED
    BY <2>1, <2>2 DEF SecretsInv
<1>3. QED
  BY <1>1, <1>2 DEF KeysUploaded

LEMMA SignatureKeepsSecrets == SecretsInv /\ SignaturesUploaded /\ UNCHANGED env => SecretsInv'
<1> SUFFICES ASSUME SecretsInv, SignaturesUploaded, UNCHANGED env PROVE SecretsInv'
  OBVIOUS
<1>1. /\ UNCHANGED <<env, secret, pending, requests, inbox, trustB, setup, reading, version,
                     versionAnswer, rounds, made>>
      /\ homeserver' = [homeserver EXCEPT !.signed = signing] \/ homeserver' = homeserver
  BY DEF SignaturesUploaded
<1>2. /\ homeserver'.keys = homeserver.keys /\ homeserver'.backup = homeserver.backup
      /\ homeserver'.storage = homeserver.storage /\ homeserver'.held = homeserver.held
      /\ homeserver' \in [keys : Nat, backup : Nat, signed : Nat, storage : [Names -> Nat],
                          held : [Names -> Nat]]
      /\ signing' \in Nat
  BY <1>1 DEF SignaturesUploaded, SecretsInv, SecretsTypeOK
<1>3. SecretsTypeOK' /\ ForgedIsOfB'
  BY <1>1, <1>2 DEF SecretsInv, SecretsTypeOK, ForgedIsOfB
<1>4. ASSUME Undisturbed' PROVE OneGeneration'
  <2>1. Undisturbed /\ OneGeneration
    BY <1>1, <1>4 DEF Undisturbed, SecretsInv
  <2>2. QED
    BY <1>1, <1>2, <2>1 DEF OneGeneration, May
<1>5. QED
  BY <1>3, <1>4 DEF SecretsInv

LEMMA ReadKeepsSecrets == SecretsInv /\ ReadSecret /\ UNCHANGED env => SecretsInv'
<1> SUFFICES ASSUME SecretsInv, ReadSecret, UNCHANGED env PROVE SecretsInv'
  OBVIOUS
<1>1. UNCHANGED <<env, secret, pending, requests, inbox, trustB, homeserver, setup, signing,
                  version, versionAnswer, rounds, made>>
  BY DEF ReadSecret
<1>2. \/ reading'.keys = reading.keys
      \/ \E n \in Names : /\ homeserver.storage[n] # 0
                          /\ reading'.keys = reading.keys \cup {<<n, homeserver.storage[n]>>}
  <2>1. PICK i \in 1..2 :
          \/ reading' = [done |-> reading.done \cup {ReadOrder[i]},
                         keys |-> reading.keys \cup
                           (IF homeserver.storage[ReadOrder[i]] = 0 THEN {}
                            ELSE {<<ReadOrder[i], homeserver.storage[ReadOrder[i]]>>})]
          \/ reading' = [reading EXCEPT !.done = @ \cup {ReadOrder[i]}]
    BY DEF ReadSecret
  <2>2. ReadOrder[i] \in Names
    BY DEF ReadOrder, Names
  <2>3. CASE reading' = [reading EXCEPT !.done = @ \cup {ReadOrder[i]}]
    BY <2>3
  <2>4. CASE reading' = [done |-> reading.done \cup {ReadOrder[i]},
                         keys |-> reading.keys \cup
                           (IF homeserver.storage[ReadOrder[i]] = 0 THEN {}
                            ELSE {<<ReadOrder[i], homeserver.storage[ReadOrder[i]]>>})]
    <3>1. reading'.keys = reading.keys \cup
                           (IF homeserver.storage[ReadOrder[i]] = 0 THEN {}
                            ELSE {<<ReadOrder[i], homeserver.storage[ReadOrder[i]]>>})
      BY <2>4
    <3>2. QED
      BY <2>2, <3>1
  <2>5. QED
    BY <2>1, <2>3, <2>4
<1>3. \A r \in reading'.keys : \/ r \in reading.keys
                               \/ \E n \in Names : homeserver.storage[n] # 0 /\ r = <<n, homeserver.storage[n]>>
  BY <1>2
<1>4. SecretsTypeOK'
  <2>1. homeserver.storage \in [Names -> Nat]
    BY DEF SecretsInv, SecretsTypeOK
  <2>2. reading'.keys \subseteq Names \X Nat
    BY <1>3, <2>1 DEF SecretsInv, SecretsTypeOK
  <2>3. QED
    BY <1>1, <2>2 DEF SecretsInv, SecretsTypeOK
<1>5. ForgedIsOfB'
  BY <1>1 DEF SecretsInv, ForgedIsOfB
<1>6. ASSUME Undisturbed' PROVE OneGeneration'
  <2>1. Undisturbed /\ OneGeneration
    BY <1>1, <1>6 DEF Undisturbed, SecretsInv
  <2>2. ASSUME NEW n \in Names, NEW g \in Nat, <<n, g>> \in reading'.keys
        PROVE  g # 0 /\ g \in {setup, homeserver.keys} /\ (n = "backup" => g = homeserver.backup)
    BY <1>3, <2>1, <2>2 DEF OneGeneration
  <2>3. QED
    BY <1>1, <2>1, <2>2 DEF OneGeneration, May
<1>7. QED
  BY <1>4, <1>5, <1>6 DEF SecretsInv

LEMMA DecryptKeepsSecrets == SecretsInv /\ DecryptDownloadedSecrets /\ UNCHANGED env => SecretsInv'
<1> SUFFICES ASSUME SecretsInv, DecryptDownloadedSecrets, UNCHANGED env PROVE SecretsInv'
  OBVIOUS
<1>1. /\ UNCHANGED <<env, pending, requests, inbox, trustB, homeserver, setup, version,
                     versionAnswer, rounds, made>>
      /\ reading' = NotReading
  BY DEF DecryptDownloadedSecrets
<1>2. PICK g \in 1..MaxGenerations :
        /\ secret' = [n \in Names |-> IF n \in {k \in Names : <<k, g>> \in reading.keys} THEN g ELSE secret[n]]
        /\ signing' = IF "self" \in {k \in Names : <<k, g>> \in reading.keys} THEN g ELSE signing
  BY DEF DecryptDownloadedSecrets
<1>3. g \in Nat /\ signing' \in Nat
  BY <1>2 DEF SecretsInv, SecretsTypeOK
<1>4. \A n \in Names : secret'[n] = IF <<n, g>> \in reading.keys THEN g ELSE secret[n]
  BY <1>2
<1>5. secret' \in [Names -> Nat]
  <2>1. \A n \in Names : secret[n] \in Nat
    BY DEF SecretsInv, ForgedIsOfB
  <2>2. QED
    BY <1>2, <1>3, <2>1
<1>6. SecretsTypeOK' /\ ForgedIsOfB'
  <2>1. secret' \in [Names -> Int] /\ \A n \in Names : secret'[n] \in Nat
    BY <1>5
  <2>2. reading'.keys = {}
    BY <1>1 DEF NotReading
  <2>3. QED
    BY <1>1, <1>3, <2>1, <2>2 DEF SecretsInv, SecretsTypeOK, ForgedIsOfB
<1>7. ASSUME Undisturbed' PROVE OneGeneration'
  <2>1. Undisturbed /\ OneGeneration
    BY <1>1, <1>7 DEF Undisturbed, SecretsInv
  <2>2. reading'.keys = {}
    BY <1>1 DEF NotReading
  <2>3. \A n \in Names : <<n, g>> \in reading.keys =>
          g \in {setup, homeserver.keys} /\ (n = "backup" => g = homeserver.backup)
    BY <1>3, <2>1 DEF OneGeneration
  <2>4. \A n \in Names : secret'[n] \in {0, setup, homeserver.keys}
    BY <1>4, <2>1, <2>3 DEF OneGeneration
  <2>5. secret'["backup"] \in {0, homeserver.backup}
        /\ (version # 0 => secret'["backup"] = version)
    BY <1>4, <2>1, <2>3, SecretsNames DEF OneGeneration
  <2>6. QED
    BY <1>1, <2>1, <2>2, <2>4, <2>5 DEF OneGeneration, May
<1>8. QED
  BY <1>6, <1>7 DEF SecretsInv

LEMMA BackupKeepsSecrets == SecretsInv /\ GetBackupVersion /\ UNCHANGED env => SecretsInv'
<1> SUFFICES ASSUME SecretsInv, GetBackupVersion, UNCHANGED env PROVE SecretsInv'
  OBVIOUS
<1>1. /\ UNCHANGED <<env, secret, pending, requests, inbox, trustB, homeserver, setup, reading,
                     signing, rounds, made>>
      /\ versionAnswer' \in Int
      /\ version' \in Nat
      /\ version' # 0 => version' = secret["backup"]
  BY DEF GetBackupVersion, VersionKnown, SaveBackupVersion, DeleteBackupVersion, SecretsInv,
         SecretsTypeOK
<1>2. SecretsTypeOK' /\ ForgedIsOfB'
  BY <1>1 DEF SecretsInv, SecretsTypeOK, ForgedIsOfB
<1>3. ASSUME Undisturbed' PROVE OneGeneration'
  <2>1. Undisturbed /\ OneGeneration
    BY <1>1, <1>3 DEF Undisturbed, SecretsInv
  <2>2. QED
    BY <1>1, <2>1 DEF OneGeneration, May
<1>4. QED
  BY <1>2, <1>3 DEF SecretsInv

\* With no setup to cut off, a restart takes only the requests and what was read.
LEMMA RestartKeepsSecrets == SecretsInv /\ RestartSecrets /\ UNCHANGED env => SecretsInv'
<1> SUFFICES ASSUME SecretsInv, RestartSecrets, UNCHANGED env PROVE SecretsInv'
  OBVIOUS
<1>1. /\ UNCHANGED <<env, secret, requests, inbox, trustB, homeserver, version, rounds, made>>
      /\ pending' = {} /\ reading' = NotReading /\ setup' = 0 /\ signing' = 0
      /\ versionAnswer' = VersionAsked /\ May("restart")
  BY DEF RestartSecrets
<1>2. reading'.keys = {}
  BY <1>1 DEF NotReading
<1>3. SecretsTypeOK' /\ ForgedIsOfB'
  BY <1>1, <1>2 DEF SecretsInv, SecretsTypeOK, ForgedIsOfB, VersionAsked
<1>4. ASSUME Undisturbed' PROVE OneGeneration'
  <2>1. Undisturbed /\ OneGeneration
    BY <1>1, <1>4 DEF Undisturbed, SecretsInv
  <2>2. setup = 0
    BY <1>1, <2>1 DEF OneGeneration, Undisturbed, May
  <2>3. QED
    BY <1>1, <1>2, <2>1, <2>2 DEF OneGeneration, May
<1>5. QED
  BY <1>3, <1>4 DEF SecretsInv

LEMMA SecretsInvNext == SecretsInv /\ SecretsNext /\ UNCHANGED env => SecretsInv'
<1> SUFFICES ASSUME SecretsInv, SecretsNext, UNCHANGED env PROVE SecretsInv'
  OBVIOUS
<1>1. CASE RequestCrossSigningKeys
  <2>1. /\ rounds' \in Nat
        /\ pending' = pending \cup {[name |-> n, round |-> rounds'] : n \in Names}
        /\ requests' = requests \cup
             {[id |-> r, device |-> d] : r \in {[name |-> n, round |-> rounds'] : n \in Names}, d \in Verified}
        /\ Verified \subseteq Others
    BY <1>1 DEF RequestCrossSigningKeys, SecretsInv, SecretsTypeOK, Verified, Others
  <2>2. pending' \subseteq Ids /\ requests' \subseteq [id : Ids, device : Others]
    BY <2>1 DEF SecretsInv, SecretsTypeOK, Ids
  <2>3. UNCHANGED <<secret, inbox, trustB, homeserver, setup, reading, signing, version,
                    versionAnswer, made>>
    BY <1>1 DEF RequestCrossSigningKeys
  <2>4. trustB' \in BOOLEAN /\ (trustB' => trustB) /\ signing' \in Nat
    BY <2>3 DEF SecretsInv, SecretsTypeOK
  <2>5. QED
    BY <2>1, <2>2, <2>3, <2>4, SecretsFrame
<1>2. CASE RequestFailed \/ RequestTimesOut \/ RevokeB
  <2>1. /\ pending' \subseteq pending /\ requests' \subseteq requests
        /\ (trustB' <=> trustB) \/ trustB' = FALSE
        /\ trustB' = trustB \/ trustB' = FALSE
        /\ UNCHANGED <<secret, inbox, homeserver, setup, reading, signing, version,
                       versionAnswer, rounds, made>>
    BY <1>2 DEF RequestFailed, RequestTimesOut, RevokeB
  <2>2. /\ rounds' \in Nat /\ pending' \subseteq Ids /\ requests' \subseteq [id : Ids, device : Others]
        /\ signing' \in Nat
    BY <2>1 DEF SecretsInv, SecretsTypeOK
  <2>3. trustB' \in BOOLEAN /\ (trustB' => trustB)
    <3>1. trustB \in BOOLEAN
      BY DEF SecretsInv, SecretsTypeOK
    <3>2. QED
      BY ONLY <2>1, <3>1, Zenon
  <2>4. QED
    BY <2>1, <2>2, <2>3, SecretsFrame
<1>3. CASE OtherAnswers
  BY <1>3, AnswersKeepSecrets
<1>4. CASE ReceiveSecret
  BY <1>4, ReceiveKeepsSecrets
<1>5. CASE SetupCrosssigning \/ SetupGivesUp
  BY <1>5, SetupKeepsSecrets
<1>6. CASE KeysUploaded
  BY <1>6, UploadKeepsSecrets
<1>7. CASE SignaturesUploaded
  BY <1>7, SignatureKeepsSecrets
<1>8. CASE ResetElsewhere
  <2>1. /\ UNCHANGED <<env, secret, pending, requests, inbox, trustB, setup, reading, signing,
                       version, versionAnswer, rounds>>
        /\ made' = made + 1
        /\ homeserver' = [homeserver EXCEPT !.keys = made', !.backup = made',
                                            !.storage = [n \in Names |-> made'],
                                            !.held = [n \in Names |-> made']]
    BY <1>8 DEF ResetElsewhere
  <2>2. SecretsTypeOK' /\ ForgedIsOfB'
    <3>1. made' \in Nat
      BY <2>1 DEF SecretsInv, SecretsTypeOK
    <3>2. [n \in Names |-> made'] \in [Names -> Nat]
      BY <3>1
    <3>3. homeserver' \in [keys : Nat, backup : Nat, signed : Nat, storage : [Names -> Nat],
                           held : [Names -> Nat]]
      BY <2>1, <3>1, <3>2 DEF SecretsInv, SecretsTypeOK
    <3>4. QED
      BY <2>1, <3>1, <3>3 DEF SecretsInv, SecretsTypeOK, ForgedIsOfB
  <2>3. ~Undisturbed'
    BY <1>8 DEF ResetElsewhere, Undisturbed, May
  <2>4. QED
    BY <2>2, <2>3 DEF SecretsInv
<1>9. CASE ReadSecret
  BY <1>9, ReadKeepsSecrets
<1>10. CASE DecryptDownloadedSecrets
  BY <1>10, DecryptKeepsSecrets
<1>11. CASE BackupVersionServed
  <2>1. /\ UNCHANGED <<env, secret, pending, requests, inbox, trustB, homeserver, setup, reading,
                       signing, version, rounds, made>>
        /\ versionAnswer' \in Int
    BY <1>11 DEF BackupVersionServed, SecretsInv, SecretsTypeOK
  <2>2. QED
    BY <2>1 DEF SecretsInv, SecretsTypeOK, ForgedIsOfB, Undisturbed, OneGeneration, May
<1>12. CASE GetBackupVersion
  BY <1>12, BackupKeepsSecrets
<1>13. CASE RestartSecrets
  BY <1>13, RestartKeepsSecrets
<1>14. QED
  BY <1>1, <1>2, <1>3, <1>4, <1>5, <1>6, <1>7, <1>8, <1>9, <1>10, <1>11, <1>12, <1>13 DEF SecretsNext

\* The secrets stored here are those of the user's present keys, the backup
\* version in use is that of the key stored here, and nothing of a device that
\* is no longer verified is among them, whichever of the ways they come by
\* (setupCrosssigning, handle_olm_message, decryptDownloadedSecrets), for any
\* number of rounds, restarts and generations.
THEOREM SecretsBelong == Spec => []SecretsFit
<1>1. SecretsInv => SecretsFit
  BY SecretsNames DEF SecretsInv, SecretsFit, SecretsTypeOK, ForgedIsOfB, OneGeneration, Forged
<1>2. SecretsInv /\ [Next]_vars => SecretsInv'
  <2> SUFFICES ASSUME SecretsInv, [Next]_vars PROVE SecretsInv'
    OBVIOUS
  <2>1. CASE SecretsNext /\ UNCHANGED env
    BY <2>1, SecretsInvNext
  <2>2. CASE UNCHANGED <<env, secretVars>>
    BY <2>2 DEF secretVars, SecretsInv, SecretsTypeOK, ForgedIsOfB, Undisturbed, OneGeneration, May
  <2>3. QED
    BY <2>1, <2>2 DEF Next, vars
<1>3. QED
  BY <1>1, <1>2, InitSecrets, PTL DEF Spec


------------------------------------------------------------------------------
(* The channels.                                                             *)

Message == [session : Nat, preKey : BOOLEAN]
Opened  == 1 .. sessions

ChannelsTypeOK ==
  /\ sessions \in Nat /\ ours \in Seq(Nat)
  /\ fromPeer \in Seq(Message) /\ asked \in Seq(Message)
  /\ peer \in [sessions : SUBSET Nat, current : Nat, heard : SUBSET Nat, openable : SUBSET Nat]
  /\ \A i \in 1 .. Len(ours) : ours[i] \in Opened
  /\ \A i \in 1 .. Len(fromPeer) : fromPeer[i].session \in Opened
  /\ \A i \in 1 .. Len(asked) : asked[i].session \in Opened
  /\ Readable \subseteq Opened
  /\ peer.current # NoSession => peer.current \in peer.sessions

\* What the peer can no longer read was stored before all that it can: it
\* loses its sessions all at once, and only younger ones are stored again.
LostAreOlder ==
  \A i, j \in 1 .. Len(ours) : i < j /\ ours[i] \in Readable => ours[j] \in Readable

\* The peer reads what it sends, also while its messages are on their way.
PeerReadsItsOwn ==
  /\ \A i \in 1 .. Len(fromPeer) : fromPeer[i].session \in peer.sessions
  /\ \A i \in 1 .. Len(asked) : asked[i].session \in peer.sessions

ChannelsInv == ChannelsTypeOK /\ (~May("midway") => LostAreOlder /\ PeerReadsItsOwn)

LEMMA RemovedAt ==
  ASSUME NEW S, NEW q \in Seq(S), NEW i \in 1 .. Len(q)
  PROVE  /\ RemoveAt(q, i) \in Seq(S)
         /\ Len(RemoveAt(q, i)) = Len(q) - 1
         /\ \A j \in 1 .. Len(q) - 1 : RemoveAt(q, i)[j] = IF j < i THEN q[j] ELSE q[j + 1]
<1> DEFINE front == SubSeq(q, 1, i - 1)
           back  == SubSeq(q, i + 1, Len(q))
<1>1. /\ front \in Seq(S) /\ Len(front) = i - 1
      /\ \A j \in 1 .. i - 1 : front[j] = q[j]
  BY SubSeqProperties
<1>2. /\ back \in Seq(S) /\ Len(back) = Len(q) - i
      /\ \A j \in 1 .. Len(q) - i : back[j] = q[i + j]
  BY SubSeqProperties
<1>3. RemoveAt(q, i) = front \o back
  BY DEF RemoveAt
<1> HIDE DEF front, back
<1>4. /\ front \o back \in Seq(S)
      /\ Len(front \o back) = Len(front) + Len(back)
      /\ \A j \in 1 .. Len(front) + Len(back) :
           (front \o back)[j] = IF j <= Len(front) THEN front[j] ELSE back[j - Len(front)]
  BY <1>1, <1>2, ConcatProperties
<1>5. Len(q) \in Nat
  OBVIOUS
<1>6. Len(front) + Len(back) = Len(q) - 1
  BY <1>1, <1>2, <1>5
<1>7. ASSUME NEW j \in 1 .. Len(q) - 1
      PROVE  (front \o back)[j] = IF j < i THEN q[j] ELSE q[j + 1]
  <2>1. CASE j < i
    BY <1>1, <1>4, <1>5, <1>6, <2>1
  <2>2. CASE ~(j < i)
    <3>1. (front \o back)[j] = back[j - (i - 1)]
      BY <1>1, <1>4, <1>5, <1>6, <2>2
    <3>2. j - (i - 1) \in 1 .. Len(q) - i /\ i + (j - (i - 1)) = j + 1
      BY <1>5, <2>2
    <3>3. QED
      BY <1>2, <2>2, <3>1, <3>2
  <2>3. QED
    BY <2>1, <2>2
<1>8. QED
  BY <1>3, <1>4, <1>6, <1>7

\* What saveOlmSession does to the order: s becomes the last, the others keep theirs.
LEMMA Saved ==
  ASSUME NEW s \in Nat, ours \in Seq(Nat), ours' = SaveOlmSession(s)
  PROVE  /\ ours' \in Seq(Nat) /\ Len(ours') \in Nat \ {0}
         /\ \A i \in 1 .. Len(ours') : ours'[i] = s \/ \E a \in 1 .. Len(ours) : ours'[i] = ours[a]
         /\ \A i, j \in 1 .. Len(ours') : i < j =>
              ours'[j] = s \/ \E a, b \in 1 .. Len(ours) : a < b /\ ours'[i] = ours[a] /\ ours'[j] = ours[b]
<1> DEFINE kept == Besides(s)
<1>1. /\ kept \in Seq(Nat)
      /\ \A i \in 1 .. Len(kept) : \E a \in 1 .. Len(ours) : kept[i] = ours[a]
      /\ \A i, j \in 1 .. Len(kept) : i < j =>
           \E a, b \in 1 .. Len(ours) : a < b /\ kept[i] = ours[a] /\ kept[j] = ours[b]
  <2>1. CASE s \in Range(ours)
    <3>1. PICK k : k = CHOOSE i \in DOMAIN ours : ours[i] = s
      OBVIOUS
    <3>2. k \in 1 .. Len(ours)
      BY <2>1, <3>1 DEF Range
    <3>3. kept = RemoveAt(ours, k)
      BY <2>1, <3>1 DEF Besides
    <3>4. /\ kept \in Seq(Nat) /\ Len(kept) = Len(ours) - 1
          /\ \A j \in 1 .. Len(ours) - 1 : kept[j] = IF j < k THEN ours[j] ELSE ours[j + 1]
      BY <3>2, <3>3, RemovedAt
    <3>5. Len(ours) \in Nat
      OBVIOUS
    <3> HIDE DEF kept
    <3> DEFINE was(n) == IF n < k THEN n ELSE n + 1
    <3>6. ASSUME NEW n \in 1 .. Len(kept) PROVE was(n) \in 1 .. Len(ours) /\ kept[n] = ours[was(n)]
      <4>1. CASE n < k
        BY <3>2, <3>4, <3>5, <4>1
      <4>2. CASE ~(n < k)
        BY <3>2, <3>4, <3>5, <4>2
      <4>3. QED
        BY <4>1, <4>2
    <3>7. \A m, n \in 1 .. Len(kept) : m < n => was(m) < was(n)
      BY <3>2, <3>4, <3>5
    <3> HIDE DEF was
    <3>8. QED
      BY <3>4, <3>6, <3>7
  <2>2. CASE s \notin Range(ours)
    BY <2>2 DEF Besides
  <2>3. QED
    BY <2>1, <2>2
<1>2. ours' = Append(kept, s)
  BY DEF SaveOlmSession
<1> HIDE DEF kept
<1>3. /\ ours' \in Seq(Nat) /\ Len(ours') = Len(kept) + 1 /\ Len(kept) \in Nat
      /\ \A i \in 1 .. Len(kept) : ours'[i] = kept[i]
      /\ ours'[Len(kept) + 1] = s
  BY <1>1, <1>2, AppendProperties
<1>4. ASSUME NEW i \in 1 .. Len(ours'), NEW j \in 1 .. Len(ours'), i < j
      PROVE  ours'[j] = s \/ \E a, b \in 1 .. Len(ours) : a < b /\ ours'[i] = ours[a] /\ ours'[j] = ours[b]
  <2>1. CASE j = Len(kept) + 1
    BY <1>3, <2>1
  <2>2. CASE j \in 1 .. Len(kept)
    <3>1. i \in 1 .. Len(kept)
      BY <1>3, <1>4, <2>2
    <3>2. ours'[i] = kept[i] /\ ours'[j] = kept[j]
      BY <1>3, <2>2, <3>1
    <3>3. QED
      BY <1>1, <1>4, <2>2, <3>1, <3>2
  <2>3. QED
    BY <1>3, <2>1, <2>2
<1>5. ASSUME NEW i \in 1 .. Len(ours') PROVE ours'[i] = s \/ \E a \in 1 .. Len(ours) : ours'[i] = ours[a]
  <2>1. CASE i = Len(kept) + 1
    BY <1>3, <2>1
  <2>2. CASE i \in 1 .. Len(kept)
    BY <1>1, <1>3, <2>2
  <2>3. QED
    BY <1>3, <2>1, <2>2
<1>6. QED
  BY <1>3, <1>4, <1>5

\* What is stored again keeps the order, when the peer can read it or nothing
\* that is stored.
LEMMA SavedKeepsOrder ==
  ASSUME NEW s \in Nat, ours \in Seq(Nat), LostAreOlder, ours' = SaveOlmSession(s),
         s \in Readable \/ \A a \in 1 .. Len(ours) : ours[a] \notin Readable
  PROVE  \A i, j \in 1 .. Len(ours') : i < j /\ ours'[i] \in Readable => ours'[j] \in Readable
<1>1. /\ ours' \in Seq(Nat) /\ Len(ours') \in Nat \ {0}
      /\ \A i \in 1 .. Len(ours') : ours'[i] = s \/ \E a \in 1 .. Len(ours) : ours'[i] = ours[a]
      /\ \A i, j \in 1 .. Len(ours') : i < j =>
           ours'[j] = s \/ \E a, b \in 1 .. Len(ours) : a < b /\ ours'[i] = ours[a] /\ ours'[j] = ours[b]
  BY Saved
<1>2. ASSUME NEW i \in 1 .. Len(ours'), NEW j \in 1 .. Len(ours'), i < j, ours'[i] \in Readable
      PROVE  ours'[j] \in Readable
  <2>1. CASE ours'[j] = s
    BY <1>1, <1>2, <2>1
  <2>2. CASE \E a, b \in 1 .. Len(ours) : a < b /\ ours'[i] = ours[a] /\ ours'[j] = ours[b]
    BY <1>2, <2>2 DEF LostAreOlder
  <2>3. QED
    BY <1>1, <1>2, <2>1, <2>2
<1>3. QED
  BY <1>2

\* Actions that leave the sessions as they are and only take messages away.
LEMMA ChannelsFrame ==
  ASSUME ChannelsInv, UNCHANGED <<env, sessions, peer>>, ours' \in Seq(Nat),
         \A i \in 1 .. Len(ours') : ours'[i] \in Opened,
         ~May("midway") =>
           \A i, j \in 1 .. Len(ours') : i < j /\ ours'[i] \in Readable => ours'[j] \in Readable,
         fromPeer' \in Seq(Message), asked' \in Seq(Message),
         \A i \in 1 .. Len(fromPeer') : \E k \in 1 .. Len(fromPeer) : fromPeer'[i] = fromPeer[k],
         \A i \in 1 .. Len(asked') : \/ \E k \in 1 .. Len(asked) : asked'[i] = asked[k]
                                     \/ \E k \in 1 .. Len(fromPeer) : asked'[i] = fromPeer[k]
  PROVE  ChannelsInv'
<1>1. Readable' = Readable /\ Opened' = Opened
  BY DEF Readable, Opened
<1>2. ChannelsTypeOK'
  BY <1>1 DEF ChannelsInv, ChannelsTypeOK
<1>3. ASSUME ~May("midway")' PROVE LostAreOlder' /\ PeerReadsItsOwn'
  <2>1. ~May("midway") /\ PeerReadsItsOwn
    BY <1>3 DEF May, ChannelsInv
  <2>2. LostAreOlder'
    BY <1>1, <2>1 DEF LostAreOlder
  <2>3. PeerReadsItsOwn'
    BY <2>1 DEF PeerReadsItsOwn
  <2>4. QED
    BY <2>2, <2>3
<1>4. QED
  BY <1>2, <1>3 DEF ChannelsInv

LEMMA InitChannels == Init => ChannelsInv
<1> SUFFICES ASSUME Init PROVE ChannelsInv
  OBVIOUS
<1>1. /\ ours = <<>> /\ asked = <<>> /\ fromPeer = <<>> /\ sessions = 0
      /\ peer = [sessions |-> {}, current |-> NoSession, heard |-> {}, openable |-> {}]
  BY DEF Init, ChannelsInit
<1>2. Len(ours) = 0 /\ Len(asked) = 0 /\ Len(fromPeer) = 0 /\ Readable = {} /\ NoSession \in Nat
  BY <1>1 DEF Readable, NoSession
<1>3. ours \in Seq(Nat) /\ asked \in Seq(Message) /\ fromPeer \in Seq(Message)
  BY <1>1
<1>4. QED
  BY <1>1, <1>2, <1>3 DEF ChannelsInv, ChannelsTypeOK, LostAreOlder, PeerReadsItsOwn

\* A message sent makes the latest session the latest.
LEMMA SendKeepsOrder ==
  ASSUME ChannelsInv, ours # <<>>, ours' = SaveOlmSession(GetLatestOlmSession(ours))
  PROVE  /\ ours' \in Seq(Nat) /\ \A i \in 1 .. Len(ours') : ours'[i] \in Opened
         /\ ~May("midway") =>
              \A i, j \in 1 .. Len(ours') : i < j /\ ours'[i] \in Readable => ours'[j] \in Readable
<1>1. ours \in Seq(Nat) /\ \A i \in 1 .. Len(ours) : ours[i] \in Opened
  BY DEF ChannelsInv, ChannelsTypeOK
<1>2. Len(ours) \in 1 .. Len(ours)
  <2>1. Len(ours) \in Nat /\ Len(ours) # 0
    BY <1>1, EmptySeq
  <2>2. QED
    BY <2>1
<1>3. PICK s \in Nat : s = ours[Len(ours)]
  BY <1>1, <1>2, ElementOfSeq
<1>4. ours' = SaveOlmSession(s) /\ s \in Opened
  BY <1>1, <1>2, <1>3 DEF GetLatestOlmSession, Last
<1>5. ours' \in Seq(Nat) /\ \A i \in 1 .. Len(ours') : ours'[i] \in Opened
  BY <1>1, <1>4, Saved
<1>6. ASSUME LostAreOlder PROVE s \in Readable \/ \A a \in 1 .. Len(ours) : ours[a] \notin Readable
  <2>1. ASSUME NEW a \in 1 .. Len(ours), ours[a] \in Readable PROVE s \in Readable
    <3>1. CASE a = Len(ours)
      BY <1>3, <2>1, <3>1
    <3>2. CASE a < Len(ours)
      BY <1>2, <1>3, <1>6, <2>1, <3>2 DEF LostAreOlder
    <3>3. QED
      BY <1>2, <3>1, <3>2
  <2>2. QED
    BY <2>1
<1>7. ASSUME ~May("midway")
      PROVE  \A i, j \in 1 .. Len(ours') : i < j /\ ours'[i] \in Readable => ours'[j] \in Readable
  <2>1. LostAreOlder
    BY <1>7 DEF ChannelsInv
  <2>2. QED
    BY <1>1, <1>4, <1>6, <2>1, SavedKeepsOrder
<1>8. QED
  BY <1>5, <1>7

LEMMA UnchangedOrder ==
  ASSUME ChannelsInv, ours' = ours
  PROVE  /\ ours' \in Seq(Nat) /\ \A i \in 1 .. Len(ours') : ours'[i] \in Opened
         /\ ~May("midway") =>
              \A i, j \in 1 .. Len(ours') : i < j /\ ours'[i] \in Readable => ours'[j] \in Readable
BY DEF ChannelsInv, ChannelsTypeOK, LostAreOlder

LEMMA HandlingKeepsChannels == ChannelsInv /\ HandleOlmMessage /\ UNCHANGED env => ChannelsInv'
<1> SUFFICES ASSUME ChannelsInv, UNCHANGED env,
                    NEW i \in 1 .. MaxOnTheWay, Answered(i), asked' = RemoveAt(asked, i),
                    HandleDecrypted(i) \/ HandlePreKeyMessage(i) \/ HandleUndecryptable(i),
                    UNCHANGED <<listed, fromPeer, peer, sessions, breaks>>
             PROVE  ChannelsInv'
  BY DEF HandleOlmMessage
<1>1. asked \in Seq(Message) /\ fromPeer \in Seq(Message)
  BY DEF ChannelsInv, ChannelsTypeOK
<1>2. i \in 1 .. Len(asked) /\ Len(asked) \in Nat
  BY <1>1 DEF Answered
<1>3. /\ asked' \in Seq(Message) /\ Len(asked') = Len(asked) - 1
      /\ \A j \in 1 .. Len(asked) - 1 : asked'[j] = IF j < i THEN asked[j] ELSE asked[j + 1]
  BY <1>1, <1>2, RemovedAt
<1>4. ASSUME NEW j \in 1 .. Len(asked') PROVE \E k \in 1 .. Len(asked) : asked'[j] = asked[k]
  <2>1. CASE j < i
    BY <1>2, <1>3, <2>1
  <2>2. CASE ~(j < i)
    <3>1. j + 1 \in 1 .. Len(asked) /\ asked'[j] = asked[j + 1]
      BY <1>2, <1>3, <2>2
    <3>2. QED
      BY <3>1
  <2>3. QED
    BY <2>1, <2>2
<1>5. /\ ours' \in Seq(Nat) /\ \A k \in 1 .. Len(ours') : ours'[k] \in Opened
      /\ ~May("midway") =>
           \A k, j \in 1 .. Len(ours') : k < j /\ ours'[k] \in Readable => ours'[j] \in Readable
  <2>1. CASE ours' = ours
    BY <2>1, UnchangedOrder
  <2>2. CASE HandlePreKeyMessage(i)
    <3>1. asked[i] \in Message
      BY <1>1, <1>2, ElementOfSeq
    <3>2. PICK s \in Nat : s = asked[i].session
      BY <3>1 DEF Message
    <3>3. ours' = SaveOlmSession(s)
      BY <2>2, <3>2 DEF HandlePreKeyMessage
    <3>4. ours \in Seq(Nat) /\ \A k \in 1 .. Len(ours) : ours[k] \in Opened
      BY DEF ChannelsInv, ChannelsTypeOK
    <3>5. s \in Opened
      BY <1>2, <3>2 DEF ChannelsInv, ChannelsTypeOK
    <3>6. ASSUME ~May("midway") PROVE LostAreOlder /\ s \in Readable
      BY <1>2, <3>2, <3>6 DEF ChannelsInv, PeerReadsItsOwn, Readable
    <3>7. ours' \in Seq(Nat) /\ \A k \in 1 .. Len(ours') : ours'[k] \in Opened
      BY <3>3, <3>4, <3>5, Saved
    <3>8. ~May("midway") =>
            \A k, j \in 1 .. Len(ours') : k < j /\ ours'[k] \in Readable => ours'[j] \in Readable
      BY <3>3, <3>4, <3>6, SavedKeepsOrder
    <3>9. QED
      BY <3>7, <3>8
  <2>3. CASE HandleDecrypted(i) \/ HandleUndecryptable(i)
    BY <2>1, <2>3 DEF HandleDecrypted, HandleUndecryptable, Recover, SendEncrypted, QueryFirst,
                      SendInNewSession
  <2>4. QED
    BY <2>2, <2>3
<1>6. \A j \in 1 .. Len(fromPeer') : \E k \in 1 .. Len(fromPeer) : fromPeer'[j] = fromPeer[k]
  OBVIOUS
<1>7. QED
  BY <1>1, <1>3, <1>4, <1>5, <1>6, ChannelsFrame

\* A new session of ours is one that the peer can open.
LEMMA ClaimKeepsChannels == ChannelsInv /\ ClaimAnswered /\ UNCHANGED env => ChannelsInv'
<1> SUFFICES ASSUME ChannelsInv, ClaimAnswered, UNCHANGED env PROVE ChannelsInv'
  OBVIOUS
<1>1. UNCHANGED <<asked, fromPeer>>
  BY DEF ClaimAnswered
<1>2. CASE UNCHANGED <<ours, peer, sessions>>
  <2>1. fromPeer' \in Seq(Message) /\ asked' \in Seq(Message)
    BY <1>1 DEF ChannelsInv, ChannelsTypeOK
  <2>2. QED
    BY <1>1, <1>2, <2>1, UnchangedOrder, ChannelsFrame
<1>3. CASE /\ sessions' = sessions + 1
           /\ ours' = SaveOlmSession(sessions')
           /\ peer' = [peer EXCEPT !.openable = @ \cup {sessions'}]
  <2>1. PICK s \in Nat : s = sessions + 1
    BY DEF ChannelsInv, ChannelsTypeOK
  <2>2. ours' = SaveOlmSession(s) /\ sessions' = s
    BY <1>3, <2>1
  <2>3. /\ peer'.openable = peer.openable \cup {s} /\ peer'.sessions = peer.sessions
        /\ peer'.current = peer.current
        /\ peer' \in [sessions : SUBSET Nat, current : Nat, heard : SUBSET Nat, openable : SUBSET Nat]
    BY <1>3, <2>2 DEF ChannelsInv, ChannelsTypeOK
  <2>4. Readable' = Readable \cup {s} /\ Opened \subseteq Opened' /\ s \in Opened' /\ s \notin Opened
    BY <2>1, <2>2, <2>3 DEF Readable, Opened, ChannelsInv, ChannelsTypeOK
  <2>5. ours \in Seq(Nat) /\ \A k \in 1 .. Len(ours) : ours[k] \in Opened
    BY DEF ChannelsInv, ChannelsTypeOK
  <2>6. /\ ours' \in Seq(Nat)
        /\ \A i \in 1 .. Len(ours') : ours'[i] = s \/ \E a \in 1 .. Len(ours) : ours'[i] = ours[a]
        /\ \A i, j \in 1 .. Len(ours') : i < j =>
             ours'[j] = s \/ \E a, b \in 1 .. Len(ours) : a < b /\ ours'[i] = ours[a] /\ ours'[j] = ours[b]
    BY <2>2, <2>5, Saved
  <2>7. ChannelsTypeOK'
    <3>1. \A i \in 1 .. Len(ours') : ours'[i] \in Opened'
      BY <2>4, <2>5, <2>6
    <3>2. QED
      BY <1>1, <2>2, <2>3, <2>4, <2>6, <3>1 DEF ChannelsInv, ChannelsTypeOK
  <2>8. ASSUME ~May("midway")' PROVE LostAreOlder' /\ PeerReadsItsOwn'
    <3>1. LostAreOlder /\ PeerReadsItsOwn
      BY <2>8 DEF May, ChannelsInv
    <3>2. ASSUME NEW i \in 1 .. Len(ours'), NEW j \in 1 .. Len(ours'), i < j, ours'[i] \in Readable'
          PROVE  ours'[j] \in Readable'
      <4>1. CASE ours'[j] = s
        BY <2>4, <4>1
      <4>2. ASSUME NEW a \in 1 .. Len(ours), NEW b \in 1 .. Len(ours), a < b,
                   ours'[i] = ours[a], ours'[j] = ours[b]
            PROVE  ours'[j] \in Readable'
        <5>1. ours[a] \in Readable
          BY <2>4, <2>5, <3>2, <4>2
        <5>2. QED
          BY <2>4, <3>1, <4>2, <5>1 DEF LostAreOlder
      <4>3. QED
        BY <2>6, <3>2, <4>1, <4>2
    <3>3. LostAreOlder'
      BY <3>2 DEF LostAreOlder
    <3>4. PeerReadsItsOwn'
      BY <1>1, <2>3, <3>1 DEF PeerReadsItsOwn
    <3>5. QED
      BY <3>3, <3>4
  <2>9. QED
    BY <2>7, <2>8 DEF ChannelsInv
<1>4. QED
  BY <1>2, <1>3 DEF ClaimAnswered

\* The peer speaks in a session of its own, a new one if it has none.
LEMMA PeerSendsKeepsChannels == ChannelsInv /\ PeerSends /\ UNCHANGED env => ChannelsInv'
<1> SUFFICES ASSUME ChannelsInv, PeerSends, UNCHANGED env PROVE ChannelsInv'
  OBVIOUS
<1>1. PICK m : m = [session |-> peer'.current, preKey |-> peer'.current \notin peer'.heard]
  OBVIOUS
<1>2. fromPeer' = Append(fromPeer, m) /\ UNCHANGED <<ours, asked>>
  BY <1>1 DEF PeerSends
<1>3. \/ /\ peer.current = NoSession
         /\ sessions' = sessions + 1
         /\ peer' = [peer EXCEPT !.sessions = @ \cup {sessions'}, !.current = sessions']
      \/ peer.current # NoSession /\ UNCHANGED <<sessions, peer>>
  BY DEF PeerSends
<1>4. /\ peer' \in [sessions : SUBSET Nat, current : Nat, heard : SUBSET Nat, openable : SUBSET Nat]
      /\ sessions' \in Nat /\ Opened \subseteq Opened'
      /\ peer.sessions \subseteq peer'.sessions /\ peer'.openable = peer.openable
      /\ peer'.sessions \subseteq peer.sessions \cup (Opened' \ Opened)
      /\ peer'.current \in peer'.sessions
  <2>1. CASE peer.current # NoSession /\ UNCHANGED <<sessions, peer>>
    BY <2>1 DEF ChannelsInv, ChannelsTypeOK, Opened
  <2>2. CASE /\ sessions' = sessions + 1
             /\ peer' = [peer EXCEPT !.sessions = @ \cup {sessions'}, !.current = sessions']
    <3>1. sessions' \in Nat /\ Opened \subseteq Opened' /\ sessions' \in Opened' \ Opened
      BY <2>2 DEF ChannelsInv, ChannelsTypeOK, Opened
    <3>2. /\ peer' \in [sessions : SUBSET Nat, current : Nat, heard : SUBSET Nat, openable : SUBSET Nat]
          /\ peer'.sessions = peer.sessions \cup {sessions'} /\ peer'.openable = peer.openable
          /\ peer'.current = sessions'
      BY <2>2, <3>1 DEF ChannelsInv, ChannelsTypeOK
    <3>3. QED
      BY <3>1, <3>2
  <2>3. QED
    BY <1>3, <2>1, <2>2

<1>5. /\ Readable \subseteq Readable' /\ Readable' \subseteq Opened'
      /\ Readable' \cap Opened = Readable
  BY <1>4 DEF ChannelsInv, ChannelsTypeOK, Readable
<1>6. m \in Message /\ m.session = peer'.current
  <2>1. peer'.current \in Nat /\ (peer'.current \notin peer'.heard) \in BOOLEAN
    BY <1>4
  <2>2. QED
    BY <1>1, <2>1 DEF Message
<1>7. /\ fromPeer' \in Seq(Message)
      /\ \A k \in 1 .. Len(fromPeer') :
           fromPeer'[k] = m \/ \E l \in 1 .. Len(fromPeer) : fromPeer'[k] = fromPeer[l]
  <2>1. fromPeer \in Seq(Message)
    BY DEF ChannelsInv, ChannelsTypeOK
  <2>2. /\ Append(fromPeer, m) \in Seq(Message)
        /\ Len(Append(fromPeer, m)) = Len(fromPeer) + 1
        /\ \A k \in 1 .. Len(fromPeer) : Append(fromPeer, m)[k] = fromPeer[k]
        /\ Append(fromPeer, m)[Len(fromPeer) + 1] = m
    BY <1>6, <2>1, AppendProperties
  <2>3. Len(fromPeer) \in Nat
    BY <2>1
  <2>4. QED
    BY <1>2, <2>2, <2>3
<1>8. ChannelsTypeOK'
  <2>1. \A k \in 1 .. Len(fromPeer') : fromPeer'[k].session \in Opened'
    BY <1>4, <1>5, <1>6, <1>7 DEF ChannelsInv, ChannelsTypeOK, Readable
  <2>2. QED
    BY <1>2, <1>4, <1>5, <1>7, <2>1 DEF ChannelsInv, ChannelsTypeOK
<1>9. ASSUME ~May("midway")' PROVE LostAreOlder' /\ PeerReadsItsOwn'
  <2>1. LostAreOlder /\ PeerReadsItsOwn
    BY <1>9 DEF May, ChannelsInv
  <2>2. LostAreOlder'
    BY <1>2, <1>5, <2>1 DEF LostAreOlder, ChannelsInv, ChannelsTypeOK
  <2>3. PeerReadsItsOwn'
    BY <1>2, <1>4, <1>6, <1>7, <2>1 DEF PeerReadsItsOwn
  <2>4. QED
    BY <2>2, <2>3
<1>10. QED
  BY <1>8, <1>9 DEF ChannelsInv

\* What the peer can open, it reads from then on.
LEMMA PeerReceivesKeepsChannels == ChannelsInv /\ PeerReceives /\ UNCHANGED env => ChannelsInv'
<1> SUFFICES ASSUME ChannelsInv, PeerReceives, UNCHANGED env PROVE ChannelsInv'
  OBVIOUS
<1>1. UNCHANGED <<ours, asked, fromPeer, sessions>>
  BY DEF PeerReceives
<1>2. /\ peer' \in [sessions : SUBSET Nat, current : Nat, heard : SUBSET Nat, openable : SUBSET Nat]
      /\ Readable' = Readable /\ peer.sessions \subseteq peer'.sessions
      /\ peer'.current # NoSession => peer'.current \in peer'.sessions
  <2>1. CASE peer' = peer
    BY <2>1 DEF ChannelsInv, ChannelsTypeOK, Readable
  <2>2. CASE \E s \in Readable :
               peer' = [sessions |-> peer.sessions \cup {s}, current |-> s,
                        heard |-> peer.heard \cup {s}, openable |-> peer.openable \ {s}]
    BY <2>2 DEF ChannelsInv, ChannelsTypeOK, Readable
  <2>3. QED
    BY <2>1, <2>2 DEF PeerReceives
<1>3. ChannelsTypeOK'
  BY <1>1, <1>2 DEF ChannelsInv, ChannelsTypeOK, Opened
<1>4. ASSUME ~May("midway")' PROVE LostAreOlder' /\ PeerReadsItsOwn'
  BY <1>1, <1>2, <1>4 DEF May, ChannelsInv, LostAreOlder, PeerReadsItsOwn
<1>5. QED
  BY <1>3, <1>4 DEF ChannelsInv

\* Unless it loses them midway, nothing of its sessions is on its way.
LEMMA ForgetKeepsChannels == ChannelsInv /\ PeerForgets /\ UNCHANGED env => ChannelsInv'
<1> SUFFICES ASSUME ChannelsInv, PeerForgets, UNCHANGED env PROVE ChannelsInv'
  OBVIOUS
<1>1. /\ UNCHANGED <<ours, asked, fromPeer, sessions>>
      /\ peer' = [peer EXCEPT !.sessions = {}, !.current = NoSession, !.heard = {}]
      /\ May("midway") \/ (asked = <<>> /\ fromPeer = <<>> /\ peer.openable = {})
  BY DEF PeerForgets, Quiet
<1>2. /\ peer' \in [sessions : SUBSET Nat, current : Nat, heard : SUBSET Nat, openable : SUBSET Nat]
      /\ peer'.sessions = {} /\ peer'.openable = peer.openable /\ peer'.current = NoSession
  BY <1>1 DEF ChannelsInv, ChannelsTypeOK, NoSession
<1>3. ChannelsTypeOK'
  BY <1>1, <1>2 DEF ChannelsInv, ChannelsTypeOK, Opened, Readable
<1>4. ASSUME ~May("midway")' PROVE LostAreOlder' /\ PeerReadsItsOwn'
  <2>1. Len(asked') = 0 /\ Len(fromPeer') = 0 /\ Readable' = {}
    BY <1>1, <1>2, <1>4 DEF May, Readable
  <2>2. QED
    BY <2>1 DEF LostAreOlder, PeerReadsItsOwn
<1>5. QED
  BY <1>3, <1>4 DEF ChannelsInv

LEMMA RollbackKeepsOrder ==
  ASSUME ChannelsInv, NEW n \in 0 .. Len(ours) - 1, ours' = SubSeq(ours, 1, n)
  PROVE  /\ ours' \in Seq(Nat) /\ \A i \in 1 .. Len(ours') : ours'[i] \in Opened
         /\ ~May("midway") =>
              \A i, j \in 1 .. Len(ours') : i < j /\ ours'[i] \in Readable => ours'[j] \in Readable
<1>1. ours \in Seq(Nat) /\ \A i \in 1 .. Len(ours) : ours[i] \in Opened
  BY DEF ChannelsInv, ChannelsTypeOK
<1>2. n \in Nat /\ 1 .. n \subseteq 1 .. Len(ours)
  BY <1>1
<1>3. \A i \in 1 .. n : ours[i] \in Nat
  BY <1>1, <1>2, ElementOfSeq
<1>4. /\ SubSeq(ours, 1, n) \in Seq(Nat)
      /\ Len(SubSeq(ours, 1, n)) = IF 1 <= n THEN n - 1 + 1 ELSE 0
      /\ \A i \in 1 .. n - 1 + 1 : SubSeq(ours, 1, n)[i] = ours[1 + i - 1]
  BY <1>2, <1>3, SubSeqProperties
<1>5. ours' \in Seq(Nat) /\ Len(ours') = n /\ \A i \in 1 .. n : ours'[i] = ours[i]
  BY <1>2, <1>4
<1>6. QED
  BY <1>1, <1>2, <1>5 DEF ChannelsInv, LostAreOlder

LEMMA ChannelsInvNext == ChannelsInv /\ ChannelsNext /\ UNCHANGED env => ChannelsInv'
<1> SUFFICES ASSUME ChannelsInv, ChannelsNext, UNCHANGED env PROVE ChannelsInv'
  OBVIOUS
<1>a. asked \in Seq(Message) /\ fromPeer \in Seq(Message) /\ ours \in Seq(Nat)
  BY DEF ChannelsInv, ChannelsTypeOK
<1>1. CASE Send
  <2>1. UNCHANGED <<asked, fromPeer, peer, sessions>>
    BY <1>1 DEF Send
  <2>2. ours' = ours \/ (ours # <<>> /\ ours' = SaveOlmSession(GetLatestOlmSession(ours)))
    BY <1>1 DEF Send, SendEncrypted, QueryFirst, SendInNewSession, SendInLatestSession
  <2>3. /\ ours' \in Seq(Nat) /\ \A i \in 1 .. Len(ours') : ours'[i] \in Opened
        /\ ~May("midway") =>
             \A i, j \in 1 .. Len(ours') : i < j /\ ours'[i] \in Readable => ours'[j] \in Readable
    BY <2>2, SendKeepsOrder, UnchangedOrder
  <2>4. QED
    BY <1>a, <2>1, <2>3, ChannelsFrame
<1>2. CASE ClaimAnswered
  BY <1>2, ClaimKeepsChannels
<1>3. CASE QueryAnswered \/ TenHours \/ ListChanges
  <2>1. UNCHANGED <<ours, asked, fromPeer, peer, sessions>>
    BY <1>3 DEF QueryAnswered, TenHours, ListChanges
  <2>2. QED
    BY <1>a, <2>1, UnchangedOrder, ChannelsFrame
<1>4. CASE HandleToDevice
  <2>1. /\ UNCHANGED <<ours, peer, sessions>> /\ fromPeer # <<>>
        /\ asked' = Append(asked, Head(fromPeer)) /\ fromPeer' = Tail(fromPeer)
    BY <1>4 DEF HandleToDevice
  <2>2. PICK m \in Message : m = Head(fromPeer)
    BY <1>a, <2>1, HeadTailProperties
  <2>3. m = fromPeer[1] /\ 1 \in 1 .. Len(fromPeer)
    BY <1>a, <2>1, <2>2
  <2>4. /\ asked' \in Seq(Message) /\ Len(asked') = Len(asked) + 1 /\ Len(asked) \in Nat
        /\ \A k \in 1 .. Len(asked) : asked'[k] = asked[k]
        /\ asked'[Len(asked) + 1] = m
    BY <1>a, <2>1, <2>2, AppendProperties
  <2>5. /\ fromPeer' \in Seq(Message) /\ Len(fromPeer') = Len(fromPeer) - 1
        /\ \A k \in 1 .. Len(fromPeer') : fromPeer'[k] = fromPeer[k + 1]
    BY <1>a, <2>1, HeadTailProperties
  <2>6. \A k \in 1 .. Len(fromPeer') : \E l \in 1 .. Len(fromPeer) : fromPeer'[k] = fromPeer[l]
    <3>1. \A k \in 1 .. Len(fromPeer') : k + 1 \in 1 .. Len(fromPeer)
      BY <1>a, <2>5
    <3>2. QED
      BY <2>5, <3>1
  <2>7. \A k \in 1 .. Len(asked') : \/ \E l \in 1 .. Len(asked) : asked'[k] = asked[l]
                                    \/ \E l \in 1 .. Len(fromPeer) : asked'[k] = fromPeer[l]
    BY <2>3, <2>4
  <2>8. QED
    BY <2>1, <2>4, <2>5, <2>6, <2>7, UnchangedOrder, ChannelsFrame
<1>5. CASE HandleOlmMessage
  BY <1>5, HandlingKeepsChannels
<1>6. CASE DropMessage
  <2>1. UNCHANGED <<ours, fromPeer, peer, sessions>> /\ asked # <<>> /\ asked' = Tail(asked)
    BY <1>6 DEF DropMessage
  <2>2. /\ asked' \in Seq(Message) /\ Len(asked') = Len(asked) - 1
        /\ \A k \in 1 .. Len(asked') : asked'[k] = asked[k + 1]
    BY <1>a, <2>1, HeadTailProperties
  <2>3. \A k \in 1 .. Len(asked') : k + 1 \in 1 .. Len(asked)
    BY <1>a, <2>2
  <2>4. \A k \in 1 .. Len(asked') : \E l \in 1 .. Len(asked) : asked'[k] = asked[l]
    BY <2>2, <2>3
  <2>5. QED
    BY <1>a, <2>1, <2>2, <2>4, UnchangedOrder, ChannelsFrame
<1>7. CASE Crash
  <2>1. UNCHANGED <<ours, fromPeer, peer, sessions>> /\ asked' = <<>>
    BY <1>7 DEF Crash, Start
  <2>2. asked' \in Seq(Message) /\ Len(asked') = 0
    BY <2>1
  <2>3. QED
    BY <1>a, <2>1, <2>2, UnchangedOrder, ChannelsFrame
<1>8. CASE Rollback
  <2>1. /\ UNCHANGED <<fromPeer, peer, sessions>> /\ asked' = <<>>
        /\ \E n \in 0 .. Len(ours) - 1 : ours' = SubSeq(ours, 1, n)
    BY <1>8 DEF Rollback, Start
  <2>2. asked' \in Seq(Message) /\ Len(asked') = 0
    BY <2>1
  <2>3. QED
    BY <1>a, <2>1, <2>2, RollbackKeepsOrder, ChannelsFrame
<1>9. CASE PeerSends
  BY <1>9, PeerSendsKeepsChannels
<1>10. CASE PeerReceives
  BY <1>10, PeerReceivesKeepsChannels
<1>11. CASE PeerForgets
  BY <1>11, ForgetKeepsChannels
<1>12. QED
  BY <1>1, <1>2, <1>3, <1>4, <1>5, <1>6, <1>7, <1>8, <1>9, <1>10, <1>11 DEF ChannelsNext

\* As long as the peer does not lose its sessions while something is on its
\* way: once it speaks in a session that is stored here, getLatestOlmSession
\* names one that it can read or open, whatever was lost, rolled back, or
\* opened on both sides before.
THEOREM LatestIsReadable == Spec => []LatestReadable
<1>1. ChannelsInv => LatestReadable
  <2> SUFFICES ASSUME ChannelsInv, ~May("midway"), peer.current \in Range(ours)
               PROVE  ours[Len(ours)] \in Readable
    BY DEF LatestReadable, GetLatestOlmSession, Last
  <2>1. /\ ours \in Seq(Nat) /\ Len(ours) \in Nat
        /\ \A i \in 1 .. Len(ours) : ours[i] \in Opened
        /\ peer.current # NoSession => peer.current \in Readable
    BY DEF ChannelsInv, ChannelsTypeOK, Readable
  <2>2. PICK i \in 1 .. Len(ours) : ours[i] = peer.current
    BY <2>1 DEF Range
  <2>3. ours[i] \in Readable
    BY <2>1, <2>2 DEF Opened, NoSession
  <2>4. CASE i = Len(ours)
    BY <2>3, <2>4
  <2>5. CASE i < Len(ours)
    BY <2>1, <2>3, <2>5 DEF ChannelsInv, LostAreOlder
  <2>6. QED
    BY <2>1, <2>4, <2>5
<1>2. ChannelsInv /\ [Next]_vars => ChannelsInv'
  <2> SUFFICES ASSUME ChannelsInv, [Next]_vars PROVE ChannelsInv'
    OBVIOUS
  <2>1. CASE ChannelsNext /\ UNCHANGED env
    BY <2>1, ChannelsInvNext
  <2>2. CASE UNCHANGED <<env, channelsVars>>
    BY <2>2 DEF channelsVars, ChannelsInv, ChannelsTypeOK, LostAreOlder, PeerReadsItsOwn, Readable,
                Opened, May
  <2>3. QED
    BY <2>1, <2>2 DEF Next, vars
<1>3. QED
  BY <1>1, <1>2, InitChannels, PTL DEF Spec


------------------------------------------------------------------------------
(* The one-time and fallback keys.                                           *)

Key        == [id : Nat, run : Nat]
Account    == [keys : SUBSET Key, fresh : SUBSET Key, cur : Key, prev : Key, next : Nat]
UploadType == [kind : {"start", "ensure"}, keys : SUBSET Key, replace : BOOLEAN, fallback : Key,
               status : {"sent", "ok"}, count : Nat]

KeysTypeOK ==
  /\ account \in Account /\ run \in Nat
  /\ keyServer \in [keys : SUBSET Key, fallback : Key, unused : BOOLEAN]
  /\ IsFiniteSet(keyServer.keys) /\ IsFiniteSet(mail)
  /\ mail \subseteq Key
  /\ uploads \subseteq UploadType
  /\ syncAnswer \subseteq [count : Nat, unused : BOOLEAN, listed : BOOLEAN]

\* An id is given once, and fallback keys are no one-time keys.
IdsAreGivenOnce ==
  /\ \A k \in Private(account) : k.id <= account.next
  /\ \A k, l \in account.keys : k.id = l.id => k = l
  /\ {account.cur, account.prev, NoKey} \cap account.keys = {}
  /\ account.cur = account.prev => account.cur = NoKey

\* At most one upload, and none while the answer of /sync is handled; the
\* account is saved unless new keys are being uploaded.
OneUpload ==
  /\ \A u, v \in uploads : u = v
  /\ syncAnswer # {} => uploads = {}
  /\ (\A u \in uploads : u.kind = "start") => saved = account /\ account.fresh = {}

\* What is being uploaded, and which fallback key the server has meanwhile.
UploadIsNew ==
  /\ \A u \in uploads : u.status = "sent" =>
       /\ u.keys \subseteq account.keys /\ u.keys \cap (keyServer.keys \cup mail) = {}
       /\ u.kind = "start" => u.keys = {} /\ u.fallback = NoKey
       /\ IsFiniteSet(u.keys)
       /\ Cardinality(keyServer.keys) + Cardinality(u.keys) <= MaxOnetimeKeys
       /\ u.fallback = NoKey => keyServer.fallback = account.cur
       /\ u.fallback # NoKey => u.fallback = account.cur /\ keyServer.fallback = account.prev
  /\ (\A u \in uploads : u.status # "sent") => keyServer.fallback = account.cur

\* A one-time key of the account is on the server, in use by a message on its
\* way, or being uploaded, and the first two are all there; before a fallback
\* key is replaced nobody needs the one before it.
InUseIsKept ==
  /\ \A k \in account.keys : \/ k \in keyServer.keys \cup mail
                             \/ \E u \in uploads : u.status = "sent" /\ k \in u.keys
  /\ keyServer.keys \subseteq account.keys /\ keyServer.keys \cap mail = {}
  /\ mail \subseteq Private(account) \ {NoKey}
  /\ keyServer.fallback = account.cur /\ ~keyServer.unused => account.prev \notin mail

\* The answers count at least what is still on the server.
CountsAreBounds ==
  /\ Cardinality(keyServer.keys) <= MaxOnetimeKeys
  /\ Cardinality(mail) <= MaxOnetimeKeys
  /\ \A s \in syncAnswer : /\ Cardinality(keyServer.keys) <= s.count
                           /\ s.count <= MaxOnetimeKeys
                           /\ ~s.unused => ~keyServer.unused
  /\ \A u \in uploads : u.kind = "start" /\ u.status # "sent" =>
       Cardinality(keyServer.keys) <= u.count /\ u.count <= MaxOnetimeKeys

AllKept ==
  KeysTypeOK /\ IdsAreGivenOnce /\ OneUpload /\ UploadIsNew /\ InUseIsKept /\ CountsAreBounds

KeysInv == Timely => AllKept

Made(n) == {[id |-> account.next + i, run |-> run] : i \in 1 .. n}

LEMMA MadeIsCounted ==
  ASSUME account.next \in Nat, run \in Nat, NEW n \in Nat
  PROVE  /\ IsFiniteSet(Made(n)) /\ Cardinality(Made(n)) \in Nat /\ Cardinality(Made(n)) <= n
         /\ Made(n) \subseteq Key
         /\ \A k \in Made(n) : account.next < k.id /\ k.id <= account.next + n
         /\ \A k, l \in Made(n) : k.id = l.id => k = l
<1> DEFINE f == [i \in 1 .. n |-> [id |-> account.next + i, run |-> run]]
<1>1. f \in Surjection(1 .. n, Made(n))
  BY DEF Surjection, Made
<1>2. IsFiniteSet(1 .. n) /\ Cardinality(1 .. n) = n
  BY FS_Interval
<1>3. IsFiniteSet(Made(n)) /\ Cardinality(Made(n)) <= n
  BY <1>1, <1>2, FS_Surjection
<1>4. Cardinality(Made(n)) \in Nat
  BY <1>3, FS_CardinalityType
<1>5. QED
  BY <1>3, <1>4 DEF Made, Key

\* Libolm's limit drops nothing as long as there are not more than it keeps.
LEMMA NothingIsDropped ==
  ASSUME NEW K \in SUBSET Key, IsFiniteSet(K), Cardinality(K) <= Capacity
  PROVE  Newest(K) = K
<1>1. ASSUME NEW k \in K PROVE Cardinality({j \in K : j.id > k.id}) < Capacity
  <2>1. {j \in K : j.id > k.id} \in SUBSET (K \ {k})
    BY DEF Key
  <2>2. IsFiniteSet(K \ {k}) /\ Cardinality(K \ {k}) = Cardinality(K) - 1
    BY FS_RemoveElement
  <2>3. Cardinality({j \in K : j.id > k.id}) <= Cardinality(K \ {k})
    BY <2>1, <2>2, FS_Subset
  <2>4. /\ Cardinality(K) \in Nat /\ Capacity \in Nat
        /\ Cardinality({j \in K : j.id > k.id}) \in Nat
    BY <2>1, <2>2, FS_CardinalityType, FS_Subset, MaxOnetimeKeysAssumption DEF Capacity
  <2>5. QED
    BY <2>2, <2>3, <2>4
<1>2. QED
  BY <1>1 DEF Newest

\* ensureOneTimeKeyCount after an answer that counts at least what is left: all
\* the keys of the account stay, the missing ones are new.
LEMMA Generated ==
  ASSUME KeysTypeOK, IdsAreGivenOnce, CountsAreBounds, account.fresh = {},
         account.keys \subseteq keyServer.keys \cup mail,
         NEW c \in Nat, c <= MaxOnetimeKeys, Cardinality(keyServer.keys) <= c,
         NEW r \in BOOLEAN, NEW n \in Nat, n = Missing(c),
         account' = Generate(account, n, r)
  PROVE  /\ account' \in Account /\ account'.next >= account.next
         /\ account'.keys = account.keys \cup Made(n)
         /\ account'.fresh \cap account'.keys = Made(n)
         /\ ~r => /\ account'.cur = account.cur /\ account'.prev = account.prev
                  /\ account'.cur \notin account'.fresh
         /\ r => /\ account'.prev = account.cur /\ account'.cur \in account'.fresh
                 /\ account'.cur.id > account.next
         /\ IdsAreGivenOnce'
<1> DEFINE fallback == [id |-> account.next + n + 1, run |-> run]
<1>1. /\ account \in Account /\ account.next \in Nat /\ run \in Nat
      /\ account.keys \subseteq Key /\ account.cur \in Key /\ account.prev \in Key
  BY DEF KeysTypeOK, Account
<1>2. /\ IsFiniteSet(Made(n)) /\ Cardinality(Made(n)) \in Nat /\ Cardinality(Made(n)) <= n
      /\ Made(n) \subseteq Key
      /\ \A k \in Made(n) : account.next < k.id /\ k.id <= account.next + n
      /\ \A k, l \in Made(n) : k.id = l.id => k = l
  BY <1>1, MadeIsCounted
<1>3. IsFiniteSet(account.keys) /\ Cardinality(account.keys) <= c + MaxOnetimeKeys
      /\ Cardinality(account.keys) \in Nat
  <2>1. IsFiniteSet(keyServer.keys) /\ IsFiniteSet(mail) /\ IsFiniteSet(keyServer.keys \cap mail)
    BY FS_Intersection DEF KeysTypeOK
  <2>2. /\ IsFiniteSet(keyServer.keys \cup mail)
        /\ Cardinality(keyServer.keys \cup mail) =
             Cardinality(keyServer.keys) + Cardinality(mail) - Cardinality(keyServer.keys \cap mail)
    BY <2>1, FS_Union
  <2>3. /\ Cardinality(keyServer.keys) \in Nat /\ Cardinality(mail) \in Nat
        /\ Cardinality(keyServer.keys \cap mail) \in Nat
        /\ Cardinality(keyServer.keys \cup mail) \in Nat
    BY <2>1, <2>2, FS_CardinalityType
  <2>4. Cardinality(mail) <= MaxOnetimeKeys
    BY DEF CountsAreBounds
  <2>5. Cardinality(keyServer.keys \cup mail) <= c + MaxOnetimeKeys
    BY <2>2, <2>3, <2>4, MaxOnetimeKeysAssumption
  <2>6. IsFiniteSet(account.keys) /\ Cardinality(account.keys) <= Cardinality(keyServer.keys \cup mail)
    BY <2>2, FS_Subset
  <2>7. Cardinality(account.keys) \in Nat
    BY <2>6, FS_CardinalityType
  <2>8. QED
    BY <2>3, <2>5, <2>6, <2>7, MaxOnetimeKeysAssumption
<1>4. Newest(account.keys \cup Made(n)) = account.keys \cup Made(n)
  <2>1. n <= MaxOnetimeKeys - c
    BY MaxOnetimeKeysAssumption DEF Missing
  <2>2. /\ IsFiniteSet(account.keys \cup Made(n)) /\ IsFiniteSet(account.keys \cap Made(n))
        /\ Cardinality(account.keys \cup Made(n)) =
             Cardinality(account.keys) + Cardinality(Made(n)) - Cardinality(account.keys \cap Made(n))
    BY <1>2, <1>3, FS_Union, FS_Intersection
  <2>3. Cardinality(account.keys \cap Made(n)) \in Nat
    BY <2>2, FS_CardinalityType
  <2>4. Cardinality(account.keys \cup Made(n)) <= Capacity
    BY <1>2, <1>3, <2>1, <2>2, <2>3, MaxOnetimeKeysAssumption DEF Capacity
  <2>5. account.keys \cup Made(n) \in SUBSET Key
    BY <1>1, <1>2
  <2>6. QED
    BY <2>2, <2>4, <2>5, NothingIsDropped
<1>5. account' =
        [keys  |-> account.keys \cup Made(n),
         fresh |-> (account.fresh \cup Made(n) \cup (IF r THEN {fallback} ELSE {}))
                     \cap ((account.keys \cup Made(n)) \cup {IF r THEN fallback ELSE account.cur}),
         cur   |-> IF r THEN fallback ELSE account.cur,
         prev  |-> IF r THEN account.cur ELSE account.prev,
         next  |-> account.next + n + (IF r THEN 1 ELSE 0)]
  BY <1>4 DEF Generate, Made
<1>6. fallback \in Key /\ fallback.id = account.next + n + 1
  BY <1>1 DEF Key
<1>7. \A k \in account.keys \cup {account.cur, account.prev} : k.id \in Nat /\ k.id <= account.next
  BY <1>1 DEF IdsAreGivenOnce, Private, Key
<1>8. fallback \notin account.keys \cup Made(n) \cup {account.cur, account.prev}
  <2>1. \A k \in account.keys \cup Made(n) \cup {account.cur, account.prev} : k.id < account.next + n + 1
    <3>1. \A k \in Made(n) : k.id \in Nat
      BY <1>2 DEF Key
    <3>2. QED
      BY <1>1, <1>2, <1>7, <3>1
  <2>2. QED
    BY <1>1, <1>6, <2>1
<1> HIDE DEF fallback
<1>9. account.cur \notin Made(n) /\ account.prev \notin Made(n) /\ NoKey \notin Made(n)
      /\ Made(n) \cap account.keys = {}
  <2>1. \A k \in Made(n) : k.id \in Nat /\ account.next < k.id
    BY <1>2 DEF Key
  <2>2. NoKey.id = 0
    BY DEF NoKey
  <2>3. QED
    BY <1>1, <1>7, <2>1, <2>2
<1>10. /\ account'.keys = account.keys \cup Made(n)
       /\ account'.fresh = Made(n) \cup (IF r THEN {fallback} ELSE {})
       /\ account'.cur = IF r THEN fallback ELSE account.cur
       /\ account'.prev = IF r THEN account.cur ELSE account.prev
       /\ account'.next = account.next + n + (IF r THEN 1 ELSE 0)
  BY <1>5, <1>9
<1>11. account' \in Account
  <2>1. account'.next \in Nat /\ account'.keys \subseteq Key /\ account'.fresh \subseteq Key
        /\ account'.cur \in Key /\ account'.prev \in Key
    BY <1>1, <1>2, <1>6, <1>10
  <2>2. QED
    BY <1>5, <2>1, <1>10 DEF Account
<1>12. IdsAreGivenOnce'
  <2>1. ASSUME NEW k \in Private(account)' PROVE k.id <= account'.next
    <3>1. k \in account.keys \cup Made(n) \cup {account.cur, account.prev, fallback}
      BY <1>10 DEF Private
    <3>2. CASE k = fallback
      <4>1. r \/ k \in account.keys \cup Made(n) \cup {account.cur, account.prev}
        BY <1>10 DEF Private
      <4>2. r
        BY <1>8, <3>2, <4>1
      <4>3. QED
        BY <1>1, <1>6, <1>10, <3>2, <4>2
    <3>3. CASE k \in Made(n)
      BY <1>1, <1>2, <1>10, <3>3 DEF Key
    <3>4. CASE k \in account.keys \cup {account.cur, account.prev}
      BY <1>1, <1>7, <1>10, <3>4
    <3>5. QED
      BY <3>1, <3>2, <3>3, <3>4
  <2>2. ASSUME NEW k \in account'.keys, NEW l \in account'.keys, k.id = l.id PROVE k = l
    <3>1. \A m \in Made(n) : m.id \in Nat /\ account.next < m.id
      BY <1>2 DEF Key
    <3>2. QED
      BY <1>1, <1>2, <1>7, <1>10, <2>2, <3>1 DEF IdsAreGivenOnce
  <2>3. {account'.cur, account'.prev, NoKey} \cap account'.keys = {}
    BY <1>8, <1>9, <1>10 DEF IdsAreGivenOnce
  <2>4. account'.cur = account'.prev => account'.cur = NoKey
    BY <1>8, <1>10 DEF IdsAreGivenOnce
  <2>5. QED
    BY <2>1, <2>2, <2>3, <2>4 DEF IdsAreGivenOnce
<1>13. QED
  BY <1>1, <1>6, <1>8, <1>9, <1>10, <1>11, <1>12

LEMMA EnsureKeepsKeys ==
  ASSUME AllKept,
         \A u \in uploads : u.kind = "start" /\ u.status # "sent",
         NEW c \in Nat, c <= MaxOnetimeKeys, Cardinality(keyServer.keys) <= c,
         NEW r \in BOOLEAN, r => ~keyServer.unused,
         EnsureOneTimeKeyCount(c, r, {}),
         UNCHANGED <<saved, run, keyServer, mail>>, syncAnswer' = {}
  PROVE  AllKept'
<1> USE DEF AllKept
<1>1. /\ account.fresh = {} /\ saved = account /\ keyServer.fallback = account.cur
      /\ account.keys \subseteq keyServer.keys \cup mail
  BY DEF OneUpload, UploadIsNew, InUseIsKept
<1>2. PICK n \in Nat : n = Missing(c)
  BY MaxOnetimeKeysAssumption DEF Missing
<1>3. CASE /\ WantsUpload(c, r)
           /\ account' = Generate(account, Missing(c), r)
           /\ uploads' = {} \cup {Upload(account', "ensure", r)}
  <2>1. /\ account' \in Account /\ account'.next >= account.next
        /\ account'.keys = account.keys \cup Made(n)
        /\ account'.fresh \cap account'.keys = Made(n)
        /\ ~r => /\ account'.cur = account.cur /\ account'.prev = account.prev
                 /\ account'.cur \notin account'.fresh
        /\ r => /\ account'.prev = account.cur /\ account'.cur \in account'.fresh
                /\ account'.cur.id > account.next
        /\ IdsAreGivenOnce'
    BY <1>1, <1>2, <1>3, Generated
  <2>2. PICK u : u = [kind |-> "ensure", keys |-> Made(n), replace |-> r,
                      fallback |-> IF r THEN account'.cur ELSE NoKey, status |-> "sent", count |-> 0]
    OBVIOUS
  <2>3. uploads' = {u}
    BY <1>3, <2>1, <2>2 DEF Upload
  <2>4. /\ account.next \in Nat /\ run \in Nat /\ account'.cur \in Key /\ NoKey \in Key
        /\ account'.keys \subseteq Key
    BY <2>1 DEF KeysTypeOK, Account, Key, NoKey
  <2>5. /\ IsFiniteSet(Made(n)) /\ Cardinality(Made(n)) \in Nat /\ Cardinality(Made(n)) <= n
        /\ Made(n) \subseteq Key
        /\ \A k \in Made(n) : account.next < k.id /\ k.id <= account.next + n
    BY <2>4, MadeIsCounted
  <2>6. /\ u \in UploadType /\ u.kind = "ensure" /\ u.keys = Made(n) /\ u.status = "sent"
        /\ u.fallback = IF r THEN account'.cur ELSE NoKey
    BY <2>2, <2>4, <2>5 DEF UploadType
  <2>7. KeysTypeOK'
    BY <2>1, <2>3, <2>6 DEF KeysTypeOK
  <2>8. \A k \in keyServer.keys \cup mail : k.id \in Nat /\ k.id <= account.next
    BY DEF InUseIsKept, IdsAreGivenOnce, KeysTypeOK, Private, Key
  <2>9. Made(n) \cap (keyServer.keys \cup mail) = {}
    <3>1. \A k \in Made(n) : k.id \in Nat
      BY <2>5 DEF Key
    <3>2. QED
      BY <2>4, <2>5, <2>8, <3>1
  <2>10. Cardinality(keyServer.keys) + Cardinality(Made(n)) <= MaxOnetimeKeys
    <3>1. Cardinality(keyServer.keys) \in Nat
      BY FS_CardinalityType DEF KeysTypeOK
    <3>2. c + n = MaxOnetimeKeys
      BY <1>2, MaxOnetimeKeysAssumption DEF Missing
    <3>3. QED
      BY <2>5, <3>1, <3>2, MaxOnetimeKeysAssumption
  <2>11. r => account'.cur # NoKey
    <3>1. r => account'.cur.id \in Nat /\ account'.cur.id > account.next
      BY <2>1, <2>4 DEF Key
    <3>2. NoKey.id = 0
      BY DEF NoKey
    <3>3. QED
      BY <2>4, <3>1, <3>2
  <2>12. UploadIsNew'
    <3>1. /\ u.keys \subseteq account'.keys /\ u.keys \cap (keyServer'.keys \cup mail') = {}
          /\ IsFiniteSet(u.keys)
          /\ Cardinality(keyServer'.keys) + Cardinality(u.keys) <= MaxOnetimeKeys
      BY <2>1, <2>5, <2>6, <2>9, <2>10
    <3>2. /\ u.fallback = NoKey => keyServer'.fallback = account'.cur
          /\ u.fallback # NoKey => u.fallback = account'.cur /\ keyServer'.fallback = account'.prev
      BY <1>1, <2>1, <2>6, <2>11
    <3>3. QED
      BY <2>3, <2>6, <3>1, <3>2 DEF UploadIsNew
  <2>13. InUseIsKept'
    <3>1. \A k \in account'.keys : \/ k \in keyServer'.keys \cup mail'
                                   \/ \E v \in uploads' : v.status = "sent" /\ k \in v.keys
      BY <1>1, <2>1, <2>3, <2>6
    <3>2. keyServer'.keys \subseteq account'.keys /\ keyServer'.keys \cap mail' = {}
      BY <2>1 DEF InUseIsKept
    <3>3. r => account.prev \notin mail
      BY <1>1 DEF InUseIsKept
    <3>4. mail' \subseteq Private(account)' \ {NoKey}
      BY <2>1, <3>3 DEF InUseIsKept, Private
    <3>5. keyServer'.fallback = account'.cur /\ ~keyServer'.unused => account'.prev \notin mail'
      <4>1. CASE r
        <5>1. keyServer'.fallback # account'.cur
          <6>1. account.cur.id \in Nat /\ account.cur.id <= account.next
            BY DEF IdsAreGivenOnce, KeysTypeOK, Account, Private, Key
          <6>2. account'.cur.id \in Nat /\ account'.cur.id > account.next
            BY <2>1, <2>4, <4>1 DEF Key
          <6>3. QED
            BY <1>1, <2>4, <6>1, <6>2
        <5>2. QED
          BY <5>1
      <4>2. CASE ~r
        BY <2>1, <4>2 DEF InUseIsKept
      <4>3. QED
        BY <4>1, <4>2
    <3>6. QED
      BY <3>1, <3>2, <3>4, <3>5 DEF InUseIsKept
  <2>14. OneUpload' /\ CountsAreBounds'
    BY <2>3, <2>6 DEF OneUpload, CountsAreBounds
  <2>15. QED
    BY <2>1, <2>7, <2>12, <2>13, <2>14
<1>4. CASE account' = account /\ uploads' = {}
  BY <1>1, <1>4 DEF KeysTypeOK, IdsAreGivenOnce, OneUpload, UploadIsNew, InUseIsKept, CountsAreBounds,
                    Private
<1>5. ~(c > 2 * MaxOnetimeKeys)
  BY MaxOnetimeKeysAssumption
<1>6. QED
  BY <1>3, <1>4, <1>5 DEF EnsureOneTimeKeyCount

LEMMA HandleSyncKeeps == AllKept /\ HandleSync => AllKept'
<1> SUFFICES ASSUME AllKept, HandleSync PROVE AllKept'
  OBVIOUS
<1>1. PICK s \in syncAnswer : /\ syncAnswer' = {}
                              /\ \/ s.listed /\ EnsureOneTimeKeyCount(s.count, ~s.unused, uploads)
                                 \/ ~s.listed /\ UNCHANGED <<account, uploads>>
                              /\ UNCHANGED <<saved, run, keyServer, mail>>
  BY DEF HandleSync
<1>2. uploads = {}
  BY <1>1 DEF AllKept, OneUpload
<1>3. s.count \in Nat /\ s.unused \in BOOLEAN
  BY DEF AllKept, KeysTypeOK
<1>4. /\ s.count <= MaxOnetimeKeys /\ Cardinality(keyServer.keys) <= s.count
      /\ ~s.unused => ~keyServer.unused
  BY DEF AllKept, CountsAreBounds
<1>5. PICK r \in BOOLEAN : r = ~s.unused
  BY <1>3
<1>6. CASE EnsureOneTimeKeyCount(s.count, ~s.unused, uploads)
  <2>1. EnsureOneTimeKeyCount(s.count, r, {})
    BY <1>2, <1>5, <1>6
  <2>2. r => ~keyServer.unused
    BY <1>4, <1>5
  <2>3. QED
    BY <1>1, <1>2, <1>3, <1>4, <2>1, <2>2, EnsureKeepsKeys
\* An answer that does not list the count is only taken note of.
<1>7. CASE UNCHANGED <<account, uploads>>
  BY <1>1, <1>7 DEF AllKept, KeysTypeOK, IdsAreGivenOnce, OneUpload, UploadIsNew, InUseIsKept,
                    CountsAreBounds, Private
<1>8. QED
  BY <1>1, <1>6, <1>7

LEMMA StartAnsweredKeeps == AllKept /\ StartAnswered => AllKept'
<1> SUFFICES ASSUME AllKept, StartAnswered PROVE AllKept'
  OBVIOUS
<1>1. PICK u \in uploads :
        /\ u.kind = "start" /\ u.status # "sent"
        /\ \/ /\ CarriesOn(u.status)
              /\ EnsureOneTimeKeyCount(IF u.status = "ok" THEN u.count ELSE 0, FALSE, uploads \ {u})
           \/ ~CarriesOn(u.status)
        /\ UNCHANGED <<saved, run, keyServer, syncAnswer, mail>>
  BY DEF StartAnswered
<1>2. u \in UploadType /\ u.status = "ok" /\ u.count \in Nat
  BY <1>1 DEF AllKept, KeysTypeOK, UploadType
<1>3. uploads = {u} /\ syncAnswer = {} /\ uploads \ {u} = {}
  BY <1>1 DEF AllKept, OneUpload
<1>4. EnsureOneTimeKeyCount(u.count, FALSE, {})
  BY <1>1, <1>2, <1>3 DEF CarriesOn
<1>5. u.count <= MaxOnetimeKeys /\ Cardinality(keyServer.keys) <= u.count
  BY <1>1 DEF AllKept, CountsAreBounds
<1>6. \A v \in uploads : v.kind = "start" /\ v.status # "sent"
  BY <1>1, <1>3
<1>7. QED
  BY <1>1, <1>2, <1>3, <1>4, <1>5, <1>6, EnsureKeepsKeys

LEMMA EnsureAnsweredKeeps == AllKept /\ EnsureAnswered => AllKept'
<1> SUFFICES ASSUME AllKept, EnsureAnswered PROVE AllKept'
  OBVIOUS
<1>1. PICK u \in uploads :
        /\ u.kind = "ensure" /\ u.status # "sent"
        /\ uploads' = uploads \ {u}
        /\ \/ /\ CarriesOn(u.status)
              /\ account' = MarkAsPublished(account)
              /\ saved' = account'
           \/ ~CarriesOn(u.status)
        /\ UNCHANGED <<run, keyServer, syncAnswer, mail>>
  BY DEF EnsureAnswered, SaveOlmAccount
<1>2. u \in UploadType /\ u.status = "ok"
  BY <1>1 DEF AllKept, KeysTypeOK, UploadType
<1>3. uploads = {u} /\ uploads' = {} /\ syncAnswer = {}
  BY <1>1 DEF AllKept, OneUpload
<1>4. /\ account' = [account EXCEPT !.fresh = {}] /\ saved' = account'
  BY <1>1, <1>2 DEF CarriesOn, MarkAsPublished
<1>5. /\ account' \in Account /\ account'.fresh = {} /\ account'.keys = account.keys
      /\ account'.cur = account.cur /\ account'.prev = account.prev /\ account'.next = account.next
  BY <1>4 DEF AllKept, KeysTypeOK, Account
<1>6. KeysTypeOK'
  BY <1>1, <1>3, <1>5 DEF AllKept, KeysTypeOK
<1>7. IdsAreGivenOnce' /\ OneUpload' /\ CountsAreBounds'
  BY <1>1, <1>3, <1>4, <1>5 DEF AllKept, IdsAreGivenOnce, Private, OneUpload, CountsAreBounds
<1>8. UploadIsNew' /\ InUseIsKept'
  BY <1>1, <1>2, <1>3, <1>5 DEF AllKept, UploadIsNew, InUseIsKept, Private
<1>9. QED
  BY <1>6, <1>7, <1>8 DEF AllKept

\* The key that is forgotten is neither on the server nor in use.
LEMMA RemoveOldKeeps == AllKept /\ Timely /\ RemoveOldFallbackKey => AllKept'
<1> SUFFICES ASSUME AllKept, Timely, RemoveOldFallbackKey PROVE AllKept'
  OBVIOUS
<1>1. /\ uploads = {} /\ account.prev \notin mail
      /\ account' = [[account EXCEPT !.prev = NoKey] EXCEPT !.fresh = {}]
      /\ saved' = account'
      /\ UNCHANGED <<run, keyServer, uploads, syncAnswer, mail>>
  BY DEF RemoveOldFallbackKey, Timely, May, MarkAsPublished, SaveOlmAccount
<1>2. /\ account' \in Account /\ account'.fresh = {} /\ account'.keys = account.keys
      /\ account'.cur = account.cur /\ account'.prev = NoKey /\ account'.next = account.next
  <2>1. NoKey \in Key
    BY DEF NoKey, Key
  <2>2. QED
    BY <1>1, <2>1 DEF AllKept, KeysTypeOK, Account
<1>3. KeysTypeOK'
  BY <1>1, <1>2 DEF AllKept, KeysTypeOK
<1>4. IdsAreGivenOnce'
  <2>1. NoKey.id <= account.next
    BY DEF NoKey, AllKept, KeysTypeOK, Account
  <2>2. QED
    BY <1>2, <2>1 DEF AllKept, IdsAreGivenOnce, Private
<1>5. OneUpload' /\ CountsAreBounds' /\ UploadIsNew'
  BY <1>1, <1>2 DEF AllKept, OneUpload, CountsAreBounds, UploadIsNew
<1>6. InUseIsKept'
  BY <1>1, <1>2 DEF AllKept, InUseIsKept, Private
<1>7. QED
  BY <1>3, <1>4, <1>5, <1>6 DEF AllKept

LEMMA PreKeyKeeps == AllKept /\ HandlePreKey => AllKept'
<1> SUFFICES ASSUME AllKept, HandlePreKey PROVE AllKept'
  OBVIOUS
<1>1. PICK k \in mail :
        /\ mail' = mail \ {k}
        /\ \/ /\ account' = [account EXCEPT !.keys = @ \ {k}, !.fresh = @ \ ({k} \cap account.keys)]
              /\ saved' = account'
           \/ k \notin Private(account)
        /\ UNCHANGED <<run, keyServer, uploads, syncAnswer>>
  BY DEF HandlePreKey, SaveOlmAccount
<1>2. /\ account' = [account EXCEPT !.keys = @ \ {k}, !.fresh = @ \ ({k} \cap account.keys)]
      /\ saved' = account'
  BY <1>1 DEF AllKept, InUseIsKept
<1>3. /\ account' \in Account /\ account'.fresh \subseteq account.fresh
      /\ account'.keys = account.keys \ {k}
      /\ account'.cur = account.cur /\ account'.prev = account.prev /\ account'.next = account.next
  BY <1>2 DEF AllKept, KeysTypeOK, Account
<1>4. IsFiniteSet(mail') /\ Cardinality(mail') <= MaxOnetimeKeys
  <2>1. IsFiniteSet(mail') /\ Cardinality(mail') <= Cardinality(mail)
    BY <1>1, FS_Subset DEF AllKept, KeysTypeOK
  <2>2. Cardinality(mail') \in Nat /\ Cardinality(mail) \in Nat
    BY <2>1, FS_CardinalityType DEF AllKept, KeysTypeOK
  <2>3. QED
    BY <2>1, <2>2, MaxOnetimeKeysAssumption DEF AllKept, CountsAreBounds
<1>5. KeysTypeOK'
  BY <1>1, <1>3, <1>4 DEF AllKept, KeysTypeOK
<1>6. IdsAreGivenOnce'
  BY <1>3 DEF AllKept, IdsAreGivenOnce, Private
<1>7. OneUpload' /\ CountsAreBounds'
  BY <1>1, <1>2, <1>3, <1>4 DEF AllKept, OneUpload, CountsAreBounds
<1>8. UploadIsNew'
  BY <1>1, <1>3 DEF AllKept, UploadIsNew
<1>9. InUseIsKept'
  BY <1>1, <1>3 DEF AllKept, InUseIsKept, Private
<1>10. QED
  BY <1>5, <1>6, <1>7, <1>8, <1>9 DEF AllKept

LEMMA RestartKeeps == AllKept /\ Timely /\ Restart => AllKept'
<1> SUFFICES ASSUME AllKept, Timely, Restart PROVE AllKept'
  OBVIOUS
<1>1. /\ uploads = {} /\ run' = run + 1 /\ account' = saved
      /\ uploads' = {Upload(saved, "start", FALSE)} /\ syncAnswer' = {}
      /\ UNCHANGED <<saved, keyServer, mail>>
  BY DEF Restart, Timely, May
<1>2. saved = account /\ account.fresh = {} /\ account \in Account
  BY <1>1 DEF AllKept, OneUpload, KeysTypeOK
<1>3. PICK u : u = [kind |-> "start", keys |-> {}, replace |-> FALSE, fallback |-> NoKey,
                    status |-> "sent", count |-> 0]
  OBVIOUS
<1>4. uploads' = {u} /\ account' = account /\ saved' = account'
  BY <1>1, <1>2, <1>3 DEF Upload
<1>5. u \in UploadType /\ u.kind = "start" /\ u.keys = {} /\ u.fallback = NoKey /\ u.status = "sent"
  BY <1>3 DEF UploadType, Key, NoKey
<1>6. KeysTypeOK'
  <2>1. run' \in Nat
    BY <1>1 DEF AllKept, KeysTypeOK
  <2>2. account' \in Account /\ uploads' \subseteq UploadType
    BY <1>2, <1>4, <1>5
  <2>3. QED
    BY <1>1, <2>1, <2>2 DEF AllKept, KeysTypeOK
<1>7. OneUpload' /\ CountsAreBounds' /\ IdsAreGivenOnce'
  BY <1>1, <1>2, <1>4, <1>5 DEF AllKept, OneUpload, CountsAreBounds, IdsAreGivenOnce, Private
<1>8. UploadIsNew'
  <2>1. IsFiniteSet(u.keys) /\ Cardinality(u.keys) = 0
    BY <1>5, FS_EmptySet
  <2>2. Cardinality(keyServer.keys) \in Nat
    BY FS_CardinalityType DEF AllKept, KeysTypeOK
  <2>3. Cardinality(keyServer'.keys) + Cardinality(u.keys) <= MaxOnetimeKeys
    BY <1>1, <2>1, <2>2 DEF AllKept, CountsAreBounds
  <2>4. keyServer'.fallback = account'.cur
    BY <1>1, <1>4 DEF AllKept, UploadIsNew
  <2>5. QED
    BY <1>4, <1>5, <2>1, <2>3, <2>4 DEF UploadIsNew
<1>9. InUseIsKept'
  BY <1>1, <1>4 DEF AllKept, InUseIsKept, Private
<1>10. QED
  BY <1>6, <1>7, <1>8, <1>9 DEF AllKept

\* No upload names an id the server knows with another key.
LEMMA ServeUploadKeeps == AllKept /\ Timely /\ ServeUpload => AllKept'
<1> SUFFICES ASSUME AllKept, Timely, ServeUpload PROVE AllKept'
  OBVIOUS
<1>1. PICK u \in uploads :
        /\ u.status = "sent"
        /\ \/ /\ Collides(u)
           \/ /\ keyServer' = [keys |-> keyServer.keys \cup u.keys,
                               fallback |-> IF u.fallback = NoKey THEN keyServer.fallback ELSE u.fallback,
                               unused |-> keyServer.unused \/ u.fallback # NoKey]
              /\ uploads' = (uploads \ {u}) \cup
                   {[u EXCEPT !.status = "ok", !.count = Cardinality(keyServer'.keys)]}
        /\ UNCHANGED <<account, saved, run, syncAnswer, mail>>
  BY DEF ServeUpload, Timely, May
<1>2. u \in UploadType /\ uploads = {u} /\ syncAnswer = {}
  BY DEF AllKept, KeysTypeOK, OneUpload
<1>3. /\ u.keys \subseteq account.keys /\ u.keys \cap (keyServer.keys \cup mail) = {}
      /\ u.kind = "start" => u.keys = {} /\ u.fallback = NoKey
      /\ IsFiniteSet(u.keys)
      /\ Cardinality(keyServer.keys) + Cardinality(u.keys) <= MaxOnetimeKeys
      /\ u.fallback = NoKey => keyServer.fallback = account.cur
      /\ u.fallback # NoKey => u.fallback = account.cur /\ keyServer.fallback = account.prev
  BY <1>1 DEF AllKept, UploadIsNew
<1>4. ~Collides(u)
  BY <1>3 DEF Collides, AllKept, IdsAreGivenOnce, InUseIsKept
<1>5. IsFiniteSet(keyServer.keys \cup u.keys) /\ Cardinality(keyServer.keys \cup u.keys) \in Nat
      /\ Cardinality(keyServer.keys \cup u.keys) <= MaxOnetimeKeys
  <2>1. IsFiniteSet(keyServer.keys)
    BY DEF AllKept, KeysTypeOK
  <2>2. /\ IsFiniteSet(keyServer.keys \cup u.keys) /\ IsFiniteSet(keyServer.keys \cap u.keys)
        /\ Cardinality(keyServer.keys \cup u.keys) =
             Cardinality(keyServer.keys) + Cardinality(u.keys) - Cardinality(keyServer.keys \cap u.keys)
    BY <1>3, <2>1, FS_Union, FS_Intersection
  <2>3. /\ Cardinality(keyServer.keys) \in Nat /\ Cardinality(u.keys) \in Nat
        /\ Cardinality(keyServer.keys \cap u.keys) \in Nat
        /\ Cardinality(keyServer.keys \cup u.keys) \in Nat
    BY <1>3, <2>1, <2>2, FS_CardinalityType
  <2>4. QED
    BY <1>3, <2>2, <2>3, MaxOnetimeKeysAssumption
<1>6. /\ keyServer' \in [keys : SUBSET Key, fallback : Key, unused : BOOLEAN]
      /\ keyServer'.keys = keyServer.keys \cup u.keys /\ keyServer'.fallback = account.cur
      /\ u.fallback = NoKey => keyServer'.unused = keyServer.unused
      /\ u.fallback # NoKey => keyServer'.unused
  <2>1. keyServer' = [keys |-> keyServer.keys \cup u.keys,
                      fallback |-> IF u.fallback = NoKey THEN keyServer.fallback ELSE u.fallback,
                      unused |-> keyServer.unused \/ u.fallback # NoKey]
    BY <1>1, <1>4
  <2>2. /\ u.keys \subseteq Key /\ u.fallback \in Key /\ keyServer.keys \subseteq Key
        /\ keyServer.fallback \in Key /\ keyServer.unused \in BOOLEAN
    BY <1>2 DEF AllKept, KeysTypeOK, UploadType
  <2>3. (keyServer.unused \/ u.fallback # NoKey) \in BOOLEAN
    OBVIOUS
  <2>4. u.fallback = NoKey => (keyServer.unused \/ u.fallback # NoKey) = keyServer.unused
    BY <2>2
  <2>5. keyServer'.unused = (keyServer.unused \/ u.fallback # NoKey)
    BY <2>1
  <2>6. keyServer' \in [keys : SUBSET Key, fallback : Key, unused : BOOLEAN]
    BY <2>1, <2>2, <2>3
  <2>7. keyServer'.keys = keyServer.keys \cup u.keys /\ keyServer'.fallback = account.cur
    BY <1>3, <2>1
  <2>8. u.fallback # NoKey => keyServer'.unused
    BY <2>5
  <2>9. QED
    BY <2>4, <2>5, <2>6, <2>7, <2>8
<1>7. PICK v : v = [u EXCEPT !.status = "ok", !.count = Cardinality(keyServer'.keys)]
  OBVIOUS
<1>8. /\ uploads' = {v} /\ v.status = "ok" /\ v.kind = u.kind
      /\ v.count = Cardinality(keyServer'.keys) /\ v \in UploadType
  BY <1>1, <1>2, <1>4, <1>5, <1>6, <1>7 DEF UploadType
<1>9. KeysTypeOK'
  BY <1>1, <1>5, <1>6, <1>8 DEF AllKept, KeysTypeOK
<1>10. IdsAreGivenOnce'
  BY <1>1 DEF AllKept, IdsAreGivenOnce, Private
<1>11. OneUpload'
  BY <1>1, <1>2, <1>8 DEF AllKept, OneUpload
<1>12. UploadIsNew'
  BY <1>1, <1>6, <1>8 DEF UploadIsNew
<1>13. InUseIsKept'
  <2>1. account.keys \subseteq keyServer'.keys \cup mail
    BY <1>1, <1>2, <1>6 DEF AllKept, InUseIsKept
  <2>2. keyServer'.keys \subseteq account.keys /\ keyServer'.keys \cap mail = {}
    BY <1>3, <1>6 DEF AllKept, InUseIsKept
  <2>3. keyServer'.fallback = account.cur /\ ~keyServer'.unused => account.prev \notin mail
    BY <1>3, <1>6 DEF AllKept, InUseIsKept
  <2>4. QED
    BY <1>1, <2>1, <2>2, <2>3 DEF AllKept, InUseIsKept, Private
<1>14. CountsAreBounds'
  <2>1. Cardinality(keyServer'.keys) <= MaxOnetimeKeys /\ Cardinality(keyServer'.keys) \in Nat
    BY <1>5, <1>6
  <2>2. QED
    BY <1>1, <1>2, <1>8, <2>1 DEF AllKept, CountsAreBounds
<1>15. QED
  BY <1>9, <1>10, <1>11, <1>12, <1>13, <1>14 DEF AllKept

LEMMA ServeSyncKeeps == AllKept /\ Timely /\ ServeSync => AllKept'
<1> SUFFICES ASSUME AllKept, Timely, ServeSync PROVE AllKept'
  OBVIOUS
<1>1. PICK lists \in BOOLEAN :
        /\ uploads = {}
        /\ syncAnswer' = {[count |-> Cardinality(keyServer.keys), unused |-> keyServer.unused,
                           listed |-> lists]}
        /\ UNCHANGED <<account, saved, run, keyServer, uploads, mail>>
  BY DEF ServeSync, Timely, May
<1>2. Cardinality(keyServer.keys) \in Nat /\ keyServer.unused \in BOOLEAN
  BY FS_CardinalityType DEF AllKept, KeysTypeOK
<1>3. KeysTypeOK'
  BY <1>1, <1>2 DEF AllKept, KeysTypeOK
<1>4. CountsAreBounds'
  BY <1>1, <1>2 DEF AllKept, CountsAreBounds
<1>5. QED
  BY <1>1, <1>3, <1>4 DEF AllKept, IdsAreGivenOnce, OneUpload, UploadIsNew, InUseIsKept, Private

\* A key that is handed out goes to the messages on their way.
LEMMA ClaimKeeps == AllKept /\ Timely /\ Claim => AllKept'
<1> SUFFICES ASSUME AllKept, Timely, Claim PROVE AllKept'
  OBVIOUS
<1>1. /\ Cardinality(mail) < MaxOnetimeKeys
      /\ UNCHANGED <<account, saved, run, uploads, syncAnswer>>
      /\ \/ \E k \in keyServer.keys :
              keyServer' = [keyServer EXCEPT !.keys = @ \ {k}] /\ mail' = mail \cup {k}
         \/ /\ keyServer.keys = {} /\ keyServer.fallback # NoKey
            /\ account.prev \notin mail \ {keyServer.fallback}
            /\ keyServer' = [keyServer EXCEPT !.unused = FALSE]
            /\ mail' = mail \cup {keyServer.fallback}
  BY DEF Claim, Timely, May
<1>2. PICK k : \/ k \in keyServer.keys /\ keyServer' = [keyServer EXCEPT !.keys = @ \ {k}]
               \/ /\ k = keyServer.fallback /\ k # NoKey
                  /\ keyServer.keys = {} /\ account.prev \notin mail \ {k}
                  /\ keyServer' = [keyServer EXCEPT !.unused = FALSE]
      /\ mail' = mail \cup {k}
  BY <1>1
<1>3. /\ keyServer' \in [keys : SUBSET Key, fallback : Key, unused : BOOLEAN]
      /\ keyServer'.fallback = keyServer.fallback
      /\ keyServer'.keys \subseteq keyServer.keys /\ keyServer.keys \subseteq keyServer'.keys \cup {k}
      /\ keyServer'.keys = keyServer.keys \ {k}
      /\ keyServer'.unused => keyServer.unused
      /\ k \in keyServer.keys => keyServer'.unused = keyServer.unused
      /\ k \in Key /\ k # NoKey /\ k \in Private(account)
  <2>1. keyServer \in [keys : SUBSET Key, fallback : Key, unused : BOOLEAN]
    BY DEF AllKept, KeysTypeOK
  <2>2. /\ keyServer.fallback \in {account.cur, account.prev}
        /\ keyServer.keys \subseteq account.keys /\ NoKey \notin account.keys
    BY DEF AllKept, UploadIsNew, InUseIsKept, IdsAreGivenOnce
  <2>3. CASE k \in keyServer.keys /\ keyServer' = [keyServer EXCEPT !.keys = @ \ {k}]
    BY <2>1, <2>2, <2>3 DEF Private
  <2>4. CASE /\ k = keyServer.fallback /\ k # NoKey /\ keyServer.keys = {}
             /\ keyServer' = [keyServer EXCEPT !.unused = FALSE]
    BY <2>1, <2>2, <2>4 DEF Private
  <2>5. QED
    BY <1>2, <2>3, <2>4
<1>4. /\ IsFiniteSet(keyServer'.keys) /\ Cardinality(keyServer'.keys) <= Cardinality(keyServer.keys)
      /\ Cardinality(keyServer'.keys) \in Nat /\ Cardinality(keyServer.keys) \in Nat
  <2>1. IsFiniteSet(keyServer.keys)
    BY DEF AllKept, KeysTypeOK
  <2>2. QED
    BY <1>3, <2>1, FS_Subset, FS_CardinalityType
<1>5. IsFiniteSet(mail') /\ Cardinality(mail') <= MaxOnetimeKeys
  <2>1. IsFiniteSet(mail) /\ Cardinality(mail) \in Nat
    BY FS_CardinalityType DEF AllKept, KeysTypeOK
  <2>2. IsFiniteSet(mail \cup {k}) /\ Cardinality(mail \cup {k}) <= Cardinality(mail) + 1
    BY <2>1, FS_AddElement
  <2>3. Cardinality(mail \cup {k}) \in Nat
    BY <2>2, FS_CardinalityType
  <2>4. QED
    BY <1>1, <1>2, <2>1, <2>2, <2>3, MaxOnetimeKeysAssumption
<1>6. KeysTypeOK'
  BY <1>1, <1>2, <1>3, <1>4, <1>5 DEF AllKept, KeysTypeOK
<1>7. IdsAreGivenOnce' /\ OneUpload'
  BY <1>1 DEF AllKept, IdsAreGivenOnce, Private, OneUpload
<1>8. CountsAreBounds'
  <2>1. \A n \in Nat : Cardinality(keyServer.keys) <= n => Cardinality(keyServer'.keys) <= n
    BY <1>4
  <2>2. \A s \in syncAnswer : s.count \in Nat
    BY DEF AllKept, KeysTypeOK
  <2>3. \A u \in uploads : u.count \in Nat
    BY DEF AllKept, KeysTypeOK, UploadType
  <2>4. \A s \in syncAnswer' : /\ Cardinality(keyServer'.keys) <= s.count
                               /\ s.count <= MaxOnetimeKeys
                               /\ ~s.unused => ~keyServer'.unused
    BY <1>1, <1>3, <2>1, <2>2 DEF AllKept, CountsAreBounds
  <2>5. \A u \in uploads' : u.kind = "start" /\ u.status # "sent" =>
          Cardinality(keyServer'.keys) <= u.count /\ u.count <= MaxOnetimeKeys
    BY <1>1, <2>1, <2>3 DEF AllKept, CountsAreBounds
  <2>6. Cardinality(keyServer'.keys) <= MaxOnetimeKeys
    BY <2>1, MaxOnetimeKeysAssumption DEF AllKept, CountsAreBounds
  <2>7. QED
    BY <1>5, <2>4, <2>5, <2>6 DEF CountsAreBounds
<1>9. UploadIsNew'
  <2>1. ASSUME NEW u \in uploads, u.status = "sent"
        PROVE  /\ u.keys \subseteq account.keys /\ u.keys \cap (keyServer'.keys \cup mail') = {}
               /\ u.kind = "start" => u.keys = {} /\ u.fallback = NoKey
               /\ IsFiniteSet(u.keys)
               /\ Cardinality(keyServer'.keys) + Cardinality(u.keys) <= MaxOnetimeKeys
    <3>1. /\ u.keys \subseteq account.keys /\ u.keys \cap (keyServer.keys \cup mail) = {}
          /\ u.kind = "start" => u.keys = {} /\ u.fallback = NoKey
          /\ IsFiniteSet(u.keys)
          /\ Cardinality(keyServer.keys) + Cardinality(u.keys) <= MaxOnetimeKeys
      BY <2>1 DEF AllKept, UploadIsNew
    <3>2. Cardinality(u.keys) \in Nat
      BY <3>1, FS_CardinalityType
    <3>3. k \notin u.keys
      <4>1. CASE k \in keyServer.keys
        BY <3>1, <4>1
      <4>2. CASE k \notin keyServer.keys
        <5>1. k \in {account.cur, account.prev}
          BY <1>2, <4>2 DEF AllKept, UploadIsNew
        <5>2. QED
          BY <3>1, <5>1 DEF AllKept, IdsAreGivenOnce
      <4>3. QED
        BY <4>1, <4>2
    <3>4. Cardinality(keyServer'.keys) + Cardinality(u.keys) <= MaxOnetimeKeys
      BY <1>4, <3>1, <3>2, MaxOnetimeKeysAssumption
    <3>5. QED
      BY <1>2, <1>3, <3>1, <3>3, <3>4
  <2>2. \A u \in uploads : u.status = "sent" =>
          /\ u.fallback = NoKey => keyServer'.fallback = account.cur
          /\ u.fallback # NoKey => u.fallback = account.cur /\ keyServer'.fallback = account.prev
    BY <1>3 DEF AllKept, UploadIsNew
  <2>3. (\A u \in uploads : u.status # "sent") => keyServer'.fallback = account.cur
    BY <1>3 DEF AllKept, UploadIsNew
  <2>4. QED
    BY <1>1, <2>1, <2>2, <2>3 DEF UploadIsNew
<1>10. InUseIsKept'
  <2>1. \A j \in account.keys : \/ j \in keyServer'.keys \cup mail'
                                \/ \E u \in uploads : u.status = "sent" /\ j \in u.keys
    BY <1>2, <1>3 DEF AllKept, InUseIsKept
  <2>2. keyServer'.keys \subseteq account.keys /\ keyServer'.keys \cap mail' = {}
    BY <1>2, <1>3 DEF AllKept, InUseIsKept
  <2>3. mail' \subseteq Private(account) \ {NoKey}
    BY <1>2, <1>3 DEF AllKept, InUseIsKept
  <2>4. ASSUME keyServer'.fallback = account.cur, ~keyServer'.unused PROVE account.prev \notin mail'
    <3>1. CASE k \in keyServer.keys
      <4>1. account.prev \notin mail
        BY <1>3, <2>4, <3>1 DEF AllKept, InUseIsKept
      <4>2. account.prev # k
        BY <3>1 DEF AllKept, InUseIsKept, IdsAreGivenOnce
      <4>3. QED
        BY <1>2, <4>1, <4>2
    <3>2. CASE k \notin keyServer.keys
      <4>1. k = account.cur /\ k # NoKey /\ account.prev \notin mail \ {k}
        BY <1>2, <1>3, <2>4, <3>2
      <4>2. account.prev # k
        BY <4>1 DEF AllKept, IdsAreGivenOnce
      <4>3. QED
        BY <1>2, <4>1, <4>2
    <3>3. QED
      BY <3>1, <3>2
  <2>5. QED
    BY <1>1, <2>1, <2>2, <2>3, <2>4 DEF InUseIsKept
<1>11. QED
  BY <1>6, <1>7, <1>8, <1>9, <1>10 DEF AllKept

LEMMA InitKeys == Init => KeysInv
<1> SUFFICES ASSUME Init, Timely PROVE AllKept
  BY DEF KeysInv
<1> DEFINE first == {[id |-> i, run |-> 1] : i \in 1 .. MaxOnetimeKeys}
<1>1. /\ run = 1 /\ saved = account
      /\ account = MarkAsPublished(Generate(NewAccount, MaxOnetimeKeys, FALSE))
      /\ keyServer = [keys |-> first, fallback |-> NoKey, unused |-> FALSE]
      /\ uploads = {} /\ syncAnswer = {} /\ mail = {}
  BY DEF Init, KeysInit, Timely, May
<1>2. /\ IsFiniteSet(first) /\ Cardinality(first) <= MaxOnetimeKeys /\ Cardinality(first) \in Nat
      /\ first \subseteq Key
  <2> DEFINE f == [i \in 1 .. MaxOnetimeKeys |-> [id |-> i, run |-> 1]]
  <2>1. f \in Surjection(1 .. MaxOnetimeKeys, first)
    BY DEF Surjection
  <2>2. IsFiniteSet(1 .. MaxOnetimeKeys) /\ Cardinality(1 .. MaxOnetimeKeys) = MaxOnetimeKeys
    BY MaxOnetimeKeysAssumption, FS_Interval
  <2>3. IsFiniteSet(first) /\ Cardinality(first) <= MaxOnetimeKeys
    BY <2>1, <2>2, FS_Surjection
  <2>4. Cardinality(first) \in Nat
    BY <2>3, FS_CardinalityType
  <2>5. first \subseteq Key
    BY MaxOnetimeKeysAssumption DEF Key
  <2>6. QED
    BY <2>3, <2>4, <2>5
<1>3. {[id |-> NewAccount.next + i, run |-> run] : i \in 1 .. MaxOnetimeKeys} = first
  BY <1>1, MaxOnetimeKeysAssumption DEF NewAccount
<1>5. /\ \A k \in first : k.id \in 1 .. MaxOnetimeKeys
      /\ \A k, l \in first : k.id = l.id => k = l
  OBVIOUS
<1> HIDE DEF first
<1>4. Newest(first) = first
  <2>1. Cardinality(first) <= Capacity
    BY <1>2, MaxOnetimeKeysAssumption DEF Capacity
  <2>2. QED
    BY <1>2, <2>1, NothingIsDropped
<1>6. /\ account.keys = first /\ account.fresh = {} /\ account.cur = NoKey /\ account.prev = NoKey
      /\ account.next = MaxOnetimeKeys /\ account \in Account
  <2>1. Newest(NewAccount.keys \cup first) = first
    BY <1>4 DEF NewAccount
  <2>2. account = [keys |-> first, fresh |-> {}, cur |-> NoKey, prev |-> NoKey, next |-> MaxOnetimeKeys]
    <3>1. PICK made1 : made1 = {[id |-> NewAccount.next + i, run |-> run] : i \in 1 .. MaxOnetimeKeys}
      OBVIOUS
    <3>2. made1 = first
      BY <1>3, <3>1
    <3>3. Generate(NewAccount, MaxOnetimeKeys, FALSE) =
            [keys  |-> Newest(NewAccount.keys \cup made1),
             fresh |-> (NewAccount.fresh \cup made1 \cup {})
                         \cap (Newest(NewAccount.keys \cup made1) \cup {NewAccount.cur}),
             cur   |-> NewAccount.cur, prev |-> NewAccount.prev,
             next  |-> NewAccount.next + MaxOnetimeKeys + 0]
      BY <3>1 DEF Generate
    <3>4. /\ NewAccount.cur = NoKey /\ NewAccount.prev = NoKey
          /\ NewAccount.next + MaxOnetimeKeys + 0 = MaxOnetimeKeys
      BY MaxOnetimeKeysAssumption DEF NewAccount
    <3>5. PICK g : g = Generate(NewAccount, MaxOnetimeKeys, FALSE)
      OBVIOUS
    <3>6. PICK fresh : g = [keys |-> first, fresh |-> fresh, cur |-> NoKey, prev |-> NoKey,
                            next |-> MaxOnetimeKeys]
      BY <2>1, <3>2, <3>3, <3>4, <3>5
    <3>7. account = [g EXCEPT !.fresh = {}]
      BY <1>1, <3>5 DEF MarkAsPublished
    <3>8. QED
      BY <3>6, <3>7
  <2>3. QED
    BY <1>2, <2>2, MaxOnetimeKeysAssumption DEF Account, Key, NoKey
<1>7. KeysTypeOK
  <2>1. NoKey \in Key
    BY DEF NoKey, Key
  <2>2. QED
    BY <1>1, <1>2, <1>6, <2>1, FS_EmptySet DEF KeysTypeOK
<1>8. IdsAreGivenOnce
  <2>1. NoKey.id = 0
    BY DEF NoKey
  <2>2. NoKey \notin first
    BY <1>5, <2>1, MaxOnetimeKeysAssumption
  <2>3. QED
    BY <1>5, <1>6, <2>1, <2>2, MaxOnetimeKeysAssumption DEF IdsAreGivenOnce, Private
<1>9. OneUpload /\ UploadIsNew /\ InUseIsKept
  BY <1>1, <1>6 DEF OneUpload, UploadIsNew, InUseIsKept
<1>10. CountsAreBounds
  BY <1>1, <1>2, FS_EmptySet, MaxOnetimeKeysAssumption DEF CountsAreBounds
<1>11. QED
  BY <1>7, <1>8, <1>9, <1>10 DEF AllKept

LEMMA KeysInvNext == KeysInv /\ KeysNext /\ UNCHANGED env => KeysInv'
<1> SUFFICES ASSUME KeysInv, KeysNext, UNCHANGED env, Timely' PROVE AllKept'
  BY DEF KeysInv
<1>1. Timely /\ AllKept
  BY DEF Timely, KeysInv
<1>2. ~ServeOwnClaim
  BY <1>1 DEF ServeOwnClaim, AllKept, KeysTypeOK, UploadType
<1>3. QED
  BY <1>1, <1>2, HandleSyncKeeps, StartAnsweredKeeps, EnsureAnsweredKeeps, RemoveOldKeeps, PreKeyKeeps,
     RestartKeeps, ServeUploadKeeps, ServeSyncKeeps, ClaimKeeps DEF KeysNext

\* As long as nothing fails and no first message comes two fallback keys late,
\* handle_pre_key_olm_message finds the private part of every key that the
\* server hands out or has handed out: ensureOneTimeKeyCount never makes so
\* many that libolm drops one in use, whatever the syncs counted, and
\* removeOldFallbackKey never forgets the one in use, with any number of keys
\* wanted, restarts and claims.
THEOREM KeysInUseAreKept == Spec => []KeysKept
<1>1. KeysInv => KeysKept
  BY DEF KeysInv, KeysKept, AllKept, InUseIsKept, UploadIsNew, Private
<1>2. KeysInv /\ [Next]_vars => KeysInv'
  <2> SUFFICES ASSUME KeysInv, [Next]_vars PROVE KeysInv'
    OBVIOUS
  <2>1. CASE KeysNext /\ UNCHANGED env
    BY <2>1, KeysInvNext
  <2>2. CASE UNCHANGED <<env, keysVars>>
    BY <2>2 DEF keysVars, KeysInv, Timely, AllKept, KeysTypeOK, IdsAreGivenOnce, OneUpload, UploadIsNew,
                InUseIsKept, CountsAreBounds, Private
  <2>3. QED
    BY <2>1, <2>2 DEF Next, vars
<1>3. QED
  BY <1>1, <1>2, InitKeys, PTL DEF Spec
=============================================================================
