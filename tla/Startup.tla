------------------------------ MODULE Startup ------------------------------
(***************************************************************************)
(* How the program starts: Client::bootstrap, the migrations of the cache  *)
(* to the format of this version (Cache::runMigrations), the Olm account   *)
(* that is restored or created, and the secret it is pickled with.  The    *)
(* program may end between any two transactions.                           *)
(*                                                                         *)
(* A version of the cache is the number of migrations it contains.  Of the *)
(* data, the model keeps what a migration changes and what decides about   *)
(* the account: sessions are inbound Megolm sessions, stored with the      *)
(* sender key in their index before "2022.04.08" and without it since.     *)
(* Sessions of older versions may lack their GroupSessionData.             *)
(*                                                                         *)
(* Scenarios: "crash" the program ends anywhere, not only while it runs,   *)
(* "fail" a migration fails, "newer" the cache is of a later version,      *)
(* "fresh" there is no cache yet.                                          *)
(***************************************************************************)
EXTENDS Integers, FiniteSets, DeviceEnv

CONSTANTS Sessions,    \* Megolm sessions that others share
          MaxStarts    \* bound: starts of the program

VARIABLES stage, step,   \* of bootstrap and of runMigrations
          disk,          \* the LMDB environment
          pickleSecret,  \* "pickle_secret" of the settings
          identity,      \* the account that is loaded
          published,     \* the account whose identity keys the server has
          starts

startVars == <<stage, step, disk, pickleSecret, identity, published, starts>>

Current == 6
Absent == "absent"
NoAccount == [id |-> 0, pickledWith |-> Absent]

\* A cache directory that was just made.
EmptyDisk == [version |-> -1, token |-> FALSE, account |-> NoAccount, receipts |-> FALSE,
              rooms |-> "none", olm |-> "v2", old |-> {}, new |-> {}, data |-> {},
              future |-> FALSE]

\* The data as a program of version v left them, the sessions "dated" with their
\* GroupSessionData; random secrets came with "2021.08.31".
DiskOf(v, with, kept, dated) ==
  [version |-> v, token |-> TRUE, account |-> [id |-> 1, pickledWith |-> with],
   receipts |-> v < 1, rooms |-> IF v < 2 THEN "messages" ELSE "events",
   olm |-> IF v < 3 THEN "v1" ELSE "v2",
   old |-> IF v < 6 THEN kept ELSE {}, new |-> IF v < 6 THEN {} ELSE kept, data |-> dated,
   future |-> v > Current]

Go(s) == stage' = s

-----------------------------------------------------------------------------
(* Cache::pickleSecret: a missing secret is made up and stored.            *)

SecretOrNew == IF pickleSecret = Absent THEN "random" ELSE pickleSecret

-----------------------------------------------------------------------------
(* Cache::runMigrations, each migration a transaction of its own.          *)

DropPendingReceipts == [disk EXCEPT !.receipts = FALSE]
MoveMessages == [disk EXCEPT !.rooms = IF @ = "messages" THEN "events" ELSE @]
WrapOlmSessions == [disk EXCEPT !.olm = "v2"]
ClearRooms == [disk EXCEPT !.rooms = "none"]

\* An index without a sender key is skipped, and so is a session without data;
\* then both databases are cleared.
DropSenderKeys ==
  [disk EXCEPT !.new = disk.old \cap disk.data, !.old = {}, !.data = disk.old \cap disk.data]

Migrated(i) ==
  CASE i = 1 -> DropPendingReceipts
    [] i = 2 -> MoveMessages
    [] i = 3 -> WrapOlmSessions
    [] i = 4 -> ClearRooms
    [] i = 6 -> DropSenderKeys
    [] OTHER -> disk

\* Variant: the migration of the stored version once more.
DueOrDone(i) == i >= disk.version

Due(i) == i > disk.version

Migrate ==
  /\ stage = "migrate" /\ step <= Current
  /\ step' = step + 1
  /\ \/ Due(step) /\ disk' = Migrated(step)
        /\ pickleSecret' = IF step = 5 THEN "secret" ELSE pickleSecret
     \/ ~Due(step) /\ UNCHANGED <<disk, pickleSecret>>
  /\ UNCHANGED <<stage, identity, published, starts>>

\* setCurrentFormat, when every migration is done.
StampFormat ==
  /\ stage = "migrate" /\ step > Current
  /\ disk' = [disk EXCEPT !.version = Current]
  /\ Go("load")
  /\ UNCHANGED <<step, pickleSecret, identity, published, starts>>

\* Variant: the next migration is tried.
SkipMigration == step' = step + 1 /\ UNCHANGED stage

\* The message is shown, and the state is loaded all the same.
GiveUp == Go("load") /\ UNCHANGED step

MigrationFails ==
  /\ stage = "migrate" /\ step <= Current
  /\ May("fail") /\ Due(step)
  /\ GiveUp
  /\ UNCHANGED <<disk, pickleSecret, identity, published, starts>>

-----------------------------------------------------------------------------
(* Client::bootstrap.                                                      *)

isInitialized == disk.token

\* formatVersion: a newer cache counts as older.
Older == disk.version # Current

Boot ==
  /\ stage = "off" /\ starts < MaxStarts
  /\ starts' = starts + 1
  /\ step' = 1
  /\ \/ /\ ~isInitialized
        /\ disk' = [disk EXCEPT !.version = Current]
        /\ Go("create")
     \/ /\ isInitialized
        /\ Go(IF Older THEN "migrate" ELSE "load")
        /\ UNCHANGED disk
  /\ UNCHANGED <<pickleSecret, identity, published>>

DeleteData == disk' = EmptyDisk /\ pickleSecret' = Absent

DropToLogin ==
  /\ Go("login")
  /\ DeleteData
  /\ identity' = 0

RestoreOlmAccount == disk.account

LoadStateFromCache ==
  /\ stage = "load"
  /\ \/ /\ RestoreOlmAccount.pickledWith = SecretOrNew
        /\ identity' = RestoreOlmAccount.id
        /\ pickleSecret' = SecretOrNew
        /\ Go("running")
        /\ UNCHANGED disk
     \/ RestoreOlmAccount.pickledWith # SecretOrNew /\ DropToLogin
  /\ UNCHANGED <<step, published, starts>>

\* "There isn't a saved olm account to restore."
CreateAccount ==
  /\ stage = "create"
  /\ identity' = starts + 1
  /\ pickleSecret' = SecretOrNew
  /\ disk' = [disk EXCEPT !.account = [id |-> starts + 1, pickledWith |-> SecretOrNew]]
  /\ Go("upload")
  /\ UNCHANGED <<step, published, starts>>

\* tryInitialSync: the first upload carries the identity keys; a failure logs out,
\* unless it is that of a server that has no such call.
TryInitialSync ==
  /\ stage = "upload"
  /\ \/ /\ published' = identity
        /\ Go("initialSync")
        /\ UNCHANGED <<disk, pickleSecret, identity>>
     \/ May("fail") /\ Go("initialSync") /\ UNCHANGED <<disk, pickleSecret, identity, published>>
     \/ May("fail") /\ DropToLogin /\ UNCHANGED published
  /\ UNCHANGED <<step, starts>>

\* startInitialSync: the first saved token makes the cache initialized.
StartInitialSync ==
  /\ stage = "initialSync"
  /\ disk' = [disk EXCEPT !.token = TRUE, !.rooms = "events"]
  /\ Go("running")
  /\ UNCHANGED <<step, pickleSecret, identity, published, starts>>

-----------------------------------------------------------------------------
(* The program at work.                                                    *)

SaveState ==
  /\ stage = "running"
  /\ disk' = [disk EXCEPT !.rooms = "events"]
  /\ UNCHANGED <<stage, step, pickleSecret, identity, published, starts>>

ReceiveSession ==
  /\ stage = "running"
  /\ \E s \in Sessions \ (disk.old \cup disk.new) :
       disk' = [disk EXCEPT !.new = @ \cup {s}, !.data = @ \cup {s}]
  /\ UNCHANGED <<stage, step, pickleSecret, identity, published, starts>>

\* The program is closed, or killed, between two transactions.
Quit ==
  /\ stage \notin {"off", "login"}
  /\ May("crash") \/ stage = "running"
  /\ Go("off")
  /\ identity' = 0
  /\ UNCHANGED <<step, disk, pickleSecret, published, starts>>

-----------------------------------------------------------------------------

\* A cache that an earlier version left, or none.
StartInit ==
  /\ stage = "off" /\ step = 1 /\ identity = 0 /\ starts = 0
  /\ \/ /\ May("fresh") \/ ~May("start")
        /\ disk = EmptyDisk /\ pickleSecret = Absent /\ published = 0
     \/ /\ ~May("fresh") /\ May("start")
        /\ published = 1
        /\ \E v \in 0..Current + (IF May("newer") THEN 1 ELSE 0), with \in {"secret", "random"},
              kept \in SUBSET Sessions, dated \in SUBSET Sessions :
             /\ v < 5 => with = "secret"
             /\ dated \subseteq kept /\ (v >= 6 => dated = kept)
             /\ disk = DiskOf(v, with, kept, dated)
             /\ pickleSecret = IF v < 5 THEN Absent ELSE with

StartNext ==
  \/ Boot \/ Migrate \/ StampFormat \/ MigrationFails \/ LoadStateFromCache
  \/ CreateAccount \/ TryInitialSync \/ StartInitialSync
  \/ SaveState \/ ReceiveSession \/ Quit

-----------------------------------------------------------------------------

InCurrentFormat ==
  /\ ~disk.receipts /\ disk.rooms # "messages" /\ disk.olm = "v2" /\ disk.old = {}
  /\ disk.account # NoAccount => disk.account.pickledWith = pickleSecret

\* Wherever the program was ended and whatever failed, a cache that bears the
\* current version is in the current format.
StampedIsMigrated ==
  disk.version = Current => InCurrentFormat /\ ("newer" \notin env => ~disk.future)

\* The sessions that are stored with their data.
Dated(d) == (d.old \cup d.new) \cap d.data

\* Starts that are neither killed nor failing lose nothing that has its data:
\* whatever the version of the cache, no session with its GroupSessionData is
\* dropped (one without is, by "2022.04.08"), nobody is logged out, and the account
\* that runs is the one whose keys the server has.
NothingLost ==
  [][env \cap {"crash", "fail"} = {} =>
       /\ Dated(disk) \subseteq Dated(disk')
       /\ stage' # "login"
       /\ stage' = "running" => identity' = published]_startVars
=============================================================================
