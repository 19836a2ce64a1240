------------------------------- MODULE Secrets -------------------------------
(***************************************************************************)
(* The private parts of the user's cross-signing keys and of the key       *)
(* backup on this device: made by setupCrosssigning, asked of the user's   *)
(* other devices (request_cross_signing_keys, the SecretSend branch of     *)
(* handle_olm_message), read from the server's secret storage              *)
(* (download_cross_signing_keys, decryptDownloadedSecrets), and used to    *)
(* sign this device and to trust the key backup (getBackupVersion).        *)
(*                                                                         *)
(* A secret is the generation of the keys it belongs to; 0 is none.  Two   *)
(* other devices of the user, a and b, were verified here.                 *)
(*                                                                         *)
(* Scenarios: "unlock" the recovery key is entered, "setup" there are no   *)
(* keys yet, "again" keys are set up over others, "reset" another device   *)
(* does that, "fail" requests fail, "revoke" b stops being verified and    *)
(* answers with something else, "late" the fifteen minutes end before an   *)
(* answer, "restart" the program ends.                                     *)
(***************************************************************************)
EXTENDS Integers, FiniteSets, DeviceEnv

CONSTANTS MaxRounds,      \* bound: times the secrets are asked for
          MaxGenerations, \* bound: keys set up
          MaxTroubles     \* bound: failures, resets and restarts

VARIABLES secret,    \* the secrets stored here
          pending,   \* request_id_to_secret_name
          requests,  \* requests that another device can still answer
          inbox,     \* SecretSend messages on their way
          trustB,    \* b is among the verified devices
          homeserver,    \* generations: cross-signing, backup, secret storage, our signature
          setup,     \* the generation whose upload waits, or 0
          reading,   \* what download_cross_signing_keys has read
          signing,   \* the generation whose signature is on its way
          version,   \* the backup version in use
          versionAnswer, rounds, made, troubles

secretVars == <<secret, pending, requests, inbox, trustB, homeserver, setup, reading,
                signing, version, versionAnswer, rounds, made, troubles>>

Names == {"backup", "self"}   \* the master and user signing keys go with "self"
Others == {"a", "b"}
Forged == -1
NotReading == [done |-> {}, keys |-> {}]
VersionAsked == -2    \* the version of the backup is being asked for
VersionKnown == -1

Trouble == troubles < MaxTroubles /\ troubles' = troubles + 1

Verified == IF trustB THEN Others ELSE {"a"}

-----------------------------------------------------------------------------
(* Asking other devices.                                                   *)

\* A request is its name and the round it belongs to.
RequestCrossSigningKeys ==
  /\ rounds < MaxRounds
  /\ rounds' = rounds + 1
  /\ LET new == {[name |-> n, round |-> rounds'] : n \in Names}
     IN /\ pending' = pending \cup new
        /\ requests' = requests \cup {[id |-> r, device |-> d] : r \in new, d \in Verified}
  /\ UNCHANGED <<secret, inbox, trustB, homeserver, setup, reading, signing, version,
                 versionAnswer, made, troubles>>

\* The error callback takes the request back; no device has it.
RequestFailed ==
  /\ May("fail") /\ Trouble
  /\ \E r \in pending :
       /\ \A d \in Others : [id |-> r, device |-> d] \in requests \/ d \notin Verified
       /\ pending' = pending \ {r}
       /\ requests' = {q \in requests : q.id # r}
  /\ UNCHANGED <<secret, inbox, trustB, homeserver, setup, reading, signing, version,
                 versionAnswer, rounds, made>>

\* The other device runs this program: handle_secret_request sends what it has.
OtherAnswers ==
  \E q \in requests :
    /\ requests' = requests \ {q}
    /\ inbox' = IF q.device = "b" /\ ~trustB
                THEN inbox \cup {[id |-> q.id, device |-> "b", value |-> Forged]}
                ELSE IF homeserver.held[q.id.name] = 0 THEN inbox
                ELSE inbox \cup {[id |-> q.id, device |-> q.device,
                                  value |-> homeserver.held[q.id.name]]}
    /\ UNCHANGED <<secret, pending, trustB, homeserver, setup, reading, signing, version,
                   versionAnswer, rounds, made, troubles>>

\* Variant: the sender need not be verified any more.
AcceptsAny(device) == device \in Others

Accepts(device) == device \in Verified

\* The request is settled before the sender is looked at; only then is it
\* cancelled for the others and the secret stored.
ReceiveSecret ==
  \E m \in inbox :
    /\ inbox' = inbox \ {m}
    /\ \/ m.id \notin pending /\ UNCHANGED <<pending, secret, requests>>
       \/ /\ m.id \in pending
          /\ pending' = pending \ {m.id}
          /\ \/ /\ Accepts(m.device)
                /\ secret' = [secret EXCEPT ![m.id.name] = m.value]
                /\ requests' = {q \in requests : q.id # m.id}
             \/ ~Accepts(m.device) /\ UNCHANGED <<secret, requests>>
    /\ UNCHANGED <<trustB, homeserver, setup, reading, signing, version, versionAnswer,
                   rounds, made, troubles>>

\* Fifteen minutes later the request is cancelled.
RequestTimesOut ==
  \E r \in pending :
    /\ \/ May("late")
       \/ \A m \in requests \cup inbox : m.id # r
    /\ pending' = pending \ {r}
    /\ requests' = {q \in requests : q.id # r}
    /\ UNCHANGED <<secret, inbox, trustB, homeserver, setup, reading, signing, version,
                   versionAnswer, rounds, made, troubles>>

RevokeB ==
  /\ May("revoke") /\ trustB
  /\ trustB' = FALSE
  /\ UNCHANGED <<secret, pending, requests, inbox, homeserver, setup, reading, signing, version,
                 versionAnswer, rounds, made, troubles>>

-----------------------------------------------------------------------------
(* Setting up.                                                             *)

\* New keys and, if wanted, a key for the backup; of the uploads of the backup
\* version and of the secrets, whose errors are only logged, those of "sent" succeed.
MakeKeys(fresh, storage, sent) ==
  /\ setup = 0 /\ made < MaxGenerations
  /\ IF homeserver.keys = 0 THEN May("setup") ELSE May("again")
  /\ made' = made + 1
  /\ secret' = [n \in Names |-> IF n \in fresh THEN made' ELSE secret[n]]
  /\ homeserver' = [homeserver EXCEPT
       !.backup = IF "version" \in sent /\ "backup" \in fresh THEN made' ELSE @,
       !.storage = [n \in Names |-> IF n \in storage \cap sent THEN made' ELSE @[n]]]
  /\ UNCHANGED <<pending, requests, inbox, trustB, reading, signing, version,
                 versionAnswer, rounds, troubles>>

Uploads == Names \cup {"version"}
Sent    == IF May("fail") THEN SUBSET Uploads ELSE {Uploads}
Fresh   == {{"self"}, Names}

\* The secrets are stored, the backup posted and the secret storage filled
\* before the keys are uploaded.
SetupCrosssigning ==
  /\ \E fresh \in Fresh, sent \in Sent :
       MakeKeys(fresh, {}, sent) \/ MakeKeys(fresh, fresh, sent)
  /\ setup' = made'

\* The key for the backup or that of the secret storage cannot be made: what has
\* been stored and posted so far stays, and the keys are not uploaded.
SetupGivesUp ==
  /\ May("fail")
  /\ \E fresh \in Fresh, sent \in Sent : MakeKeys(fresh, {}, sent)
  /\ UNCHANGED setup

\* After the upload this device is signed.
KeysUploaded ==
  /\ setup # 0
  /\ setup' = 0
  /\ \/ /\ homeserver' = [homeserver EXCEPT !.keys = setup]
        /\ signing' = setup
        /\ UNCHANGED troubles
     \/ May("fail") /\ Trouble /\ UNCHANGED <<homeserver, signing>>
  /\ UNCHANGED <<secret, pending, requests, inbox, trustB, reading, version,
                 versionAnswer, rounds, made>>

SignaturesUploaded ==
  /\ signing # 0
  /\ signing' = 0
  /\ \/ homeserver' = [homeserver EXCEPT !.signed = signing] /\ UNCHANGED troubles
     \/ May("fail") /\ Trouble /\ UNCHANGED homeserver
  /\ UNCHANGED <<secret, pending, requests, inbox, trustB, setup, reading, version,
                 versionAnswer, rounds, made>>

ResetElsewhere ==
  /\ May("reset") /\ Trouble
  /\ made < MaxGenerations
  /\ made' = made + 1
  /\ homeserver' = [homeserver EXCEPT !.keys = made', !.backup = made',
                              !.storage = [n \in Names |-> made'],
                              !.held = [n \in Names |-> made']]
  /\ UNCHANGED <<secret, pending, requests, inbox, trustB, setup, reading, signing,
                 version, versionAnswer, rounds>>

-----------------------------------------------------------------------------
(* Secret storage.                                                         *)

\* download_cross_signing_keys: one name after the other; a failed read is a
\* missing secret.
ReadOrder == <<"backup", "self">>

ReadSecret ==
  \E i \in 1..2 :
    /\ May("unlock")
    /\ reading.done = {ReadOrder[j] : j \in 1..i - 1}
    /\ \/ /\ reading' = [done |-> reading.done \cup {ReadOrder[i]},
                         keys |-> reading.keys \cup
                           (IF homeserver.storage[ReadOrder[i]] = 0 THEN {}
                            ELSE {<<ReadOrder[i], homeserver.storage[ReadOrder[i]]>>})]
          /\ UNCHANGED troubles
       \/ /\ May("fail") /\ Trouble
          /\ reading' = [reading EXCEPT !.done = @ \cup {ReadOrder[i]}]
    /\ UNCHANGED <<secret, pending, requests, inbox, trustB, homeserver, setup, signing,
                   version, versionAnswer, rounds, made>>

\* decryptDownloadedSecrets, for each key of the storage: with the recovery key
\* of generation g only what that key encrypts can be read.
DecryptDownloadedSecrets ==
  /\ reading.done = Names
  /\ reading' = NotReading
  /\ \E g \in 1..MaxGenerations :
       LET found == {n \in Names : <<n, g>> \in reading.keys}
       IN /\ secret' = [n \in Names |-> IF n \in found THEN g ELSE secret[n]]
          /\ signing' = IF "self" \in found THEN g ELSE signing
  /\ UNCHANGED <<pending, requests, inbox, trustB, homeserver, setup, version,
                 versionAnswer, rounds, made, troubles>>

-----------------------------------------------------------------------------
(* The key backup, and restarts.                                           *)

BackupVersionServed ==
  /\ versionAnswer = VersionAsked
  /\ versionAnswer' = homeserver.backup
  /\ UNCHANGED <<secret, pending, requests, inbox, trustB, homeserver, setup, reading,
                 signing, version, rounds, made, troubles>>

SaveBackupVersion(v) == version' = v
DeleteBackupVersion  == version' = 0

\* getBackupVersion: the version is used when our key is its key.
GetBackupVersion ==
  /\ versionAnswer >= 0
  /\ versionAnswer' = VersionKnown
  /\ IF versionAnswer # 0 /\ secret["backup"] = versionAnswer
       THEN SaveBackupVersion(versionAnswer)
       ELSE DeleteBackupVersion
  /\ UNCHANGED <<secret, pending, requests, inbox, trustB, homeserver, setup, reading,
                 signing, rounds, made, troubles>>

RestartSecrets ==
  /\ May("restart") /\ Trouble
  /\ pending' = {} /\ reading' = NotReading /\ setup' = 0 /\ signing' = 0
  /\ versionAnswer' = VersionAsked
  /\ UNCHANGED <<secret, requests, inbox, trustB, homeserver, version, rounds, made>>

-----------------------------------------------------------------------------

SecretsInit ==
  LET g == IF May("setup") THEN 0 ELSE 1
  IN /\ secret = [n \in Names |-> 0]
     /\ homeserver = [keys |-> g, backup |-> g, signed |-> 0,
                  storage |-> [n \in Names |-> g], held |-> [n \in Names |-> g]]
     /\ made = g
     /\ pending = {} /\ requests = {} /\ inbox = {}
     /\ trustB = TRUE
     /\ setup = 0 /\ signing = 0 /\ reading = NotReading
     /\ version = 0 /\ versionAnswer = VersionAsked
     /\ rounds = 0 /\ troubles = 0

SecretsNext ==
  \/ RequestCrossSigningKeys \/ RequestFailed \/ OtherAnswers \/ ReceiveSecret
  \/ RequestTimesOut \/ RevokeB
  \/ SetupCrosssigning \/ SetupGivesUp \/ KeysUploaded \/ SignaturesUploaded \/ ResetElsewhere
  \/ ReadSecret \/ DecryptDownloadedSecrets
  \/ BackupVersionServed \/ GetBackupVersion \/ RestartSecrets

-----------------------------------------------------------------------------

\* Keys are set up once, here, and their upload is neither refused nor cut off
\* by the end of the program: else other secrets than those of the user's keys
\* may be stored until the next start.
Undisturbed ==
  env \cap {"reset", "fail", "again"} = {} /\ ~({"setup", "restart"} \subseteq env)

\* Whatever brings the secrets here, they are those of the user's present keys,
\* and a backup version in use is the one whose key is stored; none comes
\* from a device that is not verified.
SecretsFit ==
  /\ Undisturbed =>
       /\ \A n \in Names : secret[n] \in {0, setup, homeserver.keys}
       /\ version # 0 => version = homeserver.backup /\ version = secret["backup"]
  /\ Forged \notin {secret[n] : n \in Names}
=============================================================================
