----------------------------- MODULE OneTimeKeys -----------------------------
(***************************************************************************)
(* The one-time and fallback keys of this device: made by libolm, uploaded *)
(* and counted by Client.cpp, handed out by the homeserver to whoever      *)
(* wants to open a channel, used up by the first message of that channel   *)
(* (handle_pre_key_olm_message).                                           *)
(*                                                                         *)
(* A key is its id and the run of the program that made it: the account    *)
(* is saved only when its keys are marked as published and when a channel  *)
(* is opened, so that a run after a crash makes other keys with the same   *)
(* ids.                                                                    *)
(*                                                                         *)
(* Scenarios: "restart" the program is closed and started again, "crash"   *)
(* also while an upload is on its way,                                     *)
(* "error" an upload fails before it reaches the server, "lost" its answer *)
(* is lost, "overlap" a sync is answered while an upload is on its way,    *)
(* "timer" the five minutes end at any moment, "hoard" more channels are   *)
(* opened than MaxOnetimeKeys before the first message arrives, "behind" a *)
(* channel is opened with a fallback key while the first message of one    *)
(* opened with the key before it is on its way, "many" the server has more *)
(* keys than wanted, "long" twice as many keys are claimed, "silent" an    *)
(* answer of /sync does not list the count.  Every other answer lists it:  *)
(* what the code relies on, as it does nothing without.                    *)
(***************************************************************************)
EXTENDS Integers, FiniteSets, DeviceEnv

CONSTANTS MaxOnetimeKeys,   \* MAX_ONETIME_KEYS
          MaxClaims,        \* bound: keys handed out
          MaxRuns,          \* bound: starts of the program
          MaxMishaps,       \* bound: errors, lost or silent answers, overlapping syncs
          MaxKeyId          \* bound: ids; never reached by the code as it is

ASSUME MaxOnetimeKeysAssumption == MaxOnetimeKeys \in Nat

VARIABLES account,     \* olm::client(): keys, fresh (unpublished), cur, prev, next id
          saved,       \* the account as it was last pickled
          run, keyServer, \* the server's one-time keys, fallback key, whether it was used
          uploads,     \* upload_keys requests and answers on their way
          syncAnswer,  \* {} or {an answer of /sync}
          mail,        \* keys of channels opened to us, first message on its way
          timers,      \* running timers of removeOldFallbackKey
          armed,       \* newSyncResponse still starts such a timer
          claims, mishaps

keysVars == <<account, saved, run, keyServer, uploads, syncAnswer, mail, timers, armed,
              claims, mishaps>>

NoKey == [id |-> 0, run |-> 0]

-----------------------------------------------------------------------------
(* The account.                                                            *)

\* Libolm keeps that many one-time keys and drops the oldest.
Capacity == 2 * MaxOnetimeKeys

Newest(K) == {k \in K : Cardinality({j \in K : j.id > k.id}) < Capacity}

NewAccount == [keys |-> {}, fresh |-> {}, cur |-> NoKey, prev |-> NoKey, next |-> 0]

Generate(a, n, replace) ==
  LET made == {[id |-> a.next + i, run |-> run] : i \in 1..n}
      fallback == [id |-> a.next + n + 1, run |-> run]
      kept == Newest(a.keys \cup made)
      cur == IF replace THEN fallback ELSE a.cur
  IN [keys  |-> kept,
      fresh |-> (a.fresh \cup made \cup (IF replace THEN {fallback} ELSE {})) \cap (kept \cup {cur}),
      cur   |-> cur,
      prev  |-> IF replace THEN a.cur ELSE a.prev,
      next  |-> a.next + n + (IF replace THEN 1 ELSE 0)]

SaveOlmAccount == saved' = account'

MarkAsPublished(a) == [a EXCEPT !.fresh = {}]

Private(a) == a.keys \cup {a.cur, a.prev}

\* What an upload holds: the keys not yet marked.
Upload(a, kind, replace) ==
  [kind |-> kind, keys |-> a.fresh \cap a.keys, replace |-> replace,
   fallback |-> IF a.cur \in a.fresh THEN a.cur ELSE NoKey,
   status |-> "sent", count |-> 0]

-----------------------------------------------------------------------------
(* Client.cpp.                                                             *)

\* Variant: a full set, whatever the server still has.
MissingAll(count) == IF count < MaxOnetimeKeys THEN MaxOnetimeKeys ELSE 0

Missing(count) == IF count < MaxOnetimeKeys THEN MaxOnetimeKeys - count ELSE 0

\* Variant: a used fallback key waits for the next missing key.
WantsUploadOfKeys(count, replace) == count < MaxOnetimeKeys

WantsUpload(count, replace) == count < MaxOnetimeKeys \/ replace

\* ensureOneTimeKeyCount; rest is what stays on its way.
EnsureOneTimeKeyCount(count, replace, rest) ==
  \/ /\ WantsUpload(count, replace)
     /\ account' = Generate(account, Missing(count), replace)
     /\ uploads' = rest \cup {Upload(account', "ensure", replace)}
  \/ /\ ~WantsUpload(count, replace)
     /\ uploads' = rest \cup
          IF count > 2 * MaxOnetimeKeys
          THEN {[Upload(NewAccount, "claim", FALSE) EXCEPT !.count = 1]} ELSE {}
     /\ UNCHANGED account

\* handleSyncResponse: only the first answer after a restart starts a timer.
HandleSync ==
  \E s \in syncAnswer :
    /\ account.next < MaxKeyId
    /\ syncAnswer' = {}
    /\ \/ s.listed /\ EnsureOneTimeKeyCount(s.count, ~s.unused, uploads)
       \/ ~s.listed /\ UNCHANGED <<account, uploads>>
    /\ timers' = IF armed THEN timers + 1 ELSE timers
    /\ armed' = FALSE
    /\ UNCHANGED <<saved, run, keyServer, mail, claims, mishaps>>

\* The callbacks carry on after an answer and after an error 4xx.
CarriesOn(status) == status \in {"ok", "refused"}

\* verifyOneTimeKeyCountAfterStartup: a refusal counts as no key at all.
StartAnswered ==
  \E u \in uploads :
    /\ u.kind = "start" /\ u.status # "sent"
    /\ \/ /\ CarriesOn(u.status)
          /\ EnsureOneTimeKeyCount(IF u.status = "ok" THEN u.count ELSE 0, FALSE, uploads \ {u})
       \/ /\ ~CarriesOn(u.status)
          /\ uploads' = uploads \ {u}
          /\ UNCHANGED account
    /\ UNCHANGED <<saved, run, keyServer, syncAnswer, mail, timers, armed, claims, mishaps>>

\* The callback of ensureOneTimeKeyCount marks every key, also one made since.
EnsureAnswered ==
  \E u \in uploads :
    /\ u.kind = "ensure" /\ u.status # "sent"
    /\ uploads' = uploads \ {u}
    /\ \/ /\ CarriesOn(u.status)
          /\ account' = MarkAsPublished(account)
          /\ SaveOlmAccount
          /\ timers' = IF u.replace THEN timers + 1 ELSE timers
          /\ armed' = (armed /\ ~u.replace)
       \/ /\ ~CarriesOn(u.status)
          /\ UNCHANGED <<account, saved, timers, armed>>
    /\ UNCHANGED <<run, keyServer, syncAnswer, mail, claims, mishaps>>

RemoveOldFallbackKey ==
  /\ timers > 0
  /\ May("timer") \/ (uploads = {} /\ account.prev \notin mail)
  /\ timers' = timers - 1
  /\ account' = MarkAsPublished([account EXCEPT !.prev = NoKey])
  /\ SaveOlmAccount
  /\ UNCHANGED <<run, keyServer, uploads, syncAnswer, mail, armed, claims, mishaps>>

\* handle_pre_key_olm_message: a one-time key is used up, a fallback key is not.
HandlePreKey ==
  \E k \in mail :
    /\ mail' = mail \ {k}
    /\ \/ /\ k \in Private(account)
          /\ account' = [account EXCEPT !.keys = @ \ {k}, !.fresh = @ \ ({k} \cap account.keys)]
          /\ SaveOlmAccount
       \/ /\ k \notin Private(account)
          /\ UNCHANGED <<account, saved>>
    /\ UNCHANGED <<run, keyServer, uploads, syncAnswer, timers, armed, claims, mishaps>>

\* The program ends and starts again: loadStateFromCache.
Restart ==
  /\ run < MaxRuns
  /\ May("crash") \/ (May("restart") /\ uploads = {})
  /\ run' = run + 1
  /\ account' = saved
  /\ uploads' = {Upload(saved, "start", FALSE)}
  /\ syncAnswer' = {}
  /\ timers' = 0
  /\ armed' = TRUE
  /\ UNCHANGED <<saved, keyServer, mail, claims, mishaps>>

-----------------------------------------------------------------------------
(* The homeserver and the other devices.                                   *)

Collides(u) == \E k \in u.keys, s \in keyServer.keys : k.id = s.id /\ k.run # s.run

Mishap == mishaps < MaxMishaps /\ mishaps' = mishaps + 1

\* An upload that names a stored id with another key is refused as a whole.
ServeUpload ==
  \E u \in uploads :
    LET Answered(status) ==
          uploads' = (uploads \ {u}) \cup
            {[u EXCEPT !.status = status, !.count = Cardinality(keyServer'.keys)]}
        Stored == keyServer' = [keys |-> keyServer.keys \cup u.keys,
                             fallback |-> IF u.fallback = NoKey THEN keyServer.fallback ELSE u.fallback,
                             unused |-> keyServer.unused \/ u.fallback # NoKey]
    IN /\ u.status = "sent" /\ u.kind # "claim"
       /\ \/ Collides(u) /\ UNCHANGED <<keyServer, mishaps>> /\ Answered("refused")
          \/ ~Collides(u) /\ Stored /\ UNCHANGED mishaps /\ Answered("ok")
          \/ May("lost") /\ ~Collides(u) /\ Stored /\ Mishap /\ Answered("error")
          \/ May("error") /\ Mishap /\ UNCHANGED keyServer /\ Answered("error")
       /\ UNCHANGED <<account, saved, run, syncAnswer, mail, timers, armed, claims>>

\* The claim that takes one of our own keys away, or uses our fallback key.
ServeOwnClaim ==
  \E u \in uploads :
    /\ u.kind = "claim"
    /\ uploads' = uploads \ {u}
    /\ \/ \E k \in keyServer.keys : keyServer' = [keyServer EXCEPT !.keys = @ \ {k}]
       \/ keyServer.keys = {} /\ keyServer' = [keyServer EXCEPT !.unused = FALSE]
    /\ UNCHANGED <<account, saved, run, syncAnswer, mail, timers, armed, claims, mishaps>>

ServeSync ==
  /\ syncAnswer = {}
  /\ \E lists \in BOOLEAN :
       /\ \/ uploads = {} /\ lists /\ UNCHANGED mishaps
          \/ uploads # {} /\ lists /\ May("overlap") /\ Mishap
          \/ uploads = {} /\ ~lists /\ May("silent") /\ Mishap
       /\ syncAnswer' = {[count |-> Cardinality(keyServer.keys), unused |-> keyServer.unused,
                          listed |-> lists]}
  /\ UNCHANGED <<account, saved, run, keyServer, uploads, mail, timers, armed, claims>>

\* Another device claims a key: a one-time key, or else the fallback key.
Claim ==
  /\ claims < (IF May("long") THEN 2 * MaxClaims ELSE MaxClaims)
  /\ May("hoard") \/ Cardinality(mail) < MaxOnetimeKeys
  /\ claims' = claims + 1
  /\ \/ \E k \in keyServer.keys :
          keyServer' = [keyServer EXCEPT !.keys = @ \ {k}] /\ mail' = mail \cup {k}
     \/ /\ keyServer.keys = {} /\ keyServer.fallback # NoKey
        /\ May("behind") \/ account.prev \notin mail \ {keyServer.fallback}
        /\ keyServer' = [keyServer EXCEPT !.unused = FALSE]
        /\ mail' = mail \cup {keyServer.fallback}
  /\ UNCHANGED <<account, saved, run, uploads, syncAnswer, timers, armed, mishaps>>

-----------------------------------------------------------------------------

\* After tryInitialSync: a first set of keys is on the server, no fallback key;
\* or after syncs that overlapped ("many").
KeysInit ==
  /\ run = 1
  /\ LET n == IF May("many") THEN 2 * MaxOnetimeKeys + 1 ELSE MaxOnetimeKeys
     IN /\ account = MarkAsPublished(Generate(NewAccount, n, FALSE))
        /\ keyServer = [keys |-> {[id |-> i, run |-> 1] : i \in 1..n},
                        fallback |-> NoKey, unused |-> FALSE]
  /\ saved = account
  /\ uploads = {} /\ syncAnswer = {} /\ mail = {}
  /\ timers = 0 /\ armed = FALSE
  /\ claims = 0 /\ mishaps = 0

KeysNext ==
  \/ HandleSync \/ StartAnswered \/ EnsureAnswered \/ RemoveOldFallbackKey
  \/ HandlePreKey \/ Restart
  \/ ServeUpload \/ ServeOwnClaim \/ ServeSync \/ Claim

\* The client handles its answers and goes on syncing; the server answers.
KeysFairness ==
  /\ WF_keysVars(May("keys") /\ (HandleSync \/ StartAnswered \/ EnsureAnswered))
  /\ WF_keysVars(May("keys") /\ (ServeUpload \/ ServeOwnClaim))
  /\ WF_keysVars(May("keys") /\ ServeSync)

-----------------------------------------------------------------------------

\* Nothing fails on the way, and the first messages are not too late: the
\* account keeps one fallback key besides the present one.
Timely ==
  env \cap {"crash", "error", "lost", "overlap", "timer", "hoard", "behind", "many"} = {}

\* Every key that the server hands out, and every key that a first message on
\* its way uses, can still be opened here: neither the number of keys made, nor
\* a new fallback key, nor a restart loses the private part of a key in use.
KeysKept ==
  Timely =>
    (keyServer.keys \cup {keyServer.fallback} \cup mail) \subseteq (Private(account) \cup {NoKey})

\* Whatever goes wrong on the way, the server ends with enough one-time keys
\* and a fallback key nobody used.
EnoughKeys ==
  May("keys") => <>[](Cardinality(keyServer.keys) >= MaxOnetimeKeys /\ keyServer.unused)
=============================================================================
