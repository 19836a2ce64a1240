------------------------- MODULE DeviceVerification -------------------------
(***************************************************************************)
(* Verification of devices by comparing emoji: DeviceVerificationFlow and  *)
(* VerificationManager (src/src/encryption).  Every device keeps, in       *)
(* dvList, one flow per transaction id; flows talk by to-device messages.  *)
(*                                                                         *)
(* Each step is one HTTP request that nobody retries: if disturbed, a      *)
(* message may be lost and may overtake another.  Devices are honest; a    *)
(* device of otherClients runs a program that may also send "start" where  *)
(* this one waits, as the state diagram of DeviceVerificationFlow.h notes. *)
(***************************************************************************)
EXTENDS Naturals, FiniteSets

CONSTANTS
  Devices,       \* the devices that take part
  Rank,          \* Rank[d] orders the (user id, device id) pairs
  NoDevice,      \* no device: an empty id, start message, commitment or SAS
  Flows,         \* transaction ids
  Scenarios      \* environments

ASSUME DevicesOK ==
  /\ IsFiniteSet(Devices) /\ Devices # {} /\ NoDevice \notin Devices
  /\ Rank \in [Devices -> Nat \ {0}]
  /\ \A d, e \in Devices : Rank[d] = Rank[e] => d = e
  /\ \A s \in Scenarios :
       /\ s.disturbed \in BOOLEAN
       /\ s.offers \subseteq {"both", "decimal", "unsupported"}
       /\ s.otherClients \subseteq Devices
       /\ \A d \in DOMAIN s.asks : s.asks[d] \subseteq (SUBSET (Devices \ {d})) \ {{}}

VARIABLES
  flow,      \* flow[f][d]: the DeviceVerificationFlow of f at d
  net,       \* to-device messages on their way
  verified,  \* verified[d]: the devices d trusts (cache::markDeviceVerified)
  signed,    \* signed[d]: the devices d signed the key of, or the master key of the
             \* user of, with the signature uploaded (keys_signatures_upload)
  env        \* the environment of this behaviour.  disturbed: messages are lost and
             \* overtake, users cancel, timers expire.  otherClients: the devices that
             \* run another program.  offers: what a "start" of theirs offers.
             \* asks[d]: the sets of devices the user of d may ask at once

trust == <<verified, signed>>
vars == <<flow, net, trust, env>>

Disturbed == env.disturbed

------------------------------------------------------------------------------

Final     == {"Success", "Failed"}
Comparing == {"CompareEmoji", "CompareNumber"}
States    == {"PromptStartVerification", "WaitingForOtherToAccept", "WaitingForKeys",
              "WaitingForMac"} \cup Comparing \cup Final
NoFlow    == "NoFlow"
NoSas     == <<>>

\* The constructor: the two minute timer starts.
NewFlow(isSender, to) ==
  [state |-> "PromptStartVerification", sender |-> isSender, deviceIds |-> to,
   deviceId |-> IF Cardinality(to) = 1 THEN CHOOSE d \in to : TRUE ELSE NoDevice,
   canonical |-> NoDevice, commitment |-> NoSas, method |-> "emoji", sas |-> NoSas,
   macVerified |-> FALSE, keySent |-> FALSE, macSent |-> FALSE,
   acceptSent |-> FALSE, startSent |-> FALSE, timer |-> TRUE]

Absent == [NewFlow(FALSE, {}) EXCEPT !.state = NoFlow, !.timer = FALSE]

(* A definition marked "Variant" is the one after it with a mistake in it;  *)
(* Next does not use it.  It shows which mistake a property would reveal.   *)

\* send(): one message to every device of deviceIds.
Mail(f, d, fl, kind, content) ==
  {[flow |-> f, from |-> d, to |-> p, kind |-> kind, content |-> content] :
     p \in fl.deviceIds}

\* One end changes, messages leave; "taken" is the message it reacts to.
Step(f, d, fl, taken, out) ==
  /\ flow' = [flow EXCEPT ![f][d] = fl]
  /\ net' = (net \ taken) \cup out

\* cancelVerification does nothing in a final state, and tells the others else.
CancelFlow(f, d, fl, taken) ==
  IF fl.state \in Final
    THEN Step(f, d, fl, taken, {})
    ELSE Step(f, d, [fl EXCEPT !.state = "Failed"], taken, Mail(f, d, fl, "cancel", NoSas))

\* acceptVerificationRequest commits to our key and their start message.
AcceptRequest(f, d, fl, taken) ==
  IF fl.acceptSent
    THEN Step(f, d, fl, taken, {})
    ELSE Step(f, d, [fl EXCEPT !.acceptSent = TRUE, !.state = "WaitingForKeys"], taken,
              Mail(f, d, fl, "accept",
                   [commitment |-> <<d, fl.canonical>>, method |-> fl.method]))

\* startVerificationRequest
SendStart(f, d, fl, offer, taken, out) ==
  IF fl.startSent
    THEN Step(f, d, fl, taken, out)
    ELSE Step(f, d,
              [fl EXCEPT !.startSent = TRUE, !.canonical = d,
                         !.state = "WaitingForOtherToAccept"],
              taken, out \cup Mail(f, d, fl, "start", offer))

\* Variant: their MAC is enough.
AcceptUnasked(f, d, fl, taken, out) ==
  \/ /\ ~fl.macVerified
     /\ Step(f, d, [fl EXCEPT !.state = "WaitingForMac"], taken, out)
     /\ UNCHANGED verified
  \/ /\ fl.macVerified
     /\ Step(f, d, [fl EXCEPT !.state = "Success"], taken, out \cup Mail(f, d, fl, "done", NoSas))
     /\ verified' = [verified EXCEPT ![d] = @ \cup {fl.deviceId}]

\* acceptDevice once we confirmed and their MAC was right
AcceptDevice(f, d, fl, taken, out) ==
  \/ /\ ~fl.macVerified
     /\ Step(f, d, [fl EXCEPT !.state = "WaitingForMac"], taken, out)
     /\ UNCHANGED verified
  \/ /\ fl.macVerified /\ fl.state # "WaitingForMac"
     /\ Step(f, d, fl, taken, out)
     /\ UNCHANGED verified
  \/ /\ fl.macVerified /\ fl.state = "WaitingForMac"
     /\ Step(f, d, [fl EXCEPT !.state = "Success"], taken, out \cup Mail(f, d, fl, "done", NoSas))
     /\ verified' = [verified EXCEPT ![d] = @ \cup {fl.deviceId}]

------------------------------------------------------------------------------
\* The user

\* VerificationManager::verifyDevice and verifyOneOfDevices, with a fresh id
Initiate(f, d) ==
  /\ \A e \in Devices : flow[f][e].state = NoFlow
  /\ d \in DOMAIN env.asks
  /\ \E to \in env.asks[d] : Step(f, d, NewFlow(TRUE, to), {}, {})
  /\ UNCHANGED trust

\* next() before the keys are exchanged
SendRequest(f, d) ==
  LET fl == flow[f][d]
  IN  /\ fl.state = "PromptStartVerification" /\ fl.sender
      /\ Step(f, d, [fl EXCEPT !.state = "WaitingForOtherToAccept"], {},
              Mail(f, d, fl, "request", NoSas))
      /\ UNCHANGED trust

SendReady(f, d) ==
  LET fl == flow[f][d]
  IN  /\ fl.state = "PromptStartVerification" /\ ~fl.sender
      /\ fl.canonical = NoDevice
      /\ Step(f, d, [fl EXCEPT !.state = "WaitingForKeys"], {},
              Mail(f, d, fl, "ready", NoSas))
      /\ UNCHANGED trust

AcceptLegacy(f, d) ==
  LET fl == flow[f][d]
  IN  /\ fl.state = "PromptStartVerification" /\ ~fl.sender
      /\ fl.canonical # NoDevice
      /\ AcceptRequest(f, d, fl, {})
      /\ UNCHANGED trust

\* What a flow shows and what the other end shows for it: the same keys, the
\* same roles, in the same notation.
SameSas(f, d, p) ==
  /\ flow[f][d].sas # NoSas
  /\ flow[f][d].sas = flow[f][p].sas

\* next() while comparing: the users look at both screens before they agree.
ConfirmSas(f, d) ==
  LET fl == flow[f][d]
  IN  /\ fl.state \in Comparing /\ ~fl.macSent
      /\ \E p \in fl.deviceIds : SameSas(f, d, p)
      /\ AcceptDevice(f, d, [fl EXCEPT !.macSent = TRUE, !.state = "WaitingForMac"], {},
                      Mail(f, d, fl, "mac", NoSas))
      /\ UNCHANGED signed

\* cancel(), and what the users do when the screens differ
Cancel(f, d) ==
  /\ Disturbed
  /\ flow[f][d].state \notin Final \cup {NoFlow}
  /\ CancelFlow(f, d, flow[f][d], {})
  /\ UNCHANGED trust

Timeout(f, d) ==
  /\ Disturbed
  /\ flow[f][d].timer
  /\ CancelFlow(f, d, [flow[f][d] EXCEPT !.timer = FALSE], {})
  /\ UNCHANGED trust

------------------------------------------------------------------------------
\* Messages

\* VerificationManager::receivedDeviceVerificationRequest
ReceiveRequest(m) ==
  /\ m.kind = "request"
  /\ LET fl == flow[m.flow][m.to]
     IN  Step(m.flow, m.to, IF fl.state = NoFlow THEN NewFlow(FALSE, {m.from}) ELSE fl,
              {m}, {})
  /\ UNCHANGED trust

(***************************************************************************)
(* The Ready handler.  A flow that did not send the request fails on any   *)
(* Ready of another device, whatever its transaction id.  The flow that    *)
(* did picks the device, cancels the others and starts.                    *)
(***************************************************************************)
FailReceivers(d, flows) ==
  [g \in Flows |->
     IF flows[g][d].state # NoFlow /\ ~flows[g][d].sender
       THEN [flows[g] EXCEPT ![d].state = "Failed"]
       ELSE flows[g]]

\* Variant: the flow goes on with all of them.
PicksNone(fl, from) == FALSE

\* A request to several devices goes on with the first that answers.
Picks(fl, from) == fl.deviceId = NoDevice /\ from \in fl.deviceIds

ReceiveReady(m) ==
  LET f == m.flow
      d == m.to
      fl == flow[f][d]
      mine == fl.state # NoFlow /\ fl.sender
      picks == Picks(fl, m.from)
      others == IF picks THEN Mail(f, d, [fl EXCEPT !.deviceIds = @ \ {m.from}], "cancel", NoSas)
                         ELSE {}
      picked == IF picks THEN [fl EXCEPT !.deviceId = m.from, !.deviceIds = {m.from}] ELSE fl
      started == [picked EXCEPT !.startSent = TRUE, !.canonical = d,
                                !.state = "WaitingForOtherToAccept"]
  IN  /\ m.kind = "ready"
      /\ \/ /\ ~mine
            /\ flow' = FailReceivers(d, flow)
            /\ net' = net \ {m}
         \/ /\ mine /\ fl.startSent
            /\ flow' = FailReceivers(d, [flow EXCEPT ![f][d] = picked])
            /\ net' = (net \ {m}) \cup others
         \/ /\ mine /\ ~fl.startSent
            /\ flow' = FailReceivers(d, [flow EXCEPT ![f][d] = started])
            /\ net' = (net \ {m}) \cup others \cup Mail(f, d, picked, "start", "both")
      /\ UNCHANGED trust

\* Variants: each end gives way to the other, and neither does.
AlwaysGivesWay(fl, d) == fl.sender
NeverGivesWay(fl, d) == FALSE

\* Glare: who sent a start gives way to the smaller (user id, device id), and
\* a flow that has not picked its device yet gives way to anyone.
GivesWay(fl, d) ==
  fl.sender /\ (fl.deviceId = NoDevice \/ Rank[fl.deviceId] < Rank[d])

\* handleStartMessage, on a flow made for it when there is none
ReceiveStart(m) ==
  LET f == m.flow
      d == m.to
      fl == IF flow[f][d].state = NoFlow THEN NewFlow(FALSE, {m.from}) ELSE flow[f][d]
      stays == fl.sender /\ ~GivesWay(fl, d)
      after == [fl EXCEPT !.method = IF m.content = "both" THEN "emoji" ELSE "decimal",
                          !.sender = stays,
                          !.canonical = IF stays THEN @ ELSE m.from]
  IN  /\ m.kind = "start"
      /\ IF m.content = "unsupported"
           THEN CancelFlow(f, d, fl, {m})
           ELSE IF after.state # "PromptStartVerification" /\ ~after.sender
             THEN AcceptRequest(f, d, after, {m})
             ELSE Step(f, d, after, {m}, {})
      /\ UNCHANGED trust

ReceiveAccept(m) ==
  LET fl == flow[m.flow][m.to]
  IN  /\ m.kind = "accept"
      /\ Step(m.flow, m.to,
              [fl EXCEPT !.commitment = m.content.commitment, !.method = m.content.method,
                         !.keySent = TRUE],
              {m}, IF fl.keySent THEN {} ELSE Mail(m.flow, m.to, fl, "key", NoSas))
      /\ UNCHANGED trust

\* The SAS depends on who counts as the starter, on both keys and the notation.
SasOf(d, fl, from) ==
  IF fl.sender THEN <<d, fl.deviceId, {d, from}, fl.method>>
               ELSE <<fl.deviceId, d, {d, from}, fl.method>>

ReceiveKey(m) ==
  LET f == m.flow
      d == m.to
      fl == flow[f][d]
      expected == IF fl.sender THEN {"WaitingForOtherToAccept", "WaitingForKeys"}
                               ELSE {"WaitingForKeys"}
      compare == [fl EXCEPT
                    !.sas = SasOf(d, fl, m.from), !.keySent = @ \/ ~fl.sender,
                    !.state = IF fl.method = "emoji" THEN "CompareEmoji" ELSE "CompareNumber"]
  IN  /\ m.kind = "key"
      /\ IF \/ fl.state \notin expected
            \/ fl.sender /\ fl.commitment # <<m.from, fl.canonical>>
           THEN CancelFlow(f, d, fl, {m})
           ELSE Step(f, d, compare, {m},
                     IF fl.sender \/ fl.keySent THEN {} ELSE Mail(f, d, fl, "key", NoSas))
      /\ UNCHANGED trust

\* What the MAC covers: both ids, the shared secret and the keys known here.
MacMatches(d, fl, m) ==
  fl.sas # NoSas /\ m.from = fl.deviceId /\ fl.sas[3] = {d, m.from}

\* The key of their device (our own user's) or the master key of their user is
\* signed.  It is not when the secret to sign with is missing here, or when the
\* upload fails, which is only logged.
UploadSignatures(d, fl) ==
  signed' \in {signed, [signed EXCEPT ![d] = @ \cup {fl.deviceId}]}

\* The MAC handler looks neither at the state nor at what the user here said.  It
\* fails too when the query for the other device's keys failed.
ReceiveMac(m) ==
  LET f == m.flow
      d == m.to
      fl == flow[f][d]
  IN  /\ m.kind = "mac"
      /\ \/ /\ Disturbed \/ ~MacMatches(d, fl, m)
            /\ CancelFlow(f, d, fl, {m})
            /\ UNCHANGED trust
         \/ /\ MacMatches(d, fl, m)
            /\ UploadSignatures(d, fl)
            /\ AcceptDevice(f, d, [fl EXCEPT !.macVerified = TRUE], {m}, {})

ReceiveCancel(m) ==
  LET fl == flow[m.flow][m.to]
  IN  /\ m.kind = "cancel"
      /\ Step(m.flow, m.to, [fl EXCEPT !.state = "Failed"], {m}, {})
      /\ UNCHANGED trust

\* Only a request or a start makes a flow: what else arrives without one is
\* for nobody.
Ignore(m) ==
  /\ flow[m.flow][m.to].state = NoFlow
  /\ m.kind \notin {"request", "start"}
  /\ net' = net \ {m}
  /\ UNCHANGED <<flow, trust>>

\* Done is only logged.
ReceiveDone(m) ==
  /\ m.kind = "done"
  /\ net' = net \ {m}
  /\ UNCHANGED <<flow, trust>>

------------------------------------------------------------------------------
\* The other program: it starts where this one waits, or without a request.

OtherStart(f, d, offer) ==
  LET fl == flow[f][d]
  IN  /\ d \in env.otherClients
      /\ \/ ~fl.sender /\ fl.state = "WaitingForKeys" /\ fl.canonical = NoDevice
         \/ fl.sender /\ fl.state = "PromptStartVerification" /\ fl.deviceId # NoDevice
      /\ SendStart(f, d, [fl EXCEPT !.sender = TRUE], offer, {}, {})
      /\ UNCHANGED trust

------------------------------------------------------------------------------

Init ==
  /\ env \in Scenarios
  /\ flow = [f \in Flows |-> [d \in Devices |-> Absent]]
  /\ net = {}
  /\ verified = [d \in Devices |-> {}]
  /\ signed = [d \in Devices |-> {}]

User(f, d) ==
  SendRequest(f, d) \/ SendReady(f, d) \/ AcceptLegacy(f, d) \/ ConfirmSas(f, d) \/ Cancel(f, d)

\* A device sends its messages of one flow in this order.
SendOrder == <<"request", "ready", "start", "accept", "key", "mac", "done", "cancel">>
Position(kind) == CHOOSE i \in DOMAIN SendOrder : SendOrder[i] = kind

InTurn(m) ==
  \A n \in net : <<n.flow, n.from, n.to>> = <<m.flow, m.from, m.to>>
                  => Position(m.kind) <= Position(n.kind)

Receive(m) ==
  /\ Disturbed \/ InTurn(m)
  /\ \/ ReceiveRequest(m) \/ ReceiveReady(m) \/ ReceiveStart(m) \/ Ignore(m)
     \/ /\ flow[m.flow][m.to].state # NoFlow
        /\ ReceiveAccept(m) \/ ReceiveKey(m) \/ ReceiveMac(m) \/ ReceiveCancel(m) \/ ReceiveDone(m)

Next ==
  /\ \/ \E f \in Flows, d \in Devices :
          \/ Initiate(f, d) \/ User(f, d) \/ Timeout(f, d)
          \/ \E o \in env.offers : OtherStart(f, d, o)
     \/ \E m \in net : Receive(m)
  /\ UNCHANGED env

Spec == Init /\ [][Next]_vars

\* Messages arrive and users go on.
LiveSpec ==
  /\ Spec
  /\ WF_vars(UNCHANGED env /\ \E m \in net : Receive(m))
  /\ \A f \in Flows, d \in Devices : WF_vars(UNCHANGED env /\ User(f, d))

------------------------------------------------------------------------------
\* Properties

\* Every field of a flow stays in its range.
TypeOK ==
  /\ \A f \in Flows, d \in Devices :
       LET fl == flow[f][d]
       IN  /\ fl.state \in States \cup {NoFlow}
           /\ {fl.sender, fl.macVerified, fl.keySent, fl.macSent, fl.acceptSent,
               fl.startSent, fl.timer} \subseteq BOOLEAN
           /\ fl.deviceIds \subseteq Devices \ {d}
           /\ {fl.deviceId, fl.canonical} \subseteq Devices \cup {NoDevice}
           /\ fl.method \in {"emoji", "decimal"}
  /\ \A m \in net : m.flow \in Flows /\ m.from \in Devices /\ m.to \in Devices \ {m.from}
  /\ verified \in [Devices -> SUBSET Devices]
  /\ signed \in [Devices -> SUBSET Devices]

\* Two ends that both show a SAS for the other show the same one: start
\* messages that cross and messages out of order never split the roles.
SasAgreement ==
  \A f \in Flows, d, p \in Devices :
    /\ flow[f][d].sas # NoSas /\ flow[f][d].deviceId = p
    /\ flow[f][p].sas # NoSas /\ flow[f][p].deviceId = d
    => flow[f][d].sas = flow[f][p].sas

\* A device is marked verified only after the users at both ends confirmed the
\* same SAS in one flow.  Its key is signed only after the user at its end confirmed
\* the SAS that both ends show.  The MAC handler checks neither state nor order, and
\* signs before the user here confirms, even one who does not or who cancelled.
TrustNeedsConsent ==
  \A d \in Devices :
    /\ \A p \in verified[d] :
         \E f \in Flows : /\ flow[f][d].macSent /\ flow[f][p].macSent
                          /\ SameSas(f, d, p)
    /\ \A p \in signed[d] :
         \E f \in Flows : flow[f][p].macSent /\ SameSas(f, d, p)

\* A request sent to several devices ends in a comparison with one of them,
\* whoever answers first.
OneResponder ==
  \A f \in Flows : Cardinality({d \in Devices : flow[f][d].sas # NoSas}) <= 2

\* Undisturbed, the two ends of a request succeed, whoever sends "start" and
\* whichever start message arrives first.
Completes ==
  \A f \in Flows, d \in Devices :
    ~Disturbed /\ flow[f][d].sender /\ flow[f][d].state = "PromptStartVerification"
      ~> /\ flow[f][d].state = "Success"
         /\ flow[f][flow[f][d].deviceId].state = "Success"
==============================================================================
