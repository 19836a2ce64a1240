---------------------- MODULE DeviceVerificationProofs ----------------------
(***************************************************************************)
(* The verification of devices, for any devices, flows and scenarios.  A   *)
(* flow is looked at on its own: F is what the devices keep of it, N its   *)
(* messages on their way, a the device whose user asked.                   *)
(***************************************************************************)
EXTENDS DeviceVerification, FiniteSetTheorems, TLAPS

\* Numbers are compared only if a start of the other program offers no emoji.
Methods    == {"emoji"} \cup (env.offers \cap {"decimal"})
Ends       == Devices \cup {NoDevice}
Offers     == {"both"} \cup env.offers
Kinds      == {"request", "ready", "start", "accept", "key", "mac", "done", "cancel"}
Sas        == {NoSas} \cup (Ends \X Ends \X (SUBSET Devices) \X Methods)
Commitment == {NoSas} \cup (Devices \X Ends)
FlowType   == [state : States \cup {NoFlow}, sender : BOOLEAN, deviceIds : SUBSET Devices,
               deviceId : Ends, canonical : Ends, commitment : Commitment, method : Methods,
               sas : Sas, macVerified : BOOLEAN, keySent : BOOLEAN, macSent : BOOLEAN,
               acceptSent : BOOLEAN, startSent : BOOLEAN, timer : BOOLEAN]

\* All talk to who asked, and that one to all it asked or to the one it picked.
Star(F, a) ==
  /\ F[a].deviceIds \subseteq Devices \ {a}
  /\ F[a].deviceId # NoDevice => F[a].deviceIds = {F[a].deviceId}
  /\ F[a].state # NoFlow /\ ~F[a].sender => F[a].canonical # NoDevice
  /\ \A q \in Devices \ {a} : F[q].state # NoFlow =>
       /\ F[a].state # NoFlow
       /\ F[q].deviceIds = {a} /\ F[q].deviceId = a
       /\ F[a].deviceId = NoDevice => q \in F[a].deviceIds
  /\ \A d \in Devices : F[d].state = NoFlow => F[d] = Absent

\* A message was sent by who has the flow and noted it.
Lines(F, N, a) ==
  \A m \in N :
    /\ m.from \in Devices /\ m.to \in Devices /\ m.from # m.to /\ a \in {m.from, m.to}
    /\ F[m.from].state # NoFlow
    /\ m.from = a /\ F[a].deviceId = NoDevice => m.to \in F[a].deviceIds
    /\ m.kind = "start" => F[m.from].startSent /\ (m.from = a => m.to = F[a].deviceId)
    /\ m.kind = "accept" => F[m.from].acceptSent
    /\ m.kind = "key" => F[m.from].keySent
    /\ m.kind = "mac" => F[m.from].macSent
    /\ m.kind \in {"accept", "key"} /\ m.from = a => F[a].deviceId \in {NoDevice, m.to}

\* Nothing that is meant for one device is said before one is picked.
Unpicked(F, a) ==
  F[a].deviceId = NoDevice =>
    /\ ~F[a].startSent /\ \A q \in Devices \ {a} : ~F[q].acceptSent
    /\ F[a].sender =>
         /\ ~F[a].acceptSent /\ ~F[a].keySent /\ F[a].sas = NoSas
         /\ \A q \in Devices \ {a} : ~F[q].keySent /\ F[q].sas = NoSas

\* Who goes on is the one that was picked.
PickedOf(F, a, q) ==
    /\ F[q].keySent \/ F[q].sas # NoSas => F[a].deviceId \in {NoDevice, q}
    /\ F[q].canonical = a => F[a].deviceId = q /\ F[a].startSent
    /\ F[q].canonical \in {NoDevice, a, q}
    /\ ~F[q].sender => F[q].canonical # q
    /\ F[q].acceptSent => F[q].canonical = a
    /\ F[q].sender => F[q].startSent

Picked(F, a) == \A q \in Devices \ {a} : PickedOf(F, a, q)

Begun(F) ==
  \A d \in Devices : F[d].startSent =>
    /\ F[d].state # "PromptStartVerification" /\ F[d].canonical # NoDevice
    /\ F[d].sender \/ F[d].acceptSent

\* A SAS is made once, of the key of the device that the flow is with.
OnceOf(F, N, d) ==
  F[d].sas # NoSas =>
    /\ {F[d].sas[1], F[d].sas[2]} = {d, F[d].deviceId}
    /\ F[d].deviceId # NoDevice =>
         /\ F[F[d].deviceId].keySent
         /\ \A m \in N : ~(m.kind = "key" /\ m.from = F[d].deviceId /\ m.to = d)

Once(F, N) == \A d \in Devices : OnceOf(F, N, d)

Same(F, d, p) == F[d].sas # NoSas /\ F[d].sas = F[p].sas

\* A MAC is sent by who confirmed what the other end shows too.
ConfirmedOf(F, d) ==
    /\ F[d].macSent => F[d].deviceId # NoDevice /\ Same(F, d, F[d].deviceId)
    /\ F[d].state = "WaitingForMac" => F[d].macSent
    /\ F[d].macVerified => F[d].deviceId # NoDevice /\ F[F[d].deviceId].macSent

Confirmed(F) == \A d \in Devices : ConfirmedOf(F, d)

\* One device is asked at a time, or every device runs this program.
OnlyOnes == \A d \in DOMAIN env.asks : \A to \in env.asks[d] : Cardinality(to) = 1
OneAsked == env.otherClients = {} \/ OnlyOnes

Alone(F, N, a) ==
  /\ env.otherClients = {} => \A q \in Devices \ {a} : ~F[q].startSent
  /\ OnlyOnes /\ F[a].state # NoFlow => F[a].deviceId # NoDevice
  /\ OnlyOnes => /\ \A q \in Devices \ {a} : F[q].state # NoFlow => F[a].deviceId = q
                 /\ \A m \in N : m.from = a => m.to = F[a].deviceId
  /\ F[a].deviceId = NoDevice /\ F[a].state # NoFlow => F[a].sender

SasFor(d, p, accepted, method) ==
  IF accepted THEN <<p, d, {d, p}, method>> ELSE <<d, p, {d, p}, method>>

\* Of two ends that both start, one accepts and the other does not.
RoleOf(F, d) ==
    /\ F[d].acceptSent => /\ ~F[d].sender /\ F[d].canonical # NoDevice
                          /\ F[d].startSent => Rank[F[d].deviceId] < Rank[d]
    /\ ~F[d].sender /\ F[d].canonical # NoDevice =>
         F[d].deviceId # NoDevice /\ F[F[d].deviceId].startSent
    /\ F[d].keySent \/ F[d].sas # NoSas =>
         F[d].deviceId # NoDevice /\ (F[d].acceptSent \/ F[F[d].deviceId].acceptSent)
    /\ F[d].sas # NoSas => F[d].sas = SasFor(d, F[d].deviceId, F[d].acceptSent, F[d].sas[4])

Roles(F) == \A d \in Devices : RoleOf(F, d)

Asked(F, N, a) ==
  /\ F \in [Devices -> FlowType] /\ a \in Devices
  /\ Star(F, a) /\ Lines(F, N, a) /\ Unpicked(F, a) /\ Picked(F, a) /\ Begun(F)
  /\ Once(F, N) /\ Confirmed(F)
  /\ OneAsked => Alone(F, N, a) /\ Roles(F)

\* What a flow never takes back.
Keeps(F, G) ==
  \A d \in Devices : /\ F[d].macSent => G[d].macSent
                     /\ F[d].deviceId # NoDevice => G[d].deviceId = F[d].deviceId

------------------------------------------------------------------------------
(* What the handlers do to a flow.                                            *)

Calmed(x, y) ==
  /\ \A i \in {"sender", "deviceIds", "deviceId", "canonical", "commitment", "sas",
               "macVerified", "keySent", "macSent", "acceptSent", "startSent"} : y[i] = x[i]
  /\ \/ y.state = x.state /\ (x.state = NoFlow => y = x)
     \/ /\ x.state # NoFlow /\ y.state \notin {NoFlow, "PromptStartVerification"}
        /\ y.state = "WaitingForMac" => x.macSent

\* Flows fail or go on, and say so.
LEMMA QuietKeeps ==
  ASSUME NEW F, NEW N, NEW a, Asked(F, N, a),
         NEW G \in [Devices -> FlowType], \A d \in Devices : Calmed(F[d], G[d]),
         NEW M, \A m \in M : m \in N \/ ( /\ m.from \in Devices /\ F[m.from].state # NoFlow
                                          /\ m.to \in F[m.from].deviceIds
                                          /\ m.kind \in {"request", "ready", "cancel", "done"} )
  PROVE  Asked(G, M, a) /\ Keeps(F, G)
<1>1. \A d \in Devices :
        /\ \A i \in {"sender", "deviceIds", "deviceId", "canonical", "commitment", "sas",
               "macVerified", "keySent", "macSent", "acceptSent", "startSent"} : G[d][i] = F[d][i]
        /\ (G[d].state = NoFlow) <=> (F[d].state = NoFlow)
        /\ G[d].state = "WaitingForMac" => F[d].state = "WaitingForMac" \/ F[d].macSent
        /\ G[d].state = "PromptStartVerification" => F[d].state = "PromptStartVerification"
        /\ G[d].state = NoFlow => G[d] = F[d]
  BY DEF Calmed
<1>2. Star(G, a)
  BY <1>1 DEF Asked, Star
<1>3. Lines(G, M, a)
  BY <1>1 DEF Asked, Star, Lines
<1>4. Unpicked(G, a)
  BY <1>1 DEF Asked, Unpicked
<1>5. Picked(G, a)
  BY <1>1 DEF Asked, Picked, PickedOf
<1>6. Begun(G)
  BY <1>1 DEF Asked, Begun
<1>7. Once(G, M)
  <2>1. \A m \in M : m.kind = "key" => m \in N
    OBVIOUS
  <2>2. \A d \in Devices : G[d].sas = F[d].sas /\ G[d].deviceId = F[d].deviceId
                          /\ G[d].keySent = F[d].keySent /\ F[d].deviceId \in Ends
    BY <1>1 DEF Asked, FlowType
  <2>3. QED
    BY <2>1, <2>2 DEF Asked, Once, OnceOf, Ends
<1>8. Confirmed(G)
  BY <1>1 DEF Asked, Confirmed, ConfirmedOf, Same, FlowType, Ends
<1>9. OneAsked => Alone(G, M, a)
  <2>1. \A m \in M : m \in N \/ (m.to \in F[m.from].deviceIds /\ F[m.from].state # NoFlow)
    OBVIOUS
  <2>2. OnlyOnes /\ F[a].state # NoFlow => F[a].deviceIds = {F[a].deviceId}
    BY DEF Asked, Star, Alone, OneAsked
  <2>3. QED
    BY <1>1, <2>1, <2>2 DEF Asked, Alone, OneAsked
<1>10. OneAsked => Roles(G)
  BY <1>1 DEF Asked, Roles, RoleOf, FlowType, Ends
<1>11. Keeps(F, G)
  BY <1>1 DEF Keeps
<1>12. QED
  BY <1>2, <1>3, <1>4, <1>5, <1>6, <1>7, <1>8, <1>9, <1>10, <1>11 DEF Asked

\* One device sends one kind of message.
Sends(N, M, d, to, kind) ==
  \A m \in M : m \in N \/ (m.from = d /\ m.to \in to /\ m.kind = kind)

LEMMA NewFlowFields ==
  ASSUME NEW s \in BOOLEAN, NEW to
  PROVE  /\ NewFlow(s, to).state = "PromptStartVerification" /\ NewFlow(s, to).deviceIds = to
         /\ NewFlow(s, to).sender = s /\ NewFlow(s, to).canonical = NoDevice
         /\ NewFlow(s, to).sas = NoSas /\ NewFlow(s, to).commitment = NoSas
         /\ NewFlow(s, to).method = "emoji"
         /\ NewFlow(s, to).macVerified = FALSE /\ NewFlow(s, to).keySent = FALSE
         /\ NewFlow(s, to).macSent = FALSE /\ NewFlow(s, to).acceptSent = FALSE
         /\ NewFlow(s, to).startSent = FALSE
BY DEF NewFlow

LEMMA NewFlowIs ==
  /\ \A s \in BOOLEAN, d \in Devices : NewFlow(s, {d}).deviceId = d
  /\ \A s \in BOOLEAN, to \in SUBSET Devices :
       /\ NewFlow(s, to) \in FlowType
       /\ NewFlow(s, to).deviceId # NoDevice => to = {NewFlow(s, to).deviceId}
       /\ to # {} /\ NewFlow(s, to).deviceId = NoDevice => Cardinality(to) # 1
  /\ Absent.deviceId = NoDevice /\ Absent.deviceIds = {} /\ Absent \in FlowType
<1>1. \A d \in Devices : Cardinality({d}) = 1 /\ (CHOOSE x \in {d} : TRUE) = d
  BY FS_Singleton
<1>2. \A to \in SUBSET Devices : Cardinality(to) = 1 => \E d : to = {d}
  BY FS_Subset, FS_Singleton, DevicesOK
<1>3. Cardinality({}) = 0
  BY FS_EmptySet
<1>4. NoDevice \notin Devices
  BY DevicesOK
<1>5. \A s \in BOOLEAN, d \in Devices : NewFlow(s, {d}).deviceId = d
  BY <1>1 DEF NewFlow
<1>6. ASSUME NEW s \in BOOLEAN, NEW to \in SUBSET Devices
      PROVE  /\ NewFlow(s, to) \in FlowType
             /\ NewFlow(s, to).deviceId # NoDevice => to = {NewFlow(s, to).deviceId}
             /\ to # {} /\ NewFlow(s, to).deviceId = NoDevice => Cardinality(to) # 1
  <2>1. CASE Cardinality(to) = 1
    <3>1. PICK d : to = {d}
      BY <1>2, <2>1
    <3>2. d \in Devices /\ NewFlow(s, to).deviceId = d
      BY <1>5, <3>1
    <3>3. NewFlow(s, to) \in FlowType
      BY <3>1, <3>2 DEF NewFlow, FlowType, States, NoFlow, Ends, Sas, Commitment, Methods, NoSas
    <3>4. QED
      BY <1>4, <3>1, <3>2, <3>3
  <2>2. CASE Cardinality(to) # 1
    <3>1. NewFlow(s, to).deviceId = NoDevice
      BY <2>2 DEF NewFlow
    <3>2. NewFlow(s, to) \in FlowType
      BY <2>2 DEF NewFlow, FlowType, States, NoFlow, Ends, Sas, Commitment, Methods, NoSas
    <3>3. QED
      BY <2>2, <3>1, <3>2
  <2>3. QED
    BY <2>1, <2>2
<1>7. Absent.deviceId = NoDevice /\ Absent.deviceIds = {} /\ Absent \in FlowType
  <2>1. NewFlow(FALSE, {}).deviceId = NoDevice /\ NewFlow(FALSE, {}).deviceIds = {}
    BY <1>3 DEF NewFlow
  <2>2. NewFlow(FALSE, {}) \in FlowType
    BY <1>6
  <2>3. QED
    BY <2>1, <2>2 DEF Absent, FlowType, NoFlow
<1>8. QED
  BY <1>5, <1>6, <1>7

LEMMA AbsentFields ==
  /\ Absent.state = NoFlow /\ Absent.deviceId = NoDevice /\ Absent.deviceIds = {}
  /\ Absent.canonical = NoDevice /\ Absent.sas = NoSas /\ Absent.sender = FALSE
  /\ Absent.macVerified = FALSE /\ Absent.keySent = FALSE /\ Absent.macSent = FALSE
  /\ Absent.acceptSent = FALSE /\ Absent.startSent = FALSE
<1>1. PICK n : n = NewFlow(FALSE, {})
  OBVIOUS
<1>2. n \in FlowType /\ Absent = [n EXCEPT !.state = NoFlow, !.timer = FALSE]
  BY <1>1, NewFlowIs DEF Absent
<1>3. /\ Absent.state = NoFlow
      /\ \A i \in {"canonical", "sas", "sender", "macVerified", "keySent", "macSent",
                   "acceptSent", "startSent"} : Absent[i] = n[i]
  BY <1>2 DEF FlowType
<1>4. /\ n.canonical = NoDevice /\ n.sas = NoSas /\ n.sender = FALSE /\ n.macVerified = FALSE
      /\ n.keySent = FALSE /\ n.macSent = FALSE /\ n.acceptSent = FALSE /\ n.startSent = FALSE
  BY <1>1, NewFlowFields, Zenon
<1>5. QED
  BY <1>3, <1>4, NewFlowIs

\* A device that is told of a flow makes one with who asked.
LEMMA CreatedKeeps ==
  ASSUME NEW F, NEW N, NEW a, Asked(F, N, a),
         NEW d \in Devices, F[d].state = NoFlow,
         NEW m \in N, m.to = d,
         NEW G \in [Devices -> FlowType], \A e \in Devices \ {d} : G[e] = F[e],
         G[d] = NewFlow(FALSE, {m.from}),
         NEW M, M \subseteq N
  PROVE  Asked(G, M, a) /\ Keeps(F, G)
<1>1. d # a /\ m.from = a /\ F[a].state # NoFlow
  BY DEF Asked, Lines, Star
<1>2. a \in Devices /\ NoDevice \notin Devices
  BY DevicesOK DEF Asked
<1>3. /\ G[d].state = "PromptStartVerification" /\ G[d].deviceId = a /\ G[d].deviceIds = {a}
      /\ G[d].canonical = NoDevice /\ G[d].sas = NoSas
      /\ G[d].sender = FALSE /\ G[d].macVerified = FALSE /\ G[d].keySent = FALSE
      /\ G[d].macSent = FALSE /\ G[d].acceptSent = FALSE /\ G[d].startSent = FALSE
  <2>1. G[d] = NewFlow(FALSE, {a})
    BY <1>1
  <2>2. NewFlow(FALSE, {a}).deviceId = a
    BY <1>2, NewFlowIs
  <2>3. FALSE \in BOOLEAN
    OBVIOUS
  <2>4. /\ G[d].state = "PromptStartVerification" /\ G[d].deviceIds = {a}
        /\ G[d].canonical = NoDevice /\ G[d].sas = NoSas
        /\ G[d].sender = FALSE /\ G[d].macVerified = FALSE /\ G[d].keySent = FALSE
        /\ G[d].macSent = FALSE /\ G[d].acceptSent = FALSE /\ G[d].startSent = FALSE
    BY <2>1 DEF NewFlow
  <2>5. QED
    BY <2>1, <2>2, <2>4
<1>4. /\ F[d].deviceId = NoDevice /\ F[d].canonical = NoDevice /\ F[d].sas = NoSas
      /\ F[d].sender = FALSE /\ F[d].macVerified = FALSE /\ F[d].keySent = FALSE
      /\ F[d].macSent = FALSE /\ F[d].acceptSent = FALSE /\ F[d].startSent = FALSE
  <2>1. F[d] = Absent
    BY DEF Asked, Star
  <2>2. QED
    BY <2>1, AbsentFields
<1>5. G[a] = F[a]
  BY <1>1, <1>2
<1>6. Star(G, a)
  <2>1. F[a].deviceId = NoDevice => d \in F[a].deviceIds
    BY <1>1 DEF Asked, Lines
  <2>2. ASSUME NEW q \in Devices \ {a}, G[q].state # NoFlow
        PROVE  /\ G[q].deviceIds = {a} /\ G[q].deviceId = a
               /\ F[a].deviceId = NoDevice => q \in F[a].deviceIds
    BY <1>1, <1>3, <2>1, <2>2 DEF Asked, Star
  <2>3. \A e \in Devices : G[e].state = NoFlow => G[e] = Absent
    <3>1. G[d].state # NoFlow
      BY <1>3 DEF NoFlow
    <3>2. QED
      BY <3>1 DEF Asked, Star
  <2>4. QED
    BY <1>1, <1>5, <2>2, <2>3 DEF Asked, Star
<1>7. Lines(G, M, a)
  BY <1>1, <1>3, <1>4, <1>5 DEF Asked, Lines
<1>8. Unpicked(G, a)
  <2>1. \A e \in Devices : G[e].acceptSent = F[e].acceptSent /\ G[e].keySent = F[e].keySent
                        /\ G[e].sas = F[e].sas
    BY <1>3, <1>4
  <2>2. QED
    BY <1>2, <1>5, <2>1 DEF Asked, Unpicked
<1>9. Picked(G, a)
  <2>1. PickedOf(G, a, d)
    BY <1>2, <1>3 DEF PickedOf
  <2>2. \A q \in Devices \ {a} : q # d => PickedOf(G, a, q)
    BY <1>5 DEF Asked, Picked, PickedOf
  <2>3. QED
    BY <2>1, <2>2 DEF Picked
<1>10. Begun(G)
  BY <1>3 DEF Asked, Begun
<1>11. Once(G, M)
  <2>1. \A e \in Devices : G[e].keySent = F[e].keySent
    BY <1>3, <1>4
  <2>2. \A e \in Devices : G[e].sas # NoSas => e # d /\ G[e] = F[e] /\ F[e].deviceId \in Ends
    BY <1>3 DEF Asked, FlowType
  <2>3. QED
    BY <2>1, <2>2 DEF Asked, Once, OnceOf, Ends
<1>12. Confirmed(G)
  <2>1. \A e \in Devices : G[e].macSent = F[e].macSent /\ G[e].sas = F[e].sas
    BY <1>3, <1>4
  <2>2. \A e \in Devices : F[e].deviceId \in Ends
    BY DEF Asked, FlowType
  <2>3. QED
    <3>1. ASSUME NEW e \in Devices, e # d
          PROVE  ConfirmedOf(G, e)
      <4>1. G[e] = F[e] /\ F[e].deviceId \in Ends
        BY <2>2, <3>1
      <4>2. QED
        BY <2>1, <4>1 DEF Asked, Confirmed, ConfirmedOf, Same, Ends
    <3>2. ConfirmedOf(G, d)
      BY <1>3 DEF ConfirmedOf
    <3>3. QED
      BY <3>1, <3>2 DEF Confirmed
<1>13. OneAsked => Alone(G, M, a)
  BY <1>1, <1>3, <1>4, <1>5 DEF Asked, Alone, NoFlow
<1>14. OneAsked => Roles(G)
  <2>1. \A e \in Devices : G[e].acceptSent = F[e].acceptSent /\ G[e].startSent = F[e].startSent
    BY <1>3, <1>4
  <2>2. \A e \in Devices : F[e].deviceId \in Ends
    BY DEF Asked, FlowType
  <2>3. QED
    <3> SUFFICES ASSUME OneAsked, NEW e \in Devices PROVE RoleOf(G, e)
      BY DEF Roles
    <3>1. CASE e = d
      BY <1>3, <3>1 DEF RoleOf
    <3>2. CASE e # d
      <4>1. G[e] = F[e] /\ F[e].deviceId \in Ends
        BY <2>2, <3>2
      <4>2. QED
        BY <2>1, <4>1 DEF Asked, Roles, RoleOf, Ends
    <3>3. QED
      BY <3>1, <3>2
<1>15. Keeps(F, G)
  BY <1>3, <1>4 DEF Keeps
<1>16. QED
  BY <1>2, <1>6, <1>7, <1>8, <1>9, <1>10, <1>11, <1>12, <1>13, <1>14, <1>15 DEF Asked


\* The first that answers is picked.
LEMMA PickKeeps ==
  ASSUME NEW F, NEW N, NEW a, Asked(F, N, a),
         F[a].state # NoFlow, F[a].sender = TRUE, F[a].deviceId = NoDevice,
         NEW q \in F[a].deviceIds,
         NEW G \in [Devices -> FlowType], \A e \in Devices \ {a} : G[e] = F[e],
         G[a] = [F[a] EXCEPT !.deviceId = q, !.deviceIds = {q}],
         NEW M, M \subseteq N
  PROVE  Asked(G, M, a) /\ Keeps(F, G)
<1>1. /\ a \in Devices /\ NoDevice \notin Devices /\ q \in Devices \ {a}
      /\ F[a] \in FlowType /\ \A e \in Devices : F[e].deviceId \in Ends
  BY DevicesOK DEF Asked, Star, FlowType
<1>2. /\ G[a].deviceId = q /\ G[a].deviceIds = {q}
      /\ \A i \in {"state", "sender", "canonical", "commitment", "sas", "macVerified",
                   "keySent", "macSent", "acceptSent", "startSent"} : G[a][i] = F[a][i]
  BY <1>1 DEF FlowType
<1>3. /\ \A e \in Devices : F[e].acceptSent = FALSE /\ F[e].keySent = FALSE /\ F[e].sas = NoSas
      /\ F[a].startSent = FALSE
  BY <1>1 DEF Asked, Unpicked, FlowType
<1>4. \A e \in Devices : /\ G[e].acceptSent = FALSE /\ G[e].keySent = FALSE /\ G[e].sas = NoSas
                         /\ G[e].startSent = F[e].startSent /\ G[e].canonical = F[e].canonical
                         /\ G[e].sender = F[e].sender /\ G[e].state = F[e].state
                         /\ G[e].macSent = F[e].macSent /\ G[e].macVerified = F[e].macVerified
  <2>1. \A e \in Devices : e # a => G[e] = F[e]
    OBVIOUS
  <2>2. \A i \in {"state", "sender", "canonical", "sas", "macVerified", "keySent", "macSent",
                  "acceptSent", "startSent"} : \A e \in Devices : G[e][i] = F[e][i]
    BY <1>2, <2>1
  <2>3. QED
    BY <1>3, <2>2
<1>5. \A e \in Devices : F[e].macSent = FALSE /\ F[e].macVerified = FALSE
  <2>1. \A e \in Devices : F[e].macSent = FALSE
    BY <1>3 DEF Asked, Confirmed, ConfirmedOf, Same, FlowType
  <2>2. \A e \in Devices : F[e].macVerified = FALSE
    BY <2>1, <1>1 DEF Asked, Confirmed, ConfirmedOf, FlowType, Ends
  <2>3. QED
    BY <2>1, <2>2
<1>6. Star(G, a)
  <2>1. \A e \in Devices : G[e].state = NoFlow => G[e] = Absent
    <3>1. G[a].state # NoFlow
      BY <1>2
    <3>2. QED
      BY <3>1 DEF Asked, Star
  <2>2. \A e \in Devices \ {a} : G[e].state # NoFlow => G[e].deviceIds = {a} /\ G[e].deviceId = a
    BY DEF Asked, Star
  <2>3. G[a].deviceId # NoDevice
    BY <1>1, <1>2
  <2>4. G[a].sender = TRUE
    BY <1>2
  <2>5. QED
    BY <1>1, <1>2, <2>1, <2>2, <2>3, <2>4 DEF Star
<1>7. Lines(G, M, a)
  BY <1>1, <1>2, <1>3, <1>4 DEF Asked, Lines
<1>8. Unpicked(G, a)
  BY <1>1, <1>2 DEF Unpicked
<1>9. Picked(G, a)
  BY <1>1, <1>3, <1>4 DEF Asked, Picked, PickedOf
<1>10. Begun(G)
  BY <1>4 DEF Asked, Begun
<1>11. Once(G, M)
  BY <1>4 DEF Once, OnceOf
<1>12. Confirmed(G)
  BY <1>4, <1>5 DEF Asked, Confirmed, ConfirmedOf
<1>13. OneAsked => Alone(G, M, a)
  BY <1>1, <1>2, <1>4 DEF Asked, Alone, OneAsked
<1>14. OneAsked => Roles(G)
  <2>1. \A e \in Devices : ~F[e].sender => F[e].canonical = NoDevice
    BY <1>1, <1>3 DEF Asked, Picked, PickedOf
  <2>2. QED
    BY <1>4, <2>1 DEF Roles, RoleOf
<1>15. Keeps(F, G)
  BY <1>5 DEF Keeps
<1>16. QED
  BY <1>1, <1>6, <1>7, <1>8, <1>9, <1>10, <1>11, <1>12, <1>13, <1>14, <1>15 DEF Asked


\* A device starts.
LEMMA StartKeeps ==
  ASSUME NEW F, NEW N, NEW a, Asked(F, N, a),
         NEW d \in Devices, F[d].state # NoFlow, F[d].deviceId # NoDevice,
         F[d].startSent = FALSE,
         \/ d = a /\ F[d].sender = TRUE
         \/ d # a /\ F[d].sender = FALSE /\ F[d].canonical = NoDevice /\ d \in env.otherClients,
         NEW G \in [Devices -> FlowType], \A e \in Devices \ {d} : G[e] = F[e],
         G[d] = [F[d] EXCEPT !.sender = TRUE, !.startSent = TRUE, !.canonical = d,
                             !.state = "WaitingForOtherToAccept"],
         NEW M, Sends(N, M, d, F[d].deviceIds, "start")
  PROVE  Asked(G, M, a) /\ Keeps(F, G)
<1>1. /\ a \in Devices /\ NoDevice \notin Devices
      /\ F[d] \in FlowType /\ \A e \in Devices : F[e].deviceId \in Ends
  BY DevicesOK DEF Asked, FlowType
<1>2. /\ G[d].sender = TRUE /\ G[d].startSent = TRUE /\ G[d].canonical = d
      /\ G[d].state = "WaitingForOtherToAccept"
      /\ \A i \in {"deviceIds", "deviceId", "commitment", "sas", "macVerified",
                   "keySent", "macSent", "acceptSent"} : G[d][i] = F[d][i]
  BY <1>1 DEF FlowType
<1>3. /\ \A e \in Devices : e # d => G[e] = F[e]
      /\ \A e \in Devices : /\ G[e].deviceIds = F[e].deviceIds /\ G[e].deviceId = F[e].deviceId
                            /\ G[e].sas = F[e].sas /\ G[e].acceptSent = F[e].acceptSent
                            /\ G[e].keySent = F[e].keySent /\ G[e].macSent = F[e].macSent
                            /\ G[e].macVerified = F[e].macVerified
                            /\ F[e].startSent => G[e].startSent
                            /\ F[e].sender => G[e].sender
                            /\ (G[e].state = NoFlow) <=> (F[e].state = NoFlow)
  BY <1>2 DEF NoFlow
<1>4. F[d].deviceIds = {F[d].deviceId} /\ (d # a => F[d].deviceId = a)
  BY <1>1 DEF Asked, Star
<1>5. d # a => F[d].acceptSent = FALSE
  BY <1>1 DEF Asked, Picked, PickedOf, FlowType
<1>6. \A m \in M : m \in N \/ ( /\ m.from = d /\ m.to = F[d].deviceId /\ m.kind = "start"
                               /\ (d # a => m.to = a) /\ m.to \in Devices /\ m.to # d )
  <2>1. F[d].deviceId \in Devices /\ F[d].deviceId # d
    BY <1>1, <1>4 DEF Ends, Asked, Star
  <2>2. QED
    BY <1>4, <2>1 DEF Sends
<1>7. Star(G, a)
  <2>1. \A e \in Devices : G[e].state = NoFlow => G[e] = Absent
    BY <1>2, <1>3 DEF Asked, Star, NoFlow
  <2>2. ~G[a].sender => G[a].canonical = F[a].canonical
    BY <1>1, <1>2, <1>3
  <2>3. QED
    BY <1>1, <1>3, <2>1, <2>2 DEF Asked, Star
<1>8. Lines(G, M, a)
  <2>1. ASSUME NEW m \in N
        PROVE  /\ m.from \in Devices /\ m.to \in Devices /\ m.from # m.to /\ a \in {m.from, m.to}
               /\ G[m.from].state # NoFlow
               /\ m.from = a /\ G[a].deviceId = NoDevice => m.to \in G[a].deviceIds
               /\ m.kind = "start" => G[m.from].startSent /\ (m.from = a => m.to = G[a].deviceId)
               /\ m.kind = "accept" => G[m.from].acceptSent
               /\ m.kind = "key" => G[m.from].keySent
               /\ m.kind = "mac" => G[m.from].macSent
               /\ m.kind \in {"accept", "key"} /\ m.from = a => G[a].deviceId \in {NoDevice, m.to}
    BY <1>1, <1>3 DEF Asked, Lines
  <2>2. ASSUME NEW m \in M, m \notin N
        PROVE  /\ m.from \in Devices /\ m.to \in Devices /\ m.from # m.to /\ a \in {m.from, m.to}
               /\ G[m.from].state # NoFlow /\ m.kind = "start" /\ G[m.from].startSent
               /\ m.from = a => G[a].deviceId = m.to /\ G[a].deviceId # NoDevice
    <3>1. m.from = d /\ m.to = F[d].deviceId /\ m.kind = "start" /\ m.to \in Devices /\ m.to # d
      BY <1>6, <2>2
    <3>2. a \in {m.from, m.to}
      BY <1>4, <3>1
    <3>3. G[d].state # NoFlow
      BY <1>2 DEF NoFlow
    <3>4. m.from = a => G[a].deviceId = m.to /\ G[a].deviceId # NoDevice
      <4>1. G[d].deviceId = F[d].deviceId /\ F[d].deviceId # NoDevice
        BY <1>3
      <4>2. QED
        BY <3>1, <4>1
    <3>5. QED
      BY <1>2, <3>1, <3>2, <3>3, <3>4
  <2>3. QED
    BY <2>1, <2>2 DEF Lines
<1>9. Unpicked(G, a)
  BY <1>1, <1>2, <1>3 DEF Asked, Unpicked
<1>10. Picked(G, a)
  <2> SUFFICES ASSUME NEW q \in Devices \ {a} PROVE PickedOf(G, a, q)
    BY DEF Picked
  <2>1. CASE q = d
    BY <1>1, <1>2, <1>3, <1>5, <2>1 DEF Asked, Picked, PickedOf
  <2>2. CASE q # d
    BY <1>1, <1>2, <1>3, <2>2 DEF Asked, Picked, PickedOf
  <2>3. QED
    BY <2>1, <2>2
<1>11. Begun(G)
  <2>1. \A e \in Devices : e # d /\ G[e].startSent => F[e].startSent /\ G[e] = F[e]
    BY <1>3
  <2>2. QED
    <3>1. ASSUME NEW e \in Devices, e # d, G[e].startSent
          PROVE  /\ G[e].state # "PromptStartVerification" /\ G[e].canonical # NoDevice
                 /\ G[e].sender \/ G[e].acceptSent
      <4>1. F[e].startSent /\ G[e] = F[e]
        BY <2>1, <3>1
      <4>2. QED
        BY <4>1 DEF Asked, Begun
    <3>2. d # NoDevice
      BY <1>1
    <3>3. QED
      BY <1>2, <3>1, <3>2 DEF Begun
<1>12. Once(G, M)
  <2>1. \A m \in M : m.kind = "key" => m \in N
    BY <1>6
  <2>2. QED
    BY <1>1, <1>3, <2>1 DEF Asked, Once, OnceOf, Ends
<1>13. Confirmed(G)
  <2>1. \A e \in Devices : G[e].state = "WaitingForMac" => F[e].state = "WaitingForMac"
    BY <1>2, <1>3
  <2>2. QED
    BY <1>1, <1>3, <2>1 DEF Asked, Confirmed, ConfirmedOf, Same, Ends
<1>14. OneAsked => Alone(G, M, a)
  BY <1>1, <1>2, <1>3, <1>6 DEF Asked, Alone, OneAsked
<1>15. OneAsked => Roles(G)
  <2> SUFFICES ASSUME OneAsked, NEW e \in Devices PROVE RoleOf(G, e)
    BY DEF Roles
  <2>1. F[d].acceptSent = FALSE
    BY <1>1, <1>5 DEF Asked, Roles, RoleOf, FlowType
  <2>2. CASE e = d
    <3>1. F[d].deviceId \in Devices /\ RoleOf(F, d)
      BY <1>1 DEF Asked, Roles, Ends
    <3>2. G[d].acceptSent = FALSE /\ G[d].deviceId = F[d].deviceId
          /\ G[d].keySent = F[d].keySent /\ G[d].sas = F[d].sas
          /\ G[F[d].deviceId].acceptSent = F[F[d].deviceId].acceptSent
      BY <1>3, <2>1, <3>1
    <3>3. QED
      BY <1>2, <2>1, <2>2, <3>1, <3>2 DEF RoleOf
  <2>3. CASE e # d
    BY <1>1, <1>2, <1>3, <2>3 DEF Asked, Roles, RoleOf, Ends
  <2>4. QED
    BY <2>2, <2>3
<1>16. Keeps(F, G)
  BY <1>3 DEF Keeps
<1>17. QED
  BY <1>1, <1>7, <1>8, <1>9, <1>10, <1>11, <1>12, <1>13, <1>14, <1>15, <1>16 DEF Asked

(* From here on a flow goes on with the devices it has.                       *)

GoesOn(F, G) ==
  \A e \in Devices :
    /\ G[e].deviceIds = F[e].deviceIds /\ G[e].deviceId = F[e].deviceId
    /\ G[e].startSent = F[e].startSent
    /\ F[e].acceptSent => G[e].acceptSent
    /\ F[e].keySent => G[e].keySent
    /\ F[e].macSent => G[e].macSent
    /\ F[e].macVerified => G[e].macVerified
    /\ (G[e].state = NoFlow) <=> (F[e].state = NoFlow)
    /\ G[e].state = NoFlow => G[e] = F[e]

LEMMA GoesOnKeeps ==
  ASSUME NEW F, NEW N, NEW a, Asked(F, N, a),
         NEW G \in [Devices -> FlowType], GoesOn(F, G),
         G[a].sender = FALSE => F[a].sender = FALSE \/ G[a].canonical # NoDevice,
         G[a].canonical = NoDevice => F[a].canonical = NoDevice,
         OneAsked /\ F[a].deviceId = NoDevice => G[a].sender = F[a].sender,
         NEW d \in Devices, F[d].state # NoFlow, NEW kind,
         NEW M, Sends(N, M, d, F[d].deviceIds, kind),
         \/ M \subseteq N
         \/ kind = "accept" /\ G[d].acceptSent = TRUE
         \/ kind = "key" /\ G[d].keySent = TRUE
         \/ kind = "mac" /\ G[d].macSent = TRUE
  PROVE  /\ Star(G, a) /\ Lines(G, M, a) /\ Keeps(F, G)
         /\ OneAsked => Alone(G, M, a)
<1>1. /\ a \in Devices /\ NoDevice \notin Devices
      /\ \A e \in Devices : F[e].deviceId \in Ends /\ F[e].sender \in BOOLEAN
                         /\ G[e].sender \in BOOLEAN
  BY DevicesOK DEF Asked, FlowType
<1>2. Star(G, a)
  <2>1. F[a].state # NoFlow /\ ~G[a].sender => G[a].canonical # NoDevice
    BY <1>1 DEF Asked, Star
  <2>2. \A e \in Devices : G[e].state = NoFlow => G[e] = Absent
    BY DEF Asked, Star, GoesOn
  <2>3. QED
    BY <1>1, <2>1, <2>2 DEF Asked, Star, GoesOn
<1>3. d # a => F[d].deviceIds = {a}
  BY DEF Asked, Star
<1>4. F[d].deviceIds \subseteq Devices \ {d}
  BY <1>1, <1>3 DEF Asked, Star
<1>5. Lines(G, M, a)
  <2>1. ASSUME NEW m \in N
        PROVE  /\ m.from \in Devices /\ m.to \in Devices /\ m.from # m.to /\ a \in {m.from, m.to}
               /\ G[m.from].state # NoFlow
               /\ m.from = a /\ G[a].deviceId = NoDevice => m.to \in G[a].deviceIds
               /\ m.kind = "start" => G[m.from].startSent /\ (m.from = a => m.to = G[a].deviceId)
               /\ m.kind = "accept" => G[m.from].acceptSent
               /\ m.kind = "key" => G[m.from].keySent
               /\ m.kind = "mac" => G[m.from].macSent
               /\ m.kind \in {"accept", "key"} /\ m.from = a => G[a].deviceId \in {NoDevice, m.to}
    BY <1>1 DEF Asked, Lines, GoesOn
  <2>2. ASSUME NEW m \in M, m \notin N
        PROVE  /\ m.from \in Devices /\ m.to \in Devices /\ m.from # m.to /\ a \in {m.from, m.to}
               /\ G[m.from].state # NoFlow
               /\ m.from = a /\ G[a].deviceId = NoDevice => m.to \in G[a].deviceIds
               /\ m.kind # "start"
               /\ m.kind = "accept" => G[m.from].acceptSent
               /\ m.kind = "key" => G[m.from].keySent
               /\ m.kind = "mac" => G[m.from].macSent
               /\ m.from = a => G[a].deviceId \in {NoDevice, m.to}
    <3>1. m.from = d /\ m.to \in F[d].deviceIds /\ m.kind = kind
      BY <2>2 DEF Sends
    <3>2. G[d].deviceIds = F[d].deviceIds /\ G[d].deviceId = F[d].deviceId /\ G[d].state # NoFlow
      BY DEF GoesOn
    <3>3. m.from = a => G[a].deviceId \in {NoDevice, m.to}
      BY <3>1, <3>2 DEF Asked, Star
    <3>4. ~(M \subseteq N)
      BY <2>2
    <3>5. QED
      BY <1>3, <1>4, <3>1, <3>2, <3>3, <3>4
  <2>3. QED
    BY <2>1, <2>2 DEF Lines
<1>6. ASSUME OneAsked PROVE Alone(G, M, a)
  <2>1. Alone(F, N, a) /\ F[a].deviceId # NoDevice => F[a].deviceIds = {F[a].deviceId}
    BY <1>6 DEF Asked, Star
  <2>2. ASSUME OnlyOnes, NEW m \in M, m.from = a
        PROVE  m.to = F[a].deviceId
    <3>1. CASE m \in N
      BY <1>6, <2>2, <3>1 DEF Asked, Alone
    <3>2. CASE m \notin N
      <4>1. m.to \in F[a].deviceIds /\ F[a].state # NoFlow
        BY <2>2, <3>2 DEF Sends
      <4>2. F[a].deviceId # NoDevice
        BY <1>6, <2>2, <4>1 DEF Asked, Alone
      <4>3. QED
        BY <2>1, <1>6, <4>1, <4>2 DEF Asked
    <3>3. QED
      BY <3>1, <3>2
  <2>3. QED
    BY <1>1, <1>6, <2>2 DEF Asked, Alone, GoesOn
<1>7. Keeps(F, G)
  BY DEF Keeps, GoesOn
<1>8. QED
  BY <1>2, <1>5, <1>6, <1>7

\* p started, and d is who it is with.
StartedBy(F, a, d, p) ==
  /\ p \in Devices
  /\ d # a => p = a /\ F[a].deviceId = d /\ F[a].startSent
  /\ OneAsked => /\ F[d].deviceId \in Devices \ {d} /\ F[F[d].deviceId].startSent
                 /\ F[F[d].deviceId].deviceId = d

LEMMA StartSaysSo ==
  ASSUME NEW F, NEW N, NEW a, Asked(F, N, a),
         NEW m \in N, m.kind = "start", NEW d \in Devices, m.to = d, F[d].state # NoFlow
  PROVE  StartedBy(F, a, d, m.from)
<1> DEFINE p == m.from
<1>1. /\ a \in Devices /\ NoDevice \notin Devices /\ p \in Devices /\ p # d
      /\ F[p].startSent /\ F[p].state # NoFlow
      /\ d # a => p = a /\ F[a].deviceId = d
  BY DevicesOK DEF Asked, Lines, FlowType
<1>2. CASE d # a
  <2>1. F[d].deviceId = a
    BY <1>2 DEF Asked, Star
  <2>2. QED
    BY <1>1, <1>2, <2>1 DEF StartedBy
<1>3. CASE d = a
  <2>1. F[p].deviceId = a
    BY <1>1, <1>3 DEF Asked, Star
  <2>2. OneAsked => OnlyOnes
    BY <1>1, <1>3 DEF Asked, Alone, OneAsked
  <2>3. OneAsked => F[a].deviceId = p
    BY <1>1, <1>3, <2>2 DEF Asked, Alone
  <2>4. QED
    BY <1>1, <1>3, <2>1, <2>3 DEF StartedBy
<1>4. QED
  BY <1>2, <1>3

\* A flow that is not the sender's any more knows who started.
LEMMA CanonicalSaysSo ==
  ASSUME NEW F, NEW N, NEW a, Asked(F, N, a),
         NEW d \in Devices, F[d].sender = FALSE, F[d].canonical # NoDevice
  PROVE  StartedBy(F, a, d, F[d].canonical)
<1>1. /\ a \in Devices /\ NoDevice \notin Devices /\ F[d].canonical \in Devices
      /\ F[d].deviceId \in Ends
  BY DevicesOK DEF Asked, FlowType, Ends
<1>2. d # a => F[d].canonical = a /\ F[a].deviceId = d /\ F[a].startSent
  BY DEF Asked, Picked, PickedOf
<1>3. SUFFICES ASSUME OneAsked
               PROVE  /\ F[d].deviceId \in Devices \ {d} /\ F[F[d].deviceId].startSent
                      /\ F[F[d].deviceId].deviceId = d
  BY <1>1, <1>2 DEF StartedBy
<1> DEFINE r == F[d].deviceId
<1>4. r \in Devices /\ F[r].startSent
  BY <1>1, <1>3 DEF Asked, Roles, RoleOf, Ends
<1>5. F[r].state # NoFlow
  BY <1>4, AbsentFields DEF Asked, Star
<1>6. F[d].state # NoFlow
  BY AbsentFields DEF Asked, Star
<1>7. r # d /\ F[r].deviceId = d
  <2>1. CASE d = a
    <3>1. r # a
      BY <1>1, <1>4, <2>1 DEF Asked, Star
    <3>2. QED
      BY <1>4, <1>5, <2>1, <3>1 DEF Asked, Star
  <2>2. CASE d # a
    BY <1>2, <1>6, <2>2 DEF Asked, Star
  <2>3. QED
    BY <2>1, <2>2
<1>8. QED
  BY <1>4, <1>7

\* A flow that gave way to p, and then answered or not.
Given(x, p, method) == [x EXCEPT !.sender = FALSE, !.canonical = p, !.method = method]
Answered(x, p, method, acc, st) ==
  [Given(x, p, method) EXCEPT !.acceptSent = acc, !.state = st]

\* A start is taken: its receiver gives way, and accepts unless it is too early.
LEMMA StartTakenKeeps ==
  ASSUME NEW F, NEW N, NEW a, Asked(F, N, a),
         NEW d \in Devices, NEW p, StartedBy(F, a, d, p), F[d].state # NoFlow,
         F[d].sender = TRUE => GivesWay(F[d], d),
         NEW method, NEW acc \in BOOLEAN, NEW st,
         NEW G \in [Devices -> FlowType], \A e \in Devices \ {d} : G[e] = F[e],
         G[d] = Answered(F[d], p, method, acc, st),
         NEW M, Sends(N, M, d, F[d].deviceIds, "accept"),
         \/ /\ acc = F[d].acceptSent /\ st = F[d].state /\ M \subseteq N
            /\ st = "PromptStartVerification" \/ acc = TRUE
         \/ acc = TRUE /\ st = "WaitingForKeys"
  PROVE  Asked(G, M, a) /\ Keeps(F, G)
<1>1. /\ a \in Devices /\ NoDevice \notin Devices /\ p \in Devices
      /\ F[d] \in FlowType /\ \A e \in Devices : F[e].deviceId \in Ends
      /\ \A e \in Devices : F[e].startSent \in BOOLEAN
      /\ d # a => p = a /\ F[a].deviceId = d /\ F[a].startSent
  BY DevicesOK DEF Asked, StartedBy, FlowType
<1>2. /\ G[d].sender = FALSE /\ G[d].canonical = p /\ G[d].acceptSent = acc /\ G[d].state = st
      /\ G[d].deviceIds = F[d].deviceIds /\ G[d].deviceId = F[d].deviceId
      /\ G[d].sas = F[d].sas /\ G[d].keySent = F[d].keySent /\ G[d].macSent = F[d].macSent
      /\ G[d].macVerified = F[d].macVerified /\ G[d].startSent = F[d].startSent
      /\ F[d].acceptSent => acc = TRUE
      /\ st # NoFlow /\ (st = "WaitingForMac" => F[d].state = "WaitingForMac")
  BY <1>1 DEF FlowType, NoFlow, Given, Answered
<1>3. /\ \A e \in Devices : e # d => G[e] = F[e]
      /\ \A e \in Devices : /\ G[e].deviceIds = F[e].deviceIds /\ G[e].deviceId = F[e].deviceId
                            /\ G[e].sas = F[e].sas /\ G[e].startSent = F[e].startSent
                            /\ G[e].keySent = F[e].keySent /\ G[e].macSent = F[e].macSent
                            /\ G[e].macVerified = F[e].macVerified
                            /\ F[e].acceptSent => G[e].acceptSent
                            /\ G[e].state = "WaitingForMac" => F[e].state = "WaitingForMac"
                            /\ (G[e].state = NoFlow) <=> (F[e].state = NoFlow)
                            /\ G[e].state = NoFlow => G[e] = F[e]
  <2>1. \A e \in Devices : e # d => G[e] = F[e]
    OBVIOUS
  <2>2. F[d].acceptSent => G[d].acceptSent
    BY <1>2
  <2>3. (G[d].state = NoFlow) <=> (F[d].state = NoFlow)
    BY <1>2
  <2>4. G[d].state # NoFlow
    BY <1>2
  <2>5. G[d].state = "WaitingForMac" => F[d].state = "WaitingForMac"
    BY <1>2
  <2>6. QED
    BY <1>2, <2>1, <2>2, <2>3, <2>4, <2>5
<1>4. OneAsked => /\ F[d].deviceId \in Devices /\ F[d].deviceId # NoDevice
                  /\ F[F[d].deviceId].startSent = TRUE
                  /\ F[F[d].deviceId].deviceId = d
  BY <1>1 DEF StartedBy
<1>5. /\ Star(G, a) /\ Lines(G, M, a) /\ Keeps(F, G)
      /\ OneAsked => Alone(G, M, a)
  <2>1. GoesOn(F, G)
    BY <1>3 DEF GoesOn
  <2>2. /\ G[a].sender = FALSE => F[a].sender = FALSE \/ G[a].canonical # NoDevice
        /\ G[a].canonical = NoDevice => F[a].canonical = NoDevice
    <3>1. CASE d = a
      <4>1. G[d].canonical = p /\ p # NoDevice
        BY <1>1, <1>2
      <4>2. QED
        BY <3>1, <4>1
    <3>2. CASE d # a
      BY <1>1, <1>3, <3>2
    <3>3. QED
      BY <3>1, <3>2
  <2>3. OneAsked /\ F[a].deviceId = NoDevice => G[a].sender = F[a].sender
    BY <1>1, <1>3, <1>4
  <2>4. M \subseteq N \/ G[d].acceptSent = TRUE
    BY <1>2
  <2>5. QED
    BY <2>1, <2>2, <2>3, <2>4, GoesOnKeeps
<1>6. Unpicked(G, a)
  <2>1. F[a].deviceId = NoDevice => d = a
    BY <1>1
  <2>2. F[a].deviceId = NoDevice => G[a].sender = FALSE
    BY <1>2, <2>1
  <2>3. F[a].deviceId = NoDevice => \A q \in Devices \ {a} : G[q] = F[q]
    BY <1>3, <2>1
  <2>4. QED
    BY <1>1, <1>3, <2>2, <2>3 DEF Asked, Unpicked
<1>7. Picked(G, a)
  <2> SUFFICES ASSUME NEW q \in Devices \ {a} PROVE PickedOf(G, a, q)
    BY DEF Picked
  <2>1. PickedOf(F, a, q)
    BY DEF Asked, Picked
  <2>2. CASE q = d
    BY <1>1, <1>2, <1>3, <2>1, <2>2 DEF PickedOf
  <2>3. CASE q # d
    BY <1>1, <1>3, <2>1, <2>3 DEF PickedOf
  <2>4. QED
    BY <2>2, <2>3
<1>8. Begun(G)
  <2>1. G[d].startSent => /\ G[d].state # "PromptStartVerification" /\ G[d].canonical # NoDevice
                          /\ G[d].sender \/ G[d].acceptSent
    BY <1>1, <1>2 DEF Asked, Begun
  <2>2. QED
    <3>1. ASSUME NEW e \in Devices, e # d, G[e].startSent
          PROVE  /\ G[e].state # "PromptStartVerification" /\ G[e].canonical # NoDevice
                 /\ G[e].sender \/ G[e].acceptSent
      <4>1. G[e] = F[e]
        BY <3>1
      <4>2. QED
        BY <3>1, <4>1 DEF Asked, Begun
    <3>2. QED
      BY <2>1, <3>1 DEF Begun
<1>9. Once(G, M)
  <2> SUFFICES ASSUME NEW e \in Devices PROVE OnceOf(G, M, e)
    BY DEF Once
  <2>1. \A x \in M : x.kind = "key" => x \in N
    BY DEF Sends
  <2>2. OnceOf(F, N, e) /\ F[e].deviceId \in Ends
    BY <1>1 DEF Asked, Once
  <2>3. QED
    BY <1>3, <2>1, <2>2 DEF OnceOf, Ends
<1>10. Confirmed(G)
  BY <1>1, <1>3 DEF Asked, Confirmed, ConfirmedOf, Same, Ends
<1>11. OneAsked => Roles(G)
  <2> SUFFICES ASSUME OneAsked, NEW e \in Devices PROVE RoleOf(G, e)
    BY DEF Roles
  <2> DEFINE r == F[d].deviceId
  <2>1. /\ r \in Devices /\ r # d /\ F[r].deviceId = d /\ F[r].startSent = TRUE
        /\ RoleOf(F, d) /\ RoleOf(F, r) /\ RoleOf(F, e) /\ G[r] = F[r]
    <3>1. r \in Devices /\ F[r].deviceId = d /\ F[r].startSent = TRUE
      BY <1>1, <1>4 DEF Ends
    <3>2. r # d
      BY <1>1, <3>1 DEF Asked, Star
    <3>3. QED
      BY <1>3, <3>1, <3>2 DEF Asked, Roles
  <2>2. G[d].startSent => Rank[r] < Rank[d]
    <3>1. F[d].startSent => F[d].sender = TRUE \/ F[d].acceptSent = TRUE
      BY <1>1 DEF Asked, Begun, FlowType
    <3>2. F[d].sender = TRUE => Rank[r] < Rank[d]
      BY <1>4 DEF GivesWay
    <3>3. QED
      BY <1>2, <2>1, <3>1, <3>2 DEF RoleOf
  <2>3. F[d].sas # NoSas /\ F[d].acceptSent = FALSE => acc = FALSE
    <3>1. SUFFICES ASSUME F[d].sas # NoSas, F[d].acceptSent = FALSE, acc = TRUE PROVE FALSE
      OBVIOUS
    <3>2. F[r].acceptSent /\ Rank[d] < Rank[r] /\ F[d].startSent
      BY <2>1, <3>1 DEF RoleOf
    <3>3. Rank[r] < Rank[d]
      BY <1>2, <2>2, <3>2
    <3>4. Rank[d] \in Nat /\ Rank[r] \in Nat
      BY <2>1, DevicesOK
    <3>5. QED
      BY <3>2, <3>3, <3>4
  <2>4. CASE e = d
    <3>1. F[d].acceptSent \in BOOLEAN
      BY <1>1 DEF FlowType
    <3>2. F[d].sas # NoSas => G[d].acceptSent = F[d].acceptSent
      BY <1>2, <2>3, <3>1
    <3>3. QED
      <4>1. /\ G[d].sender = FALSE /\ G[d].canonical # NoDevice /\ r # NoDevice
            /\ G[d].deviceId = r /\ G[r] = F[r]
            /\ F[d].acceptSent => G[d].acceptSent
            /\ G[d].keySent = F[d].keySent /\ G[d].sas = F[d].sas
        BY <1>1, <1>2, <2>1
      <4>2. QED
        <5>1. /\ G[d].sender = FALSE /\ G[d].canonical # NoDevice
              /\ G[d].startSent => Rank[G[d].deviceId] < Rank[d]
          BY <2>2, <4>1
        <5>2. G[d].deviceId # NoDevice /\ G[G[d].deviceId].startSent = TRUE
          BY <2>1, <4>1
        <5>3. G[d].keySent \/ G[d].sas # NoSas =>
                G[d].deviceId # NoDevice /\ (G[d].acceptSent \/ G[G[d].deviceId].acceptSent)
          BY <2>1, <4>1 DEF RoleOf
        <5>4. G[d].sas # NoSas => G[d].sas = SasFor(d, G[d].deviceId, G[d].acceptSent, G[d].sas[4])
          BY <2>1, <3>2, <4>1 DEF RoleOf
        <5>5. RoleOf(G, d)
          BY <5>1, <5>2, <5>3, <5>4 DEF RoleOf
        <5>6. QED
          BY <2>4, <5>5
  <2>5. CASE e # d
    <3>1. F[e].deviceId \in Ends
      BY <1>1
    <3>2. QED
      BY <1>3, <2>1, <2>5, <3>1 DEF RoleOf, Ends
  <2>6. QED
    BY <2>4, <2>5
<1>12. QED
  BY <1>1, <1>5, <1>6, <1>7, <1>8, <1>9, <1>10, <1>11 DEF Asked

Noted(x, commitment, method) ==
  [x EXCEPT !.commitment = commitment, !.method = method, !.keySent = TRUE]

\* An accept is taken: its receiver notes it and shows its key.
LEMMA AcceptTakenKeeps ==
  ASSUME NEW F, NEW N, NEW a, Asked(F, N, a),
         NEW m \in N, m.kind = "accept", NEW d \in Devices, m.to = d, F[d].state # NoFlow,
         NEW G \in [Devices -> FlowType], \A e \in Devices \ {d} : G[e] = F[e],
         G[d] = Noted(F[d], G[d].commitment, G[d].method),
         NEW M, Sends(N, M, d, F[d].deviceIds, "key"),
         F[d].keySent = TRUE => M \subseteq N
  PROVE  Asked(G, M, a) /\ Keeps(F, G)
<1> DEFINE p == m.from
<1>1. /\ a \in Devices /\ NoDevice \notin Devices /\ p \in Devices /\ p # d
      /\ F[d] \in FlowType /\ \A e \in Devices : F[e].deviceId \in Ends
      /\ F[p].acceptSent /\ F[p].state # NoFlow
      /\ d # a => p = a /\ F[a].deviceId \in {NoDevice, d}
  BY DevicesOK DEF Asked, Lines, FlowType
<1>2. /\ \A e \in Devices : e # d => G[e] = F[e]
      /\ G[d].keySent = TRUE
      /\ \A e \in Devices : /\ G[e].deviceIds = F[e].deviceIds /\ G[e].deviceId = F[e].deviceId
                            /\ G[e].sas = F[e].sas /\ G[e].startSent = F[e].startSent
                            /\ G[e].acceptSent = F[e].acceptSent /\ G[e].macSent = F[e].macSent
                            /\ G[e].macVerified = F[e].macVerified /\ G[e].state = F[e].state
                            /\ G[e].sender = F[e].sender /\ G[e].canonical = F[e].canonical
                            /\ F[e].keySent => G[e].keySent
  <2>1. \A e \in Devices : e # d => G[e] = F[e]
    OBVIOUS
  <2>2. /\ G[d].deviceIds = F[d].deviceIds /\ G[d].deviceId = F[d].deviceId
        /\ G[d].sas = F[d].sas /\ G[d].startSent = F[d].startSent
        /\ G[d].acceptSent = F[d].acceptSent /\ G[d].macSent = F[d].macSent
        /\ G[d].macVerified = F[d].macVerified /\ G[d].state = F[d].state
        /\ G[d].sender = F[d].sender /\ G[d].canonical = F[d].canonical
        /\ G[d].keySent = TRUE
    BY <1>1 DEF FlowType, Noted
  <2>3. QED
    BY <2>1, <2>2
<1>3. /\ Star(G, a) /\ Lines(G, M, a) /\ Keeps(F, G)
      /\ OneAsked => Alone(G, M, a)
  <2>1. GoesOn(F, G)
    <3>1. G[d].state # NoFlow
      BY <1>2
    <3>2. QED
      BY <1>2, <3>1 DEF GoesOn
  <2>2. G[a].sender = F[a].sender /\ G[a].canonical = F[a].canonical
    BY <1>1, <1>2
  <2>3. QED
    <3>1. /\ G[a].sender = FALSE => F[a].sender = FALSE \/ G[a].canonical # NoDevice
          /\ G[a].canonical = NoDevice => F[a].canonical = NoDevice
          /\ OneAsked /\ F[a].deviceId = NoDevice => G[a].sender = F[a].sender
          /\ M \subseteq N \/ G[d].keySent = TRUE
      BY <1>2, <2>2
    <3>2. QED
      BY <2>1, <3>1, GoesOnKeeps
<1>4. Unpicked(G, a)
  <2> SUFFICES ASSUME G[a].deviceId = NoDevice
               PROVE  Unpicked(G, a)
    BY DEF Unpicked
  <2>1. F[a].deviceId = NoDevice
    BY <1>1, <1>2
  <2>2. d # a /\ p = a /\ F[a].sender = FALSE
    BY <1>1, <2>1 DEF Asked, Unpicked, FlowType
  <2>3. QED
    BY <1>1, <1>2, <2>1, <2>2 DEF Asked, Unpicked
<1>5. Picked(G, a)
  <2> SUFFICES ASSUME NEW q \in Devices \ {a} PROVE PickedOf(G, a, q)
    BY DEF Picked
  <2>1. PickedOf(F, a, q)
    BY DEF Asked, Picked
  <2>2. q = d => F[a].deviceId \in {NoDevice, q}
    BY <1>1
  <2>3. q # d => G[q].keySent = F[q].keySent
    BY <1>2
  <2>4. QED
    BY <1>1, <1>2, <2>1, <2>2, <2>3 DEF PickedOf
<1>6. Begun(G)
  BY <1>2 DEF Asked, Begun
<1>7. Once(G, M)
  <2> SUFFICES ASSUME NEW e \in Devices PROVE OnceOf(G, M, e)
    BY DEF Once
  <2>1. OnceOf(F, N, e) /\ F[e].deviceId \in Ends
    BY <1>1 DEF Asked, Once
  <2>2. F[e].sas # NoSas /\ F[e].deviceId = d => M \subseteq N
    BY <1>1, <2>1 DEF OnceOf, FlowType
  <2>3. \A x \in M : x.from # d => x \in N
    BY DEF Sends
  <2>4. F[e].sas # NoSas => \A x \in M : x.from = F[e].deviceId => x \in N
    BY <2>2, <2>3
  <2>5. QED
    BY <1>2, <2>1, <2>4 DEF OnceOf, Ends
<1>8. Confirmed(G)
  BY <1>1, <1>2 DEF Asked, Confirmed, ConfirmedOf, Same, Ends
<1>9. OneAsked => Roles(G)
  <2> SUFFICES ASSUME OneAsked, NEW e \in Devices PROVE RoleOf(G, e)
    BY DEF Roles
  <2>1. RoleOf(F, e) /\ F[e].deviceId \in Ends
    BY <1>1 DEF Asked, Roles
  <2>2. F[d].deviceId = p
    <3>1. CASE d # a
      BY <1>1, <3>1 DEF Asked, Star
    <3>2. CASE d = a
      BY <1>1, <3>2 DEF Asked, Picked, PickedOf
    <3>3. QED
      BY <3>1, <3>2
  <2>3. CASE e = d
    <3>1. G[d].deviceId = p /\ p # NoDevice /\ G[p].acceptSent
      BY <1>1, <1>2, <2>2
    <3>2. RoleOf(F, d) /\ F[d].deviceId = p
      BY <2>1, <2>2, <2>3
    <3>3. RoleOf(G, d)
      BY <1>1, <1>2, <3>1, <3>2 DEF RoleOf
    <3>4. QED
      BY <2>3, <3>3
  <2>4. CASE e # d
    <3>1. G[e] = F[e]
      BY <1>2, <2>4
    <3>2. QED
      BY <1>2, <2>1, <3>1 DEF RoleOf, Ends
  <2>5. QED
    BY <2>3, <2>4
<1>10. QED
  BY <1>1, <1>3, <1>4, <1>5, <1>6, <1>7, <1>8, <1>9 DEF Asked

Shows(x, sas, sent, st) == [x EXCEPT !.sas = sas, !.keySent = sent, !.state = st]

KeyTaken(F, N, m, d, G, M) ==
  /\ m \in N /\ m.kind = "key" /\ m.to = d
  /\ F[d].state \notin {NoFlow, "WaitingForMac"}
  /\ \A e \in Devices \ {d} : G[e] = F[e]
  /\ G[d] = Shows(F[d], SasOf(d, F[d], m.from), G[d].keySent, G[d].state)
  /\ G[d].state \in Comparing
  /\ F[d].keySent = TRUE => G[d].keySent = TRUE /\ M \subseteq N
  /\ G[d].keySent = TRUE \/ M \subseteq N
  /\ Sends(N, M, d, F[d].deviceIds, "key")
  /\ \A x \in M : ~(x.kind = "key" /\ x.from = m.from /\ x.to = d)

\* A key is taken: its receiver shows a SAS, and its own key if it did not yet.
LEMMA KeyTakenKeeps ==
  ASSUME NEW F, NEW N, NEW a, Asked(F, N, a), NEW m, NEW d \in Devices,
         NEW G \in [Devices -> FlowType], NEW M, KeyTaken(F, N, m, d, G, M)
  PROVE  Asked(G, M, a) /\ Keeps(F, G)
<1> USE DEF KeyTaken
<1> DEFINE p == m.from
<1> DEFINE r == F[d].deviceId
<1> DEFINE sent == G[d].keySent
<1> DEFINE st == G[d].state
<1>1. /\ a \in Devices /\ NoDevice \notin Devices /\ p \in Devices /\ p # d
      /\ F[d] \in FlowType /\ r \in Ends /\ \A e \in Devices : F[e].deviceId \in Ends
      /\ F[p].keySent /\ F[p].state # NoFlow
      /\ d # a => p = a /\ F[a].deviceId \in {NoDevice, d}
  BY DevicesOK DEF Asked, Lines, FlowType
<1>2. SasOf(d, F[d], p) \in Sas /\ {SasOf(d, F[d], p)[1], SasOf(d, F[d], p)[2]} = {d, r}
      /\ SasOf(d, F[d], p) # NoSas
  <2>1. \/ SasOf(d, F[d], p) = <<d, r, {d, p}, F[d].method>>
        \/ SasOf(d, F[d], p) = <<r, d, {d, p}, F[d].method>>
    BY DEF SasOf
  <2>2. F[d].method \in Methods /\ d \in Ends
    BY <1>1 DEF FlowType, Ends
  <2>3. QED
    BY <1>1, <2>1, <2>2 DEF Sas, NoSas
<1>3. /\ \A e \in Devices : e # d => G[e] = F[e]
      /\ G[d].sas = SasOf(d, F[d], p) /\ G[d].state = st /\ G[d].keySent = sent
      /\ \A e \in Devices : /\ G[e].deviceIds = F[e].deviceIds /\ G[e].deviceId = F[e].deviceId
                            /\ G[e].startSent = F[e].startSent
                            /\ G[e].acceptSent = F[e].acceptSent /\ G[e].macSent = F[e].macSent
                            /\ G[e].macVerified = F[e].macVerified
                            /\ G[e].sender = F[e].sender /\ G[e].canonical = F[e].canonical
                            /\ F[e].keySent => G[e].keySent
                            /\ (G[e].state = NoFlow) <=> (F[e].state = NoFlow)
                            /\ G[e].state = NoFlow => G[e] = F[e]
                            /\ G[e].state = "WaitingForMac" => F[e].state = "WaitingForMac"
  <2>1. \A e \in Devices : e # d => G[e] = F[e]
    OBVIOUS
  <2>2. /\ G[d].deviceIds = F[d].deviceIds /\ G[d].deviceId = F[d].deviceId
        /\ G[d].sas = SasOf(d, F[d], p) /\ G[d].startSent = F[d].startSent
        /\ G[d].acceptSent = F[d].acceptSent /\ G[d].macSent = F[d].macSent
        /\ G[d].macVerified = F[d].macVerified /\ G[d].state = st
        /\ G[d].sender = F[d].sender /\ G[d].canonical = F[d].canonical
        /\ G[d].keySent = sent
    <3>1. PICK y, k, st0, sas : y = F[d] /\ k = sent /\ st0 = st /\ sas = SasOf(d, F[d], p)
      OBVIOUS
    <3>2. y \in FlowType /\ G[d] = [y EXCEPT !.sas = sas, !.keySent = k, !.state = st0]
      BY <1>1, <3>1 DEF Shows
    <3>3. QED
      BY <3>1, <3>2 DEF FlowType
  <2>3. st # NoFlow /\ st # "WaitingForMac"
    BY DEF Comparing, NoFlow
  <2>4. F[d].keySent => sent = TRUE
    BY <1>1 DEF FlowType
  <2>5. QED
    BY <2>1, <2>2, <2>3, <2>4
<1>4. /\ Star(G, a) /\ Lines(G, M, a) /\ Keeps(F, G)
      /\ OneAsked => Alone(G, M, a)
  <2>1. GoesOn(F, G)
    BY <1>3 DEF GoesOn
  <2>2. /\ G[a].sender = FALSE => F[a].sender = FALSE \/ G[a].canonical # NoDevice
        /\ G[a].canonical = NoDevice => F[a].canonical = NoDevice
        /\ OneAsked /\ F[a].deviceId = NoDevice => G[a].sender = F[a].sender
        /\ M \subseteq N \/ G[d].keySent = TRUE
    BY <1>1, <1>3
  <2>3. QED
    BY <2>1, <2>2, GoesOnKeeps
<1>5. Unpicked(G, a)
  <2> SUFFICES ASSUME G[a].deviceId = NoDevice
               PROVE  Unpicked(G, a)
    BY DEF Unpicked
  <2>1. F[a].deviceId = NoDevice
    BY <1>1, <1>3
  <2>2. F[a].sender = FALSE
    <3>1. CASE d # a
      BY <1>1, <2>1, <3>1 DEF Asked, Unpicked, FlowType
    <3>2. CASE d = a
      BY <1>1, <2>1, <3>2 DEF Asked, Unpicked, FlowType
    <3>3. QED
      BY <3>1, <3>2
  <2>3. QED
    BY <1>1, <1>3, <2>1, <2>2 DEF Asked, Unpicked
<1>6. Picked(G, a)
  <2> SUFFICES ASSUME NEW q \in Devices \ {a} PROVE PickedOf(G, a, q)
    BY DEF Picked
  <2>1. PickedOf(F, a, q)
    BY DEF Asked, Picked
  <2>2. q = d => F[a].deviceId \in {NoDevice, q}
    BY <1>1
  <2>3. q # d => G[q].keySent = F[q].keySent /\ G[q].sas = F[q].sas
    BY <1>3
  <2>4. QED
    BY <1>1, <1>3, <2>1, <2>2, <2>3 DEF PickedOf
<1>7. Begun(G)
  <2>1. G[d].state # "PromptStartVerification"
    BY <1>3 DEF Comparing
  <2>2. \A e \in Devices : G[e].state = "PromptStartVerification"
                           => F[e].state = "PromptStartVerification"
    BY <1>3, <2>1
  <2>3. QED
    BY <1>3, <2>2 DEF Asked, Begun
<1>8. r # NoDevice => r = p
  <2>1. CASE d # a
    BY <1>1, <2>1 DEF Asked, Star
  <2>2. CASE d = a
    BY <1>1, <2>2 DEF Asked, Picked, PickedOf
  <2>3. QED
    BY <2>1, <2>2
<1>9. F[d].sas # NoSas => r = NoDevice
  BY <1>8 DEF Asked, Once, OnceOf
<1>10. Once(G, M)
  <2> SUFFICES ASSUME NEW e \in Devices PROVE OnceOf(G, M, e)
    BY DEF Once
  <2>1. CASE e = d
    <3>1. r # NoDevice => G[r].keySent
      BY <1>1, <1>3, <1>8
    <3>2. G[d].deviceId = r
      BY <1>3
    <3>3. r # NoDevice => \A x \in M : ~(x.kind = "key" /\ x.from = r /\ x.to = d)
      BY <1>8
    <3>4. OnceOf(G, M, d)
      BY <1>2, <1>3, <3>1, <3>2, <3>3 DEF OnceOf
    <3>5. QED
      BY <2>1, <3>4
  <2>2. CASE e # d
    <3>1. OnceOf(F, N, e) /\ F[e].deviceId \in Ends /\ G[e] = F[e]
      BY <1>1, <1>3, <2>2 DEF Asked, Once
    <3>2. F[e].sas # NoSas /\ F[e].deviceId = d => M \subseteq N
      BY <1>1, <3>1 DEF OnceOf, FlowType
    <3>3. \A x \in M : x.from # d => x \in N
      BY DEF Sends
    <3>4. F[e].sas # NoSas => \A x \in M : x.from = F[e].deviceId => x \in N
      BY <3>2, <3>3
    <3>5. QED
      BY <1>3, <3>1, <3>4 DEF OnceOf, Ends
  <2>3. QED
    BY <2>1, <2>2
<1>11. Confirmed(G)
  <2>1. ~F[d].macSent
    BY <1>9 DEF Asked, Confirmed, ConfirmedOf, Same
  <2>2. ASSUME NEW e \in Devices, F[e].macSent
        PROVE  F[e].deviceId # d /\ e # d
    <3>1. e # d
      BY <2>1, <2>2
    <3>2. SUFFICES ASSUME F[e].deviceId = d PROVE FALSE
      BY <3>1
    <3>3. F[e].sas # NoSas /\ F[e].sas = F[d].sas
      BY <2>2, <3>2 DEF Asked, Confirmed, ConfirmedOf, Same
    <3>4. {F[e].sas[1], F[e].sas[2]} = {e, d}
      BY <3>2, <3>3 DEF Asked, Once, OnceOf
    <3>5. {F[d].sas[1], F[d].sas[2]} = {d, NoDevice}
      BY <1>9, <3>3 DEF Asked, Once, OnceOf
    <3>6. {e, d} = {d, NoDevice}
      BY <3>3, <3>4, <3>5
    <3>7. QED
      BY <1>1, <3>1, <3>6
  <2>3. ASSUME NEW e \in Devices
        PROVE  ConfirmedOf(G, e)
    <3>1. ConfirmedOf(F, e) /\ F[e].deviceId \in Ends
      BY <1>1 DEF Asked, Confirmed
    <3>2. G[e].macSent => G[e].deviceId # NoDevice /\ Same(G, e, G[e].deviceId)
      <4>1. SUFFICES ASSUME G[e].macSent
                     PROVE  G[e].deviceId # NoDevice /\ Same(G, e, G[e].deviceId)
        OBVIOUS
      <4>2. F[e].macSent /\ e # d /\ F[e].deviceId # d
        BY <1>3, <2>2, <4>1
      <4>3. /\ F[e].deviceId # NoDevice /\ F[e].deviceId \in Devices
            /\ G[e] = F[e] /\ G[F[e].deviceId] = F[F[e].deviceId]
        BY <1>3, <3>1, <4>2 DEF ConfirmedOf, Ends
      <4>4. QED
        BY <3>1, <4>2, <4>3 DEF ConfirmedOf, Same
    <3>3. /\ G[e].state = "WaitingForMac" => G[e].macSent
          /\ G[e].macVerified => G[e].deviceId # NoDevice /\ G[G[e].deviceId].macSent
      BY <1>3, <3>1 DEF ConfirmedOf, Ends
    <3>4. QED
      BY <3>2, <3>3 DEF ConfirmedOf
  <2>4. QED
    BY <2>3 DEF Confirmed
<1>12. OneAsked => Roles(G)
  <2> SUFFICES ASSUME OneAsked PROVE Roles(G)
    OBVIOUS
  <2>1. r = p /\ F[p].deviceId = d /\ (F[d].acceptSent \/ F[p].acceptSent)
    <3>1. RoleOf(F, p)
      BY <1>1 DEF Asked, Roles
    <3>2. F[p].deviceId # NoDevice /\ (F[p].acceptSent \/ F[F[p].deviceId].acceptSent)
      BY <1>1, <3>1 DEF RoleOf
    <3>3. CASE d # a
      BY <1>1, <3>2, <3>3 DEF Asked, Star
    <3>4. CASE d = a
      <4>1. F[p].deviceId = a
        BY <1>1, <3>4 DEF Asked, Star
      <4>2. F[a].deviceId # NoDevice
        <5>1. SUFFICES ASSUME F[a].deviceId = NoDevice PROVE FALSE
          OBVIOUS
        <5>2. ~F[p].acceptSent
          BY <1>1, <3>4, <5>1 DEF Asked, Unpicked
        <5>3. F[a].acceptSent /\ F[a].state # NoFlow
          BY <3>2, <3>4, <4>1, <5>2
        <5>4. ~F[a].sender /\ Alone(F, N, a)
          BY <1>1, <5>3 DEF Asked, Roles, RoleOf
        <5>5. QED
          BY <5>1, <5>3, <5>4 DEF Alone
      <4>3. QED
        BY <1>8, <3>2, <3>4, <4>1, <4>2
    <3>5. QED
      BY <3>3, <3>4
  <2>2. (F[d].sender = TRUE) <=> (F[d].acceptSent = FALSE)
    <3>1. F[d].sender \in BOOLEAN /\ F[d].acceptSent \in BOOLEAN /\ RoleOf(F, d) /\ RoleOf(F, p)
      BY <1>1 DEF Asked, Roles, FlowType
    <3>2. F[d].acceptSent => ~F[d].sender
      BY <3>1 DEF RoleOf
    <3>3. ~F[d].acceptSent => F[d].startSent
      BY <2>1, <3>1 DEF RoleOf
    <3>4. F[d].startSent => F[d].sender \/ F[d].acceptSent
      BY DEF Asked, Begun
    <3>5. QED
      BY <3>1, <3>2, <3>3, <3>4
  <2>3. G[d].sas = SasFor(d, r, F[d].acceptSent, F[d].method)
    <3>1. F[d].acceptSent \in BOOLEAN /\ F[d].sender \in BOOLEAN
      BY <1>1 DEF FlowType
    <3>2. CASE F[d].sender = TRUE
      BY <1>3, <2>1, <2>2, <3>2 DEF SasOf, SasFor
    <3>3. CASE F[d].sender = FALSE
      BY <1>3, <2>1, <2>2, <3>1, <3>3 DEF SasOf, SasFor
    <3>4. QED
      BY <3>1, <3>2, <3>3
  <2>4. RoleOf(G, d)
    <3>1. RoleOf(F, d) /\ G[d].deviceId = p /\ p # NoDevice
      BY <1>1, <1>3, <2>1 DEF Asked, Roles
    <3>2. G[d].acceptSent \/ G[p].acceptSent
      BY <1>1, <1>3, <2>1
    <3>3. G[d].sas[4] = F[d].method
      BY <2>3 DEF SasFor
    <3>4. G[d].sas = SasFor(d, G[d].deviceId, G[d].acceptSent, G[d].sas[4])
      BY <1>3, <2>1, <2>3, <3>1, <3>3
    <3>5. QED
      BY <1>1, <1>3, <2>1, <3>1, <3>2, <3>4 DEF RoleOf
  <2>5. ASSUME NEW e \in Devices, e # d
        PROVE  RoleOf(G, e)
    <3>1. RoleOf(F, e) /\ F[e].deviceId \in Ends /\ G[e] = F[e]
      BY <1>1, <1>3, <2>5 DEF Asked, Roles
    <3>2. QED
      BY <1>3, <3>1 DEF RoleOf, Ends
  <2>6. QED
    BY <2>4, <2>5 DEF Roles
<1>13. QED
  BY <1>1, <1>4, <1>5, <1>6, <1>7, <1>10, <1>11, <1>12 DEF Asked

\* A device confirms what it shows.
LEMMA MacOutKeeps ==
  ASSUME NEW F, NEW N, NEW a, Asked(F, N, a),
         NEW d \in Devices, F[d].state # NoFlow, NEW p \in F[d].deviceIds, Same(F, d, p),
         NEW G \in [Devices -> FlowType], \A e \in Devices \ {d} : G[e] = F[e],
         G[d] = [F[d] EXCEPT !.macSent = TRUE, !.state = "WaitingForMac"],
         NEW M, Sends(N, M, d, F[d].deviceIds, "mac")
  PROVE  Asked(G, M, a) /\ Keeps(F, G)
<1>1. /\ a \in Devices /\ NoDevice \notin Devices /\ p \in Devices /\ p # d
      /\ F[d] \in FlowType /\ \A e \in Devices : F[e].deviceId \in Ends
  BY DevicesOK DEF Asked, Star, FlowType
<1>2. /\ \A e \in Devices : e # d => G[e] = F[e]
      /\ G[d].macSent = TRUE
      /\ \A e \in Devices : /\ G[e].deviceIds = F[e].deviceIds /\ G[e].deviceId = F[e].deviceId
                            /\ G[e].sas = F[e].sas /\ G[e].startSent = F[e].startSent
                            /\ G[e].acceptSent = F[e].acceptSent /\ G[e].keySent = F[e].keySent
                            /\ G[e].macVerified = F[e].macVerified
                            /\ G[e].sender = F[e].sender /\ G[e].canonical = F[e].canonical
                            /\ F[e].macSent => G[e].macSent
                            /\ (G[e].state = NoFlow) <=> (F[e].state = NoFlow)
                            /\ G[e].state = NoFlow => G[e] = F[e]
                            /\ G[e].state = "PromptStartVerification"
                                 => F[e].state = "PromptStartVerification"
  <2>1. \A e \in Devices : e # d => G[e] = F[e]
    OBVIOUS
  <2>2. /\ G[d].deviceIds = F[d].deviceIds /\ G[d].deviceId = F[d].deviceId
        /\ G[d].sas = F[d].sas /\ G[d].startSent = F[d].startSent
        /\ G[d].acceptSent = F[d].acceptSent /\ G[d].keySent = F[d].keySent
        /\ G[d].macVerified = F[d].macVerified /\ G[d].state = "WaitingForMac"
        /\ G[d].sender = F[d].sender /\ G[d].canonical = F[d].canonical
        /\ G[d].macSent = TRUE
    BY <1>1 DEF FlowType
  <2>3. G[d].state # NoFlow /\ G[d].state # "PromptStartVerification"
    BY <2>2 DEF NoFlow
  <2>4. QED
    BY <2>1, <2>2, <2>3
<1>3. /\ Star(G, a) /\ Lines(G, M, a) /\ Keeps(F, G)
      /\ OneAsked => Alone(G, M, a)
  <2>1. GoesOn(F, G)
    BY <1>2 DEF GoesOn
  <2>2. /\ G[a].sender = FALSE => F[a].sender = FALSE \/ G[a].canonical # NoDevice
        /\ G[a].canonical = NoDevice => F[a].canonical = NoDevice
        /\ OneAsked /\ F[a].deviceId = NoDevice => G[a].sender = F[a].sender
        /\ M \subseteq N \/ G[d].macSent = TRUE
    BY <1>1, <1>2
  <2>3. QED
    BY <2>1, <2>2, GoesOnKeeps
<1>4. Unpicked(G, a)
  BY <1>1, <1>2 DEF Asked, Unpicked
<1>5. Picked(G, a)
  BY <1>1, <1>2 DEF Asked, Picked, PickedOf
<1>6. Begun(G)
  BY <1>2 DEF Asked, Begun
<1>7. Once(G, M)
  <2>1. \A x \in M : x.kind = "key" => x \in N
    BY DEF Sends
  <2>2. QED
    BY <1>1, <1>2, <2>1 DEF Asked, Once, OnceOf, Ends
<1>8. F[d].deviceId = p
  <2>1. CASE d # a
    <3>1. F[d].deviceIds = {a} /\ F[d].deviceId = a
      BY <2>1 DEF Asked, Star
    <3>2. QED
      BY <3>1
  <2>2. CASE d = a
    <3>1. F[a].deviceId # NoDevice => F[a].deviceIds = {F[a].deviceId}
      BY DEF Asked, Star
    <3>2. F[a].deviceId # NoDevice
      <4>1. SUFFICES ASSUME F[a].deviceId = NoDevice PROVE FALSE
        OBVIOUS
      <4>2. {F[a].sas[1], F[a].sas[2]} = {a, NoDevice}
        BY <1>1, <2>2, <4>1 DEF Asked, Once, OnceOf, Same
      <4>3. {F[p].sas[1], F[p].sas[2]} = {p, F[p].deviceId} /\ F[p].sas = F[a].sas
        BY <1>1, <2>2 DEF Asked, Once, OnceOf, Same
      <4>4. p \in {a, NoDevice}
        BY <4>2, <4>3
      <4>5. QED
        BY <1>1, <2>2, <4>4
    <3>3. QED
      BY <2>2, <3>1, <3>2
  <2>3. QED
    BY <2>1, <2>2
<1>9. Confirmed(G)
  <2> SUFFICES ASSUME NEW e \in Devices PROVE ConfirmedOf(G, e)
    BY DEF Confirmed
  <2>1. ConfirmedOf(F, e) /\ F[e].deviceId \in Ends
    BY <1>1 DEF Asked, Confirmed
  <2>2. G[e].macVerified => G[e].deviceId # NoDevice /\ G[G[e].deviceId].macSent
    BY <1>2, <2>1 DEF ConfirmedOf, Ends
  <2>3. CASE e = d
    <3>1. G[d].deviceId = p /\ p # NoDevice /\ Same(G, d, p)
      BY <1>1, <1>2, <1>8 DEF Same
    <3>2. QED
      BY <1>2, <2>2, <2>3, <3>1 DEF ConfirmedOf
  <2>4. CASE e # d
    <3>1. G[e] = F[e]
      BY <1>2, <2>4
    <3>2. QED
      BY <1>2, <2>1, <2>2, <3>1 DEF ConfirmedOf, Same, Ends
  <2>5. QED
    BY <2>3, <2>4
<1>10. OneAsked => Roles(G)
  BY <1>1, <1>2 DEF Asked, Roles, RoleOf, Ends
<1>11. QED
  BY <1>1, <1>3, <1>4, <1>5, <1>6, <1>7, <1>9, <1>10 DEF Asked

\* A MAC is taken: it is right.
LEMMA MacInKeeps ==
  ASSUME NEW F, NEW N, NEW a, Asked(F, N, a),
         NEW m \in N, m.kind = "mac", NEW d \in Devices, m.to = d, F[d].state # NoFlow,
         m.from = F[d].deviceId,
         NEW G \in [Devices -> FlowType], \A e \in Devices \ {d} : G[e] = F[e],
         G[d] = [F[d] EXCEPT !.macVerified = TRUE],
         NEW M, M \subseteq N
  PROVE  Asked(G, M, a) /\ Keeps(F, G)
<1>1. /\ a \in Devices /\ NoDevice \notin Devices /\ F[d].deviceId \in Devices
      /\ F[F[d].deviceId].macSent
      /\ F[d] \in FlowType /\ \A e \in Devices : F[e].deviceId \in Ends
  BY DevicesOK DEF Asked, Lines, FlowType
<1>2. /\ \A e \in Devices : e # d => G[e] = F[e]
      /\ \A e \in Devices : /\ G[e].deviceIds = F[e].deviceIds /\ G[e].deviceId = F[e].deviceId
                            /\ G[e].sas = F[e].sas /\ G[e].startSent = F[e].startSent
                            /\ G[e].acceptSent = F[e].acceptSent /\ G[e].keySent = F[e].keySent
                            /\ G[e].macSent = F[e].macSent /\ G[e].state = F[e].state
                            /\ G[e].sender = F[e].sender /\ G[e].canonical = F[e].canonical
                            /\ F[e].macVerified => G[e].macVerified
  <2>1. \A e \in Devices : e # d => G[e] = F[e]
    OBVIOUS
  <2>2. /\ G[d].deviceIds = F[d].deviceIds /\ G[d].deviceId = F[d].deviceId
        /\ G[d].sas = F[d].sas /\ G[d].startSent = F[d].startSent
        /\ G[d].acceptSent = F[d].acceptSent /\ G[d].keySent = F[d].keySent
        /\ G[d].macSent = F[d].macSent /\ G[d].state = F[d].state
        /\ G[d].sender = F[d].sender /\ G[d].canonical = F[d].canonical
        /\ G[d].macVerified = TRUE
    BY <1>1 DEF FlowType
  <2>3. QED
    BY <2>1, <2>2
<1>3. /\ Star(G, a) /\ Lines(G, M, a) /\ Keeps(F, G)
      /\ OneAsked => Alone(G, M, a)
  <2>1. GoesOn(F, G)
    <3>1. G[d].state # NoFlow
      BY <1>2
    <3>2. QED
      BY <1>2, <3>1 DEF GoesOn
  <2>2. /\ G[a].sender = FALSE => F[a].sender = FALSE \/ G[a].canonical # NoDevice
        /\ G[a].canonical = NoDevice => F[a].canonical = NoDevice
        /\ OneAsked /\ F[a].deviceId = NoDevice => G[a].sender = F[a].sender
    BY <1>1, <1>2
  <2>3. Sends(N, M, d, F[d].deviceIds, "mac")
    BY DEF Sends
  <2>4. QED
    BY <2>1, <2>2, <2>3, GoesOnKeeps
<1>4. Unpicked(G, a)
  BY <1>1, <1>2 DEF Asked, Unpicked
<1>5. Picked(G, a)
  BY <1>1, <1>2 DEF Asked, Picked, PickedOf
<1>6. Begun(G)
  BY <1>2 DEF Asked, Begun
<1>7. Once(G, M)
  BY <1>1, <1>2 DEF Asked, Once, OnceOf, Ends
<1>8. Confirmed(G)
  <2> SUFFICES ASSUME NEW e \in Devices PROVE ConfirmedOf(G, e)
    BY DEF Confirmed
  <2>1. ConfirmedOf(F, e) /\ F[e].deviceId \in Ends
    BY <1>1 DEF Asked, Confirmed
  <2>2. G[e].macVerified => G[e].deviceId # NoDevice /\ G[G[e].deviceId].macSent
    BY <1>1, <1>2, <2>1 DEF ConfirmedOf, Ends
  <2>3. QED
    BY <1>2, <2>1, <2>2 DEF ConfirmedOf, Same, Ends
<1>9. OneAsked => Roles(G)
  BY <1>1, <1>2 DEF Asked, Roles, RoleOf, Ends
<1>10. QED
  BY <1>1, <1>3, <1>4, <1>5, <1>6, <1>7, <1>8, <1>9 DEF Asked

\* A user asks, and nothing was said of the flow before.
LEMMA AskedKeeps ==
  ASSUME NEW F, NEW N, NEW b, Asked(F, N, b), \A e \in Devices : F[e].state = NoFlow,
         NEW d \in Devices, NEW to \in SUBSET (Devices \ {d}), to # {},
         OnlyOnes => Cardinality(to) = 1,
         NEW G \in [Devices -> FlowType], \A e \in Devices \ {d} : G[e] = F[e],
         G[d] = NewFlow(TRUE, to),
         NEW M, M \subseteq N
  PROVE  Asked(G, M, d) /\ Keeps(F, G)
<1>1. M = {} /\ \A e \in Devices : F[e] = Absent
  BY DEF Asked, Lines, Star
<1>2. \A e \in Devices : e # d => G[e] = Absent
  BY <1>1
<1>3. /\ NoDevice \notin Devices /\ NoFlow # "PromptStartVerification"
      /\ NoFlow # "WaitingForMac"
  BY DevicesOK DEF NoFlow
<1>4. /\ G[d].state = "PromptStartVerification" /\ G[d].deviceIds = to /\ G[d].sender = TRUE
      /\ G[d].canonical = NoDevice /\ G[d].sas = NoSas /\ G[d].macVerified = FALSE
      /\ G[d].keySent = FALSE /\ G[d].macSent = FALSE /\ G[d].acceptSent = FALSE
      /\ G[d].startSent = FALSE
  <2>1. /\ NewFlow(TRUE, to).state = "PromptStartVerification"
        /\ NewFlow(TRUE, to).deviceIds = to /\ NewFlow(TRUE, to).sender = TRUE
        /\ NewFlow(TRUE, to).canonical = NoDevice /\ NewFlow(TRUE, to).sas = NoSas
        /\ NewFlow(TRUE, to).macVerified = FALSE /\ NewFlow(TRUE, to).keySent = FALSE
        /\ NewFlow(TRUE, to).macSent = FALSE /\ NewFlow(TRUE, to).acceptSent = FALSE
        /\ NewFlow(TRUE, to).startSent = FALSE
    BY NewFlowFields, Zenon
  <2>2. QED
    BY <2>1
<1>5. /\ G[d].deviceId # NoDevice => to = {G[d].deviceId}
      /\ OnlyOnes => G[d].deviceId # NoDevice
  <2>1. to \in SUBSET Devices
    OBVIOUS
  <2>2. QED
    BY <2>1, NewFlowIs
<1>6. \A e \in Devices :
        /\ G[e].canonical = NoDevice /\ G[e].sas = NoSas /\ G[e].macVerified = FALSE
        /\ G[e].keySent = FALSE /\ G[e].macSent = FALSE /\ G[e].acceptSent = FALSE
        /\ G[e].startSent = FALSE /\ G[e].state # "WaitingForMac"
        /\ e # d => G[e].state = NoFlow /\ G[e].sender = FALSE
  BY <1>2, <1>3, <1>4, AbsentFields
<1>7. Star(G, d)
  BY <1>1, <1>2, <1>3, <1>4, <1>5, <1>6 DEF Star
<1>8. Lines(G, M, d) /\ Unpicked(G, d)
  BY <1>1, <1>6 DEF Lines, Unpicked
<1>9. Picked(G, d)
  BY <1>3, <1>6 DEF Picked, PickedOf
<1>10. Begun(G) /\ Once(G, M) /\ Confirmed(G) /\ Roles(G)
  BY <1>6 DEF Begun, Once, OnceOf, Confirmed, ConfirmedOf, Roles, RoleOf
<1>11. Alone(G, M, d)
  BY <1>1, <1>4, <1>5, <1>6 DEF Alone
<1>12. Keeps(F, G)
  BY <1>1, AbsentFields DEF Keeps
<1>13. QED
  BY <1>7, <1>8, <1>9, <1>10, <1>11, <1>12 DEF Asked

LEMMA KeepsOn ==
  ASSUME NEW F, NEW G, NEW H, Keeps(F, G), Keeps(G, H)
  PROVE  Keeps(F, H)
BY DEF Keeps

------------------------------------------------------------------------------
(* The steps of the system.                                                   *)

AcceptType == [commitment : Devices \X Ends, method : Methods]

MessageOK(m) ==
  /\ m = [flow |-> m.flow, from |-> m.from, to |-> m.to, kind |-> m.kind, content |-> m.content]
  /\ m.flow \in Flows
  /\ m.kind = "start" => m.content \in Offers
  /\ m.kind = "accept" => m.content \in AcceptType
  /\ m.kind = "key" => m.content = NoSas

Typed ==
  /\ flow \in [Flows -> [Devices -> FlowType]]
  /\ \A m \in net : MessageOK(m)
  /\ verified \in [Devices -> SUBSET Devices] /\ signed \in [Devices -> SUBSET Devices]
  /\ env \in Scenarios

Of(f, messages) == {m \in messages : m.flow = f}

FlowsAsked == \A f \in Flows : \E a \in Devices : Asked(flow[f], Of(f, net), a)

\* Who is marked confirmed, and so did who marks; who is signed confirmed to who signs.
Marked ==
  \A d \in Devices : \A p \in verified[d] :
    \E f \in Flows : flow[f][d].macSent /\ flow[f][p].macSent /\ flow[f][d].deviceId = p

Signed ==
  \A d \in Devices : \A p \in signed[d] :
    \E f \in Flows : flow[f][p].macSent /\ flow[f][p].deviceId = d

Trusted == Marked /\ Signed

IInv == Typed /\ FlowsAsked /\ Trusted

\* A step takes flow f from what is right to what is right, and leaves the others.
Elsewhere(f) ==
  /\ flow' \in [Flows -> [Devices -> FlowType]]
  /\ \A g \in Flows : g # f => flow'[g] = flow[g]
  /\ \A m \in net' : MessageOK(m) /\ (m.flow # f => m \in net)

Goes(f) ==
  /\ Elsewhere(f)
  /\ \E a \in Devices : Asked(flow'[f], Of(f, net'), a)
  /\ Keeps(flow[f], flow'[f])

\* What Step does to a flow, in the words of the lemmas above.
Turns(F, N, d, fl, taken, out, G, M) ==
  /\ G \in [Devices -> FlowType] /\ G[d] = fl
  /\ \A e \in Devices \ {d} : G[e] = F[e]
  /\ M = (N \ taken) \cup out

LEMMA StepTurns ==
  ASSUME Typed, NEW f \in Flows, NEW d \in Devices, NEW fl \in FlowType, NEW taken, NEW out,
         \A m \in out : m.flow = f /\ MessageOK(m),
         Step(f, d, fl, taken, out)
  PROVE  /\ Turns(flow[f], Of(f, net), d, fl, taken, out, flow'[f], Of(f, net'))
         /\ Elsewhere(f)
<1>1. flow' = [flow EXCEPT ![f][d] = fl] /\ net' = (net \ taken) \cup out
  BY DEF Step
<1>2. /\ flow' \in [Flows -> [Devices -> FlowType]]
      /\ \A g \in Flows : g # f => flow'[g] = flow[g]
      /\ flow'[f] \in [Devices -> FlowType] /\ flow'[f][d] = fl
      /\ \A e \in Devices \ {d} : flow'[f][e] = flow[f][e]
  BY <1>1 DEF Typed
<1>3. \A m \in net' : MessageOK(m) /\ (m.flow # f => m \in net)
  BY <1>1 DEF Typed
<1>4. Of(f, net') = (Of(f, net) \ taken) \cup out
  BY <1>1 DEF Of
<1>5. QED
  BY <1>2, <1>3, <1>4 DEF Elsewhere, Turns

LEMMA MailIs ==
  ASSUME NEW f \in Flows, NEW d, NEW fl, NEW kind, NEW content,
         kind = "start" => content \in Offers,
         kind = "accept" => content \in AcceptType,
         kind = "key" => content = NoSas
  PROVE  \A m \in Mail(f, d, fl, kind, content) :
           /\ m.flow = f /\ m.from = d /\ m.to \in fl.deviceIds /\ m.kind = kind
           /\ MessageOK(m)
BY DEF Mail, MessageOK

Quiet == {"request", "ready", "cancel", "done"}

\* F is flow f as device d finds it, or as a first part of its step left it.
Before(f, d, F, a) ==
  /\ Asked(F, Of(f, net), a) /\ Keeps(flow[f], F)
  /\ \A e \in Devices \ {d} : F[e] = flow[f][e]

LEMMA BeforeIs ==
  ASSUME FlowsAsked, NEW f \in Flows, NEW d \in Devices
  PROVE  \E F, a : F = flow[f] /\ Before(f, d, F, a)
<1>1. PICK a \in Devices : Asked(flow[f], Of(f, net), a)
  BY DEF FlowsAsked
<1>2. Before(f, d, flow[f], a)
  BY <1>1 DEF Before, Keeps
<1>3. QED
  BY <1>2

LEMMA AfterGoes ==
  ASSUME Typed, NEW f \in Flows, NEW d \in Devices, NEW F, NEW a, Before(f, d, F, a),
         Elsewhere(f), Asked(flow'[f], Of(f, net'), a), Keeps(F, flow'[f])
  PROVE  Goes(f)
<1>1. Keeps(flow[f], flow'[f])
  BY KeepsOn DEF Before
<1>2. a \in Devices
  BY DEF Asked
<1>3. QED
  BY <1>1, <1>2 DEF Goes

LEMMA QuietGoes ==
  ASSUME Typed, NEW f \in Flows, NEW d \in Devices, NEW F, NEW a, Before(f, d, F, a),
         NEW fl \in FlowType, Calmed(F[d], fl), NEW taken, NEW out,
         \A m \in out : /\ m.flow = f /\ MessageOK(m) /\ m.from = d /\ m.kind \in Quiet
                        /\ m.to \in F[d].deviceIds /\ F[d].state # NoFlow,
         Step(f, d, fl, taken, out)
  PROVE  Goes(f)
<1>1. PICK F0, N : F0 = flow[f] /\ N = Of(f, net)
  OBVIOUS
<1>2. PICK G, M : G = flow'[f] /\ M = Of(f, net')
  OBVIOUS
<1>3. Turns(F0, N, d, fl, taken, out, G, M) /\ Elsewhere(f)
  BY <1>1, <1>2, StepTurns
<1>4. \A e \in Devices : Calmed(F[e], G[e])
  <2>1. \A e \in Devices : e # d => G[e] = F[e]
    BY <1>1, <1>3 DEF Turns, Before
  <2>2. Calmed(F[d], G[d])
    BY <1>3 DEF Turns
  <2>3. QED
    BY <2>1, <2>2 DEF Calmed
<1>5. \A m \in M : m \in N \/ ( /\ m.from \in Devices /\ F[m.from].state # NoFlow
                               /\ m.to \in F[m.from].deviceIds
                               /\ m.kind \in {"request", "ready", "cancel", "done"} )
  BY <1>3 DEF Quiet, Turns
<1>6. Asked(F, N, a) /\ G \in [Devices -> FlowType]
  BY <1>1, <1>3 DEF Before, Turns
<1>7. Asked(G, M, a) /\ Keeps(F, G)
  BY <1>4, <1>5, <1>6, QuietKeeps
<1>8. QED
  BY <1>2, <1>3, <1>7, AfterGoes

Marks(f) ==
  \/ UNCHANGED verified
  \/ \E d, p \in Devices :
       /\ verified' = [verified EXCEPT ![d] = @ \cup {p}]
       /\ flow'[f][d].macSent /\ flow'[f][p].macSent /\ flow'[f][d].deviceId = p

Signs(f) ==
  \/ UNCHANGED signed
  \/ \E d, p \in Devices :
       /\ signed' = [signed EXCEPT ![d] = @ \cup {p}]
       /\ flow'[f][p].macSent /\ flow'[f][p].deviceId = d

Trusts(f) == Marks(f) /\ Signs(f)

LEMMA SameTrusts ==
  ASSUME NEW f, UNCHANGED trust
  PROVE  Trusts(f)
BY DEF Trusts, Marks, Signs, trust

\* Once both MACs are right the other device is trusted.
LEMMA AcceptDeviceGoes ==
  ASSUME Typed, NEW f \in Flows, NEW d \in Devices, NEW fl \in FlowType, NEW taken, NEW out,
         \A m \in out : m.flow = f /\ MessageOK(m),
         AcceptDevice(f, d, fl, taken, out),
         fl.state # NoFlow,
         fl.macVerified = TRUE \/ (fl.state = "WaitingForMac" /\ fl.macSent = TRUE),
         NEW a \in Devices, NEW G0, NEW M0, Asked(G0, M0, a), Keeps(flow[f], G0),
         Turns(flow[f], Of(f, net), d, fl, taken, out, G0, M0)
  PROVE  Goes(f) /\ Marks(f)
<1> DEFINE done == Mail(f, d, fl, "done", NoSas)
<1>1. PICK F, N : F = flow[f] /\ N = Of(f, net)
  OBVIOUS
<1>2. PICK G, M : G = flow'[f] /\ M = Of(f, net')
  OBVIOUS
<1>3. \A m \in done : /\ m.flow = f /\ m.from = d /\ m.to \in fl.deviceIds /\ m.kind = "done"
                      /\ MessageOK(m)
  BY MailIs
<1>4. ASSUME NEW y \in FlowType, Calmed(fl, y), NEW more \in SUBSET done,
             Step(f, d, y, taken, out \cup more)
      PROVE  Elsewhere(f) /\ Asked(G, M, a) /\ Keeps(G0, G)
  <2>1. Turns(F, N, d, y, taken, out \cup more, G, M) /\ Elsewhere(f)
    <3>1. \A m \in out \cup more : m.flow = f /\ MessageOK(m)
      BY <1>3
    <3>2. QED
      BY <1>1, <1>2, <1>4, <3>1, StepTurns
  <2>2. \A e \in Devices : Calmed(G0[e], G[e])
    <3>1. \A e \in Devices : e # d => G[e] = G0[e]
      BY <1>1, <2>1 DEF Turns
    <3>2. Calmed(G0[d], G[d])
      BY <1>4, <2>1 DEF Turns
    <3>3. QED
      BY <3>1, <3>2 DEF Calmed
  <2>3. \A m \in M : m \in M0 \/ ( /\ m.from \in Devices /\ G0[m.from].state # NoFlow
                                  /\ m.to \in G0[m.from].deviceIds
                                  /\ m.kind \in {"request", "ready", "cancel", "done"} )
    BY <1>1, <1>3, <2>1 DEF Turns
  <2>4. G \in [Devices -> FlowType]
    BY <2>1 DEF Turns
  <2>5. QED
    BY <2>1, <2>2, <2>3, <2>4, QuietKeeps
<1>5. /\ Elsewhere(f) /\ Asked(G, M, a) /\ Keeps(G0, G)
      /\ \/ UNCHANGED verified
         \/ /\ verified' = [verified EXCEPT ![d] = @ \cup {fl.deviceId}]
            /\ fl.macVerified /\ fl.state = "WaitingForMac"
  <2>1. CASE /\ ~fl.macVerified
             /\ Step(f, d, [fl EXCEPT !.state = "WaitingForMac"], taken, out)
             /\ UNCHANGED verified
    <3>1. PICK y : y = [fl EXCEPT !.state = "WaitingForMac"]
      OBVIOUS
    <3>2. y \in FlowType /\ y = fl
      BY <2>1, <3>1 DEF FlowType
    <3>3. Calmed(fl, y) /\ out \cup {} = out
      BY <3>2 DEF Calmed
    <3>4. QED
      BY <1>4, <2>1, <3>1, <3>2, <3>3
  <2>2. CASE /\ fl.macVerified /\ fl.state # "WaitingForMac"
             /\ Step(f, d, fl, taken, out)
             /\ UNCHANGED verified
    <3>1. Calmed(fl, fl) /\ out \cup {} = out
      BY DEF Calmed
    <3>2. QED
      BY <1>4, <2>2, <3>1
  <2>3. CASE /\ fl.macVerified /\ fl.state = "WaitingForMac"
             /\ Step(f, d, [fl EXCEPT !.state = "Success"], taken, out \cup done)
             /\ verified' = [verified EXCEPT ![d] = @ \cup {fl.deviceId}]
    <3>1. PICK y : y = [fl EXCEPT !.state = "Success"]
      OBVIOUS
    <3>2. y \in FlowType
      BY <3>1 DEF FlowType, States, Final
    <3>3. Calmed(fl, y)
      BY <3>1 DEF Calmed, FlowType, NoFlow
    <3>4. QED
      BY <1>4, <2>3, <3>1, <3>2, <3>3
  <2>4. QED
    BY <2>1, <2>2, <2>3 DEF AcceptDevice
<1>6. Goes(f)
  <2>1. Keeps(F, G)
    BY <1>1, <1>5, KeepsOn
  <2>2. QED
    BY <1>1, <1>2, <1>5, <2>1 DEF Goes
<1>7. Marks(f)
  <2>1. CASE UNCHANGED verified
    BY <2>1 DEF Marks
  <2>2. CASE /\ verified' = [verified EXCEPT ![d] = @ \cup {fl.deviceId}]
             /\ fl.macVerified /\ fl.state = "WaitingForMac"
    <3>1. G0[d] = fl
      BY DEF Turns
    <3>2. ConfirmedOf(G0, d) /\ fl.deviceId \in Ends
      BY <3>1 DEF Asked, Confirmed, FlowType
    <3>3. /\ fl.deviceId \in Devices /\ fl.deviceId # NoDevice
          /\ G0[d].macSent /\ G0[fl.deviceId].macSent
      BY <2>2, <3>1, <3>2 DEF ConfirmedOf, Ends
    <3>4. G[d].macSent /\ G[fl.deviceId].macSent /\ G[d].deviceId = fl.deviceId
      BY <1>5, <3>1, <3>3 DEF Keeps
    <3>5. QED
      BY <1>2, <2>2, <3>3, <3>4 DEF Marks
  <2>3. QED
    BY <1>5, <2>1, <2>2
<1>8. QED
  BY <1>6, <1>7

LEMMA InitiateGoes ==
  ASSUME Typed, FlowsAsked, NEW f \in Flows, NEW d \in Devices, Initiate(f, d)
  PROVE  Goes(f) /\ Trusts(f)
<1>1. PICK b \in Devices : Asked(flow[f], Of(f, net), b)
  BY DEF FlowsAsked
<1>2. PICK F, N : F = flow[f] /\ N = Of(f, net)
  OBVIOUS
<1>3. PICK G, M : G = flow'[f] /\ M = Of(f, net')
  OBVIOUS
<1>4. PICK to \in env.asks[d] : Step(f, d, NewFlow(TRUE, to), {}, {})
  BY DEF Initiate
<1>5. to \in SUBSET (Devices \ {d}) /\ to # {} /\ (OnlyOnes => Cardinality(to) = 1)
  BY DevicesOK DEF Typed, Initiate, OnlyOnes
<1>6. NewFlow(TRUE, to) \in FlowType
  <2>1. to \in SUBSET Devices
    BY <1>5
  <2>2. QED
    BY <2>1, NewFlowIs
<1>7. Turns(F, N, d, NewFlow(TRUE, to), {}, {}, G, M) /\ Elsewhere(f)
  <2>1. \A m \in {} : m.flow = f /\ MessageOK(m)
    OBVIOUS
  <2>2. PICK y : y = NewFlow(TRUE, to)
    OBVIOUS
  <2>3. y \in FlowType /\ Step(f, d, y, {}, {})
    BY <1>4, <1>6, <2>2
  <2>4. Turns(F, N, d, y, {}, {}, G, M) /\ Elsewhere(f)
    BY <1>2, <1>3, <2>1, <2>3, StepTurns
  <2>5. QED
    BY <2>2, <2>4
<1>8. Asked(G, M, d) /\ Keeps(F, G)
  <2>1. \A e \in Devices : F[e].state = NoFlow
    BY <1>2 DEF Initiate
  <2>2. M \subseteq N
    BY <1>7 DEF Turns
  <2>3. /\ G \in [Devices -> FlowType] /\ G[d] = NewFlow(TRUE, to)
        /\ \A e \in Devices \ {d} : G[e] = F[e]
    BY <1>7 DEF Turns
  <2>4. Asked(F, N, b)
    BY <1>1, <1>2
  <2>5. QED
    BY <1>5, <2>1, <2>2, <2>3, <2>4, AskedKeeps
<1>9. QED
  BY <1>2, <1>3, <1>7, <1>8 DEF Goes, Trusts, Marks, Signs, trust, Initiate

\* What a flow sends when it is quiet goes to whom it is with.
LEMMA QuietMail ==
  ASSUME NEW f \in Flows, NEW d, NEW fl, NEW kind \in Quiet
  PROVE  \A m \in Mail(f, d, fl, kind, NoSas) :
           /\ m.flow = f /\ MessageOK(m) /\ m.from = d /\ m.kind \in Quiet
           /\ m.to \in fl.deviceIds
<1>1. kind \notin {"start", "accept", "key"}
  BY DEF Quiet
<1>2. QED
  BY <1>1, MailIs

LEMMA CancelGoes ==
  ASSUME Typed, NEW f \in Flows, NEW d \in Devices, NEW F, NEW a, Before(f, d, F, a),
         NEW fl \in FlowType, Calmed(F[d], fl), fl.state = F[d].state, fl.state # NoFlow,
         NEW taken, CancelFlow(f, d, fl, taken)
  PROVE  Goes(f)
<1>1. fl.deviceIds = F[d].deviceIds
  BY DEF Calmed
<1>2. CASE fl.state \in Final
  <2>1. Step(f, d, fl, taken, {})
    BY <1>2 DEF CancelFlow
  <2>2. QED
    BY <2>1, QuietGoes
<1>3. CASE fl.state \notin Final
  <2>1. PICK y : y = [fl EXCEPT !.state = "Failed"]
    OBVIOUS
  <2>2. Step(f, d, y, taken, Mail(f, d, fl, "cancel", NoSas))
    BY <1>3, <2>1 DEF CancelFlow
  <2>3. y \in FlowType /\ Calmed(F[d], y)
    BY <2>1 DEF FlowType, Calmed, States, Final, NoFlow
  <2>4. \A m \in Mail(f, d, fl, "cancel", NoSas) :
          /\ m.flow = f /\ MessageOK(m) /\ m.from = d /\ m.kind \in Quiet
          /\ m.to \in F[d].deviceIds /\ F[d].state # NoFlow
    <3>1. "cancel" \in Quiet
      BY DEF Quiet
    <3>2. QED
      BY <1>1, <3>1, QuietMail
  <2>5. QED
    BY <2>2, <2>3, <2>4, QuietGoes
<1>4. QED
  BY <1>2, <1>3

LEMMA AskingGoes ==
  ASSUME Typed, FlowsAsked, NEW f \in Flows, NEW d \in Devices,
         SendRequest(f, d) \/ SendReady(f, d) \/ Cancel(f, d) \/ Timeout(f, d)
  PROVE  Goes(f) /\ Trusts(f)
<1> DEFINE fl == flow[f][d]
<1>1. fl \in FlowType
  BY DEF Typed
<1>2. PICK F, a : F = flow[f] /\ Before(f, d, F, a)
  BY BeforeIs
<1>3. Trusts(f)
  BY DEF Trusts, Marks, Signs, trust, SendRequest, SendReady, Cancel, Timeout
<1>4. ASSUME fl.state # NoFlow, NEW y \in FlowType, Calmed(fl, y),
             NEW kind \in {"request", "ready"},
             Step(f, d, y, {}, Mail(f, d, fl, kind, NoSas))
      PROVE  Goes(f)
  <2>1. \A m \in Mail(f, d, fl, kind, NoSas) :
          /\ m.flow = f /\ MessageOK(m) /\ m.from = d /\ m.kind \in Quiet
          /\ m.to \in fl.deviceIds /\ fl.state # NoFlow
    <3>1. kind \in Quiet
      BY DEF Quiet
    <3>2. QED
      BY <1>4, <3>1, QuietMail
  <2>2. QED
    BY <1>2, <1>4, <2>1, QuietGoes
<1>5. CASE SendRequest(f, d)
  <2>1. PICK y : y = [fl EXCEPT !.state = "WaitingForOtherToAccept"]
    OBVIOUS
  <2>2. /\ fl.state = "PromptStartVerification"
        /\ Step(f, d, y, {}, Mail(f, d, fl, "request", NoSas))
    BY <1>5, <2>1 DEF SendRequest
  <2>3. y \in FlowType /\ Calmed(fl, y) /\ fl.state # NoFlow
    BY <1>1, <2>1, <2>2 DEF FlowType, Calmed, States, NoFlow
  <2>4. QED
    BY <1>3, <1>4, <2>2, <2>3
<1>6. CASE SendReady(f, d)
  <2>1. PICK y : y = [fl EXCEPT !.state = "WaitingForKeys"]
    OBVIOUS
  <2>2. /\ fl.state = "PromptStartVerification"
        /\ Step(f, d, y, {}, Mail(f, d, fl, "ready", NoSas))
    BY <1>6, <2>1 DEF SendReady
  <2>3. y \in FlowType /\ Calmed(fl, y) /\ fl.state # NoFlow
    BY <1>1, <2>1, <2>2 DEF FlowType, Calmed, States, NoFlow
  <2>4. QED
    BY <1>3, <1>4, <2>2, <2>3
<1>7. CASE Cancel(f, d)
  <2>1. fl.state # NoFlow /\ CancelFlow(f, d, fl, {})
    BY <1>7 DEF Cancel
  <2>2. Calmed(fl, fl)
    BY DEF Calmed
  <2>3. QED
    BY <1>2, <1>1, <1>3, <2>1, <2>2, CancelGoes
<1>8. CASE Timeout(f, d)
  <2>1. fl.state # NoFlow
    <3>1. \E b \in Devices : fl.state = NoFlow => fl = Absent
      BY DEF FlowsAsked, Asked, Star
    <3>2. Absent.timer = FALSE
      <4>1. PICK n : n = NewFlow(FALSE, {})
        OBVIOUS
      <4>2. n \in FlowType /\ Absent = [n EXCEPT !.state = NoFlow, !.timer = FALSE]
        BY <4>1, NewFlowIs DEF Absent
      <4>3. QED
        BY <4>2 DEF FlowType
    <3>3. QED
      BY <1>8, <3>1, <3>2 DEF Timeout
  <2>2. PICK y : y = [fl EXCEPT !.timer = FALSE]
    OBVIOUS
  <2>3. y \in FlowType /\ y.state = fl.state /\ Calmed(fl, y)
    BY <1>1, <2>1, <2>2 DEF FlowType, Calmed
  <2>4. CancelFlow(f, d, y, {})
    BY <1>8, <2>2 DEF Timeout
  <2>5. QED
    BY <1>2, <1>3, <2>1, <2>3, <2>4, CancelGoes
<1>9. QED
  BY <1>3, <1>5, <1>6, <1>7, <1>8

LEMMA TakenStartGoes ==
  ASSUME Typed, NEW f \in Flows, NEW d \in Devices, NEW F, NEW a, Before(f, d, F, a),
         NEW p, StartedBy(F, a, d, p), F[d].state # NoFlow,
         F[d].sender = TRUE => GivesWay(F[d], d),
         NEW method \in Methods, NEW taken, NEW after,
         after = Given(F[d], p, method),
         \/ AcceptRequest(f, d, after, taken)
         \/ after.state = "PromptStartVerification" /\ Step(f, d, after, taken, {})
  PROVE  Goes(f)
<1>1. PICK F0, N : F0 = flow[f] /\ N = Of(f, net)
  OBVIOUS
<1>2. PICK G, M : G = flow'[f] /\ M = Of(f, net')
  OBVIOUS
<1>3. Asked(F, N, a) /\ F[d] \in FlowType /\ p \in Devices
  BY <1>1 DEF Before, Asked, StartedBy
<1>4. /\ after \in FlowType /\ after.state = F[d].state /\ after.acceptSent = F[d].acceptSent
      /\ after.deviceIds = F[d].deviceIds /\ after.canonical = p /\ after.method = method
  BY <1>3 DEF FlowType, Ends, Given
<1>5. ASSUME NEW acc \in BOOLEAN, NEW st, NEW fl \in FlowType,
             fl = Answered(F[d], p, method, acc, st),
             NEW out, Step(f, d, fl, taken, out),
             \A m \in out : /\ m.flow = f /\ MessageOK(m)
                            /\ m.from = d /\ m.to \in F[d].deviceIds /\ m.kind = "accept",
             \/ /\ acc = F[d].acceptSent /\ st = F[d].state /\ out = {}
                /\ st = "PromptStartVerification" \/ acc = TRUE
             \/ acc = TRUE /\ st = "WaitingForKeys"
      PROVE  Goes(f)
  <2>1. Turns(F0, N, d, fl, taken, out, G, M) /\ Elsewhere(f)
    BY <1>1, <1>2, <1>5, StepTurns
  <2>2. /\ G \in [Devices -> FlowType] /\ G[d] = fl
        /\ \A e \in Devices \ {d} : G[e] = F[e]
    BY <1>1, <2>1 DEF Turns, Before
  <2>3. Sends(N, M, d, F[d].deviceIds, "accept") /\ (out = {} => M \subseteq N)
    BY <1>5, <2>1 DEF Sends, Turns
  <2>4. \/ /\ acc = F[d].acceptSent /\ st = F[d].state /\ M \subseteq N
           /\ st = "PromptStartVerification" \/ acc = TRUE
        \/ acc = TRUE /\ st = "WaitingForKeys"
    BY <1>5, <2>3
  <2>5. G[d] = Answered(F[d], p, method, acc, st)
    BY <1>5, <2>2
  <2>6. Asked(G, M, a) /\ Keeps(F, G)
    BY <1>3, <2>2, <2>3, <2>4, <2>5, StartTakenKeeps
  <2>7. QED
    BY <1>2, <2>1, <2>6, AfterGoes
<1>6. ASSUME Step(f, d, after, taken, {}),
             after.state = "PromptStartVerification" \/ after.acceptSent = TRUE
      PROVE  Goes(f)
  <2>1. PICK acc, st : acc = F[d].acceptSent /\ st = F[d].state
    OBVIOUS
  <2>2. acc \in BOOLEAN
    BY <1>3, <2>1 DEF FlowType
  <2>3. after = Answered(F[d], p, method, acc, st)
    BY <1>4, <2>1 DEF FlowType, Answered
  <2>4. PICK fl, out : fl = after /\ out = {}
    OBVIOUS
  <2>5. fl \in FlowType /\ fl = Answered(F[d], p, method, acc, st) /\ Step(f, d, fl, taken, out)
    BY <1>4, <1>6, <2>3, <2>4
  <2>6. \A m \in out : /\ m.flow = f /\ MessageOK(m)
                       /\ m.from = d /\ m.to \in F[d].deviceIds /\ m.kind = "accept"
    BY <2>4
  <2>7. /\ acc = F[d].acceptSent /\ st = F[d].state /\ out = {}
        /\ st = "PromptStartVerification" \/ acc = TRUE
    BY <1>4, <1>6, <2>1, <2>4
  <2>8. QED
    BY <1>5, <2>2, <2>5, <2>6, <2>7
<1>7. CASE after.acceptSent = FALSE /\ AcceptRequest(f, d, after, taken)
  <2> DEFINE out == Mail(f, d, after, "accept",
                         [commitment |-> <<d, after.canonical>>, method |-> after.method])
  <2>1. PICK fl : fl = [after EXCEPT !.acceptSent = TRUE, !.state = "WaitingForKeys"]
    OBVIOUS
  <2>2. Step(f, d, fl, taken, out)
    BY <1>7, <2>1 DEF AcceptRequest
  <2>3. fl \in FlowType
    BY <1>4, <2>1 DEF FlowType, States
  <2>4. PICK acc, st : /\ acc = TRUE /\ st = "WaitingForKeys"
                       /\ fl = Answered(F[d], p, method, acc, st)
    BY <2>1 DEF Answered
  <2>5. [commitment |-> <<d, after.canonical>>, method |-> after.method] \in AcceptType
    BY <1>3, <1>4 DEF AcceptType, Ends
  <2>6. \A m \in out : /\ m.flow = f /\ MessageOK(m)
                       /\ m.from = d /\ m.to \in F[d].deviceIds /\ m.kind = "accept"
    <3>1. PICK content : /\ content \in AcceptType
                         /\ out = Mail(f, d, after, "accept", content)
      BY <2>5
    <3>2. QED
      BY <1>4, <3>1, MailIs
  <2>7. QED
    BY <1>5, <2>2, <2>3, <2>4, <2>6
<1>8. CASE after.acceptSent = TRUE /\ AcceptRequest(f, d, after, taken)
  BY <1>6, <1>8 DEF AcceptRequest
<1>9. after.acceptSent \in BOOLEAN
  BY <1>4 DEF FlowType
<1>10. QED
  BY <1>6, <1>7, <1>8, <1>9

LEMMA AcceptLegacyGoes ==
  ASSUME Typed, FlowsAsked, NEW f \in Flows, NEW d \in Devices, AcceptLegacy(f, d)
  PROVE  Goes(f) /\ Trusts(f)
<1>1. PICK F, a : F = flow[f] /\ Before(f, d, F, a)
  BY BeforeIs
<1>2. F[d] \in FlowType
  BY <1>1 DEF Typed
<1>3. /\ F[d].sender = FALSE /\ F[d].canonical # NoDevice /\ F[d].state # NoFlow
      /\ AcceptRequest(f, d, F[d], {}) /\ UNCHANGED trust
  BY <1>1, <1>2 DEF AcceptLegacy, FlowType, NoFlow
<1>4. StartedBy(F, a, d, F[d].canonical)
  BY <1>1, <1>3, CanonicalSaysSo DEF Before
<1>5. F[d] = Given(F[d], F[d].canonical, F[d].method)
  BY <1>2, <1>3 DEF FlowType, Given
<1>6. PICK p, method, after : p = F[d].canonical /\ method = F[d].method /\ after = F[d]
  OBVIOUS
<1>7. method \in Methods
  BY <1>2, <1>6 DEF FlowType
<1>8. Goes(f)
  BY <1>1, <1>3, <1>4, <1>5, <1>6, <1>7, TakenStartGoes
<1>9. QED
  BY <1>3, <1>8, SameTrusts

LEMMA MessageIs ==
  ASSUME Typed, FlowsAsked, NEW m \in net
  PROVE  /\ m.flow \in Flows /\ m.from \in Devices /\ m.to \in Devices
         /\ MessageOK(m) /\ m \in Of(m.flow, net)
<1>1. m.flow \in Flows /\ MessageOK(m)
  BY DEF Typed, MessageOK
<1>2. m \in Of(m.flow, net)
  BY DEF Of
<1>3. PICK a \in Devices : Asked(flow[m.flow], Of(m.flow, net), a)
  BY <1>1 DEF FlowsAsked
<1>4. QED
  BY <1>1, <1>2, <1>3 DEF Asked, Lines

\* A request or a start finds a flow or makes one.
LEMMA FoundOrMade ==
  ASSUME Typed, FlowsAsked, NEW m \in net
  PROVE  \E F, a : /\ Before(m.flow, m.to, F, a) /\ F[m.to].state # NoFlow
                   /\ IF flow[m.flow][m.to].state = NoFlow
                        THEN F[m.to] = NewFlow(FALSE, {m.from})
                        ELSE F[m.to] = flow[m.flow][m.to]
<1>1. PICK f, d : f = m.flow /\ d = m.to
  OBVIOUS
<1>2. f \in Flows /\ d \in Devices /\ m.from \in Devices /\ m \in Of(f, net)
  BY <1>1, MessageIs
<1>3. PICK F, a : F = flow[f] /\ Before(f, d, F, a)
  BY <1>2, BeforeIs
<1>4. CASE F[d].state # NoFlow
  BY <1>1, <1>3, <1>4
<1>5. CASE F[d].state = NoFlow
  <2>1. NewFlow(FALSE, {m.from}) \in FlowType
    <3>1. {m.from} \in SUBSET Devices
      BY <1>2
    <3>2. QED
      BY <3>1, NewFlowIs
  <2>2. PICK G : G = [F EXCEPT ![d] = NewFlow(FALSE, {m.from})]
    OBVIOUS
  <2>3. /\ G \in [Devices -> FlowType] /\ G[d] = NewFlow(FALSE, {m.from})
        /\ \A e \in Devices \ {d} : G[e] = F[e]
    BY <1>2, <1>3, <2>1, <2>2 DEF Typed
  <2>4. PICK N : N = Of(f, net)
    OBVIOUS
  <2>5. Asked(F, N, a) /\ m \in N /\ m.to = d /\ N \subseteq N
    BY <1>1, <1>2, <1>3, <2>4 DEF Before
  <2>6. Asked(G, N, a) /\ Keeps(F, G)
    BY <1>2, <1>5, <2>3, <2>5, CreatedKeeps, ZenonT(30)
  <2>7. Before(f, d, G, a)
    BY <1>3, <2>3, <2>4, <2>6 DEF Before
  <2>8. G[d].state # NoFlow
    <3>1. NewFlow(FALSE, {m.from}).state = "PromptStartVerification"
      BY NewFlowFields, Zenon
    <3>2. QED
      BY <2>3, <3>1 DEF NoFlow
  <2>9. QED
    BY <1>1, <1>3, <1>5, <2>3, <2>7, <2>8
<1>6. QED
  BY <1>4, <1>5

LEMMA ReceiveRequestGoes ==
  ASSUME Typed, FlowsAsked, NEW m \in net, ReceiveRequest(m)
  PROVE  Goes(m.flow) /\ Trusts(m.flow)
<1>1. PICK f, d : f = m.flow /\ d = m.to
  OBVIOUS
<1>2. PICK F, a : /\ Before(f, d, F, a)
                  /\ IF flow[f][d].state = NoFlow THEN F[d] = NewFlow(FALSE, {m.from})
                                                 ELSE F[d] = flow[f][d]
  BY <1>1, FoundOrMade
<1>3. PICK fl : fl = F[d]
  OBVIOUS
<1>4. f \in Flows /\ d \in Devices /\ fl \in FlowType /\ Calmed(F[d], fl)
  BY <1>1, <1>2, <1>3, MessageIs DEF Before, Asked, Calmed
<1>5. Step(f, d, fl, {m}, {}) /\ UNCHANGED trust
  BY <1>1, <1>2, <1>3 DEF ReceiveRequest
<1>6. Goes(f)
  BY <1>2, <1>4, <1>5, QuietGoes
<1>7. QED
  BY <1>1, <1>5, <1>6, SameTrusts

LEMMA ReceiveStartGoes ==
  ASSUME Typed, FlowsAsked, NEW m \in net, ReceiveStart(m)
  PROVE  Goes(m.flow) /\ Trusts(m.flow)
<1>1. PICK f, d : f = m.flow /\ d = m.to
  OBVIOUS
<1>2. PICK F, a : /\ Before(f, d, F, a) /\ F[d].state # NoFlow
                  /\ IF flow[f][d].state = NoFlow THEN F[d] = NewFlow(FALSE, {m.from})
                                                 ELSE F[d] = flow[f][d]
  BY <1>1, FoundOrMade
<1>3. PICK fl : fl = F[d]
  OBVIOUS
<1>4. f \in Flows /\ d \in Devices /\ fl \in FlowType /\ Calmed(F[d], fl) /\ m \in Of(f, net)
  BY <1>1, <1>2, <1>3, MessageIs DEF Before, Asked, Calmed
<1>5. PICK stays, method : /\ stays = (fl.sender /\ ~GivesWay(fl, d))
                           /\ method = IF m.content = "both" THEN "emoji" ELSE "decimal"
  OBVIOUS
<1>6. PICK after : after = [fl EXCEPT !.method = method, !.sender = stays,
                                      !.canonical = IF stays THEN @ ELSE m.from]
  OBVIOUS
<1>7. /\ m.kind = "start" /\ UNCHANGED trust
      /\ IF m.content = "unsupported"
           THEN CancelFlow(f, d, fl, {m})
           ELSE IF after.state # "PromptStartVerification" /\ ~after.sender
             THEN AcceptRequest(f, d, after, {m})
             ELSE Step(f, d, after, {m}, {})
  BY <1>1, <1>2, <1>3, <1>5, <1>6 DEF ReceiveStart
<1>8. StartedBy(F, a, d, m.from)
  BY <1>1, <1>2, <1>4, <1>7, StartSaysSo DEF Before
<1>9. m.content # "unsupported" => method \in Methods
  <2>1. m.content \in Offers
    BY <1>7, MessageIs DEF MessageOK
  <2>2. env.offers \subseteq {"both", "decimal", "unsupported"}
    BY DevicesOK DEF Typed
  <2>3. QED
    BY <1>5, <2>1, <2>2 DEF Methods, Offers
<1>10. stays \in BOOLEAN /\ (stays = TRUE => fl.sender = TRUE)
       /\ (stays = FALSE /\ fl.sender = TRUE => GivesWay(fl, d))
  BY <1>4, <1>5 DEF FlowType
<1>11. ASSUME m.content = "unsupported"
       PROVE  Goes(f)
  <2>1. CancelFlow(f, d, fl, {m}) /\ fl.state = F[d].state /\ fl.state # NoFlow
    BY <1>2, <1>3, <1>7, <1>11
  <2>2. QED
    BY <1>2, <1>4, <2>1, CancelGoes
<1>12. ASSUME m.content # "unsupported", stays = TRUE
       PROVE  Goes(f)
  <2>1. after \in FlowType /\ Calmed(fl, after) /\ after.sender = TRUE
    <3>1. after = [fl EXCEPT !.method = method, !.sender = TRUE, !.canonical = fl.canonical]
      BY <1>6, <1>12
    <3>2. QED
      BY <1>2, <1>3, <1>4, <1>9, <1>10, <1>12, <3>1 DEF FlowType, Calmed
  <2>2. Step(f, d, after, {m}, {}) /\ Calmed(F[d], after)
    BY <1>3, <1>7, <1>12, <2>1
  <2>3. QED
    BY <1>2, <1>4, <2>1, <2>2, QuietGoes
<1>13. ASSUME m.content # "unsupported", stays = FALSE
       PROVE  Goes(f)
  <2>1. after = Given(F[d], m.from, method) /\ after.sender = FALSE
    BY <1>3, <1>4, <1>6, <1>13 DEF FlowType, Given
  <2>2. \/ AcceptRequest(f, d, after, {m})
        \/ after.state = "PromptStartVerification" /\ Step(f, d, after, {m}, {})
    BY <1>7, <1>13, <2>1
  <2>3. F[d].sender = TRUE => GivesWay(F[d], d)
    BY <1>3, <1>10, <1>13
  <2>4. method \in Methods
    BY <1>9, <1>13
  <2>5. QED
    BY <1>2, <1>4, <1>8, <2>1, <2>2, <2>3, <2>4, TakenStartGoes
<1>14. QED
  BY <1>1, <1>7, <1>10, <1>11, <1>12, <1>13, SameTrusts

LEMMA OtherStartGoes ==
  ASSUME Typed, FlowsAsked, NEW f \in Flows, NEW d \in Devices, NEW offer \in env.offers,
         OtherStart(f, d, offer)
  PROVE  Goes(f) /\ Trusts(f)
<1>1. PICK F, a : F = flow[f] /\ Before(f, d, F, a)
  BY BeforeIs
<1>2. PICK F0, N, G, M : F0 = flow[f] /\ N = Of(f, net) /\ G = flow'[f] /\ M = Of(f, net')
  OBVIOUS
<1>3. F[d] \in FlowType /\ Asked(F, N, a) /\ NoDevice \notin Devices /\ a \in Devices
  BY <1>1, <1>2, DevicesOK DEF Typed, Before, Asked
<1>4. PICK with : with = [F[d] EXCEPT !.sender = TRUE]
  OBVIOUS
<1>5. /\ d \in env.otherClients /\ UNCHANGED trust
      /\ \/ ~F[d].sender /\ F[d].state = "WaitingForKeys" /\ F[d].canonical = NoDevice
         \/ F[d].sender /\ F[d].state = "PromptStartVerification" /\ F[d].deviceId # NoDevice
      /\ SendStart(f, d, with, offer, {}, {})
  BY <1>1, <1>4 DEF OtherStart
<1>6. F[d].startSent = FALSE /\ F[d].state # NoFlow
  BY <1>3, <1>5 DEF Asked, Begun, FlowType, NoFlow
<1>7. /\ F[d].deviceId # NoDevice
      /\ \/ d = a /\ F[d].sender = TRUE
         \/ d # a /\ F[d].sender = FALSE /\ F[d].canonical = NoDevice
  <2>1. CASE d = a
    BY <1>3, <1>5, <1>6, <2>1 DEF Asked, Star, FlowType
  <2>2. CASE d # a
    <3>1. F[d].deviceId = a /\ F[d].sender = FALSE
      BY <1>3, <1>6, <2>2 DEF Asked, Star, Picked, PickedOf, FlowType
    <3>2. QED
      BY <1>3, <1>5, <2>2, <3>1
  <2>3. QED
    BY <2>1, <2>2
<1>8. PICK fl : fl = [F[d] EXCEPT !.sender = TRUE, !.startSent = TRUE, !.canonical = d,
                                  !.state = "WaitingForOtherToAccept"]
  OBVIOUS
<1>9. fl \in FlowType
  BY <1>3, <1>8 DEF FlowType, Ends, States
<1>10. Step(f, d, fl, {}, Mail(f, d, with, "start", offer))
  <2>1. with.startSent = FALSE
    BY <1>3, <1>4, <1>6 DEF FlowType
  <2>2. fl = [with EXCEPT !.startSent = TRUE, !.canonical = d, !.state = "WaitingForOtherToAccept"]
    BY <1>4, <1>8
  <2>3. QED
    BY <1>5, <2>1, <2>2 DEF SendStart
<1>11. \A m \in Mail(f, d, with, "start", offer) :
         m.flow = f /\ MessageOK(m) /\ m.from = d /\ m.to \in F[d].deviceIds /\ m.kind = "start"
  <2>1. with.deviceIds = F[d].deviceIds
    BY <1>3, <1>4 DEF FlowType
  <2>2. offer \in Offers
    BY DEF Offers
  <2>3. QED
    BY <2>1, <2>2, MailIs
<1>12. Turns(F0, N, d, fl, {}, Mail(f, d, with, "start", offer), G, M) /\ Elsewhere(f)
  BY <1>2, <1>9, <1>10, <1>11, StepTurns
<1>13. /\ G \in [Devices -> FlowType] /\ G[d] = fl /\ \A e \in Devices \ {d} : G[e] = F[e]
       /\ Sends(N, M, d, F[d].deviceIds, "start")
  BY <1>1, <1>2, <1>11, <1>12 DEF Turns, Sends
<1>14. Asked(G, M, a) /\ Keeps(F, G)
  BY <1>3, <1>5, <1>6, <1>7, <1>8, <1>13, StartKeeps
<1>15. Goes(f)
  BY <1>1, <1>2, <1>12, <1>14, AfterGoes
<1>16. QED
  BY <1>5, <1>15, SameTrusts

LEMMA ReceiveAcceptGoes ==
  ASSUME Typed, FlowsAsked, NEW m \in net, flow[m.flow][m.to].state # NoFlow, ReceiveAccept(m)
  PROVE  Goes(m.flow) /\ Trusts(m.flow)
<1>1. PICK f, d : f = m.flow /\ d = m.to
  OBVIOUS
<1>2. f \in Flows /\ d \in Devices /\ m \in Of(f, net) /\ MessageOK(m)
  BY <1>1, MessageIs
<1>3. PICK F, a : F = flow[f] /\ Before(f, d, F, a)
  BY <1>2, BeforeIs
<1>4. PICK F0, N, G, M : F0 = flow[f] /\ N = Of(f, net) /\ G = flow'[f] /\ M = Of(f, net')
  OBVIOUS
<1>5. F[d] \in FlowType /\ Asked(F, N, a) /\ F[d].state # NoFlow
  BY <1>1, <1>2, <1>3, <1>4 DEF Typed, Before
<1>6. PICK commitment, method : commitment = m.content.commitment /\ method = m.content.method
  OBVIOUS
<1>7. PICK fl : fl = Noted(F[d], commitment, method)
  OBVIOUS
<1>8. PICK out : out = IF F[d].keySent THEN {} ELSE Mail(f, d, F[d], "key", NoSas)
  OBVIOUS
<1>9. m.kind = "accept" /\ Step(f, d, fl, {m}, out) /\ UNCHANGED trust
  BY <1>1, <1>3, <1>6, <1>7, <1>8 DEF ReceiveAccept, Noted
<1>10. fl \in FlowType
  <2>1. commitment \in Commitment /\ method \in Methods
    BY <1>2, <1>6, <1>9 DEF MessageOK, AcceptType, Commitment
  <2>2. QED
    BY <1>5, <1>7, <2>1 DEF FlowType, Noted
<1>11. \A x \in out : /\ x.flow = f /\ MessageOK(x)
                      /\ x.from = d /\ x.to \in F[d].deviceIds /\ x.kind = "key"
  BY <1>2, <1>8, MailIs
<1>12. Turns(F0, N, d, fl, {m}, out, G, M) /\ Elsewhere(f)
  BY <1>2, <1>4, <1>9, <1>10, <1>11, StepTurns
<1>13. /\ G \in [Devices -> FlowType] /\ G[d] = fl /\ \A e \in Devices \ {d} : G[e] = F[e]
       /\ Sends(N, M, d, F[d].deviceIds, "key")
       /\ F[d].keySent = TRUE => M \subseteq N
  BY <1>3, <1>4, <1>8, <1>11, <1>12 DEF Turns, Sends
<1>14. Asked(G, M, a) /\ Keeps(F, G)
  <2>1. m \in N /\ m.to = d /\ m.kind = "accept"
    BY <1>1, <1>2, <1>4, <1>9
  <2>2. G[d].commitment = commitment /\ G[d].method = method
    BY <1>5, <1>7, <1>13 DEF Noted, FlowType
  <2>3. G[d] = Noted(F[d], G[d].commitment, G[d].method)
    BY <1>7, <1>13, <2>2
  <2>4. QED
    BY <1>2, <1>5, <1>13, <2>1, <2>3, AcceptTakenKeeps
<1>15. Goes(f)
  BY <1>2, <1>3, <1>4, <1>12, <1>14, AfterGoes
<1>16. QED
  BY <1>1, <1>9, <1>15, SameTrusts

LEMMA ReceiveKeyGoes ==
  ASSUME Typed, FlowsAsked, NEW m \in net, flow[m.flow][m.to].state # NoFlow, ReceiveKey(m)
  PROVE  Goes(m.flow) /\ Trusts(m.flow)
<1>1. PICK f, d : f = m.flow /\ d = m.to
  OBVIOUS
<1>2. f \in Flows /\ d \in Devices /\ m.from \in Devices /\ m \in Of(f, net) /\ MessageOK(m)
  BY <1>1, MessageIs
<1>3. PICK F, a : F = flow[f] /\ Before(f, d, F, a)
  BY <1>2, BeforeIs
<1>4. PICK F0, N, G, M : F0 = flow[f] /\ N = Of(f, net) /\ G = flow'[f] /\ M = Of(f, net')
  OBVIOUS
<1>5. PICK fl : fl = F[d]
  OBVIOUS
<1>6. fl \in FlowType /\ Asked(F, N, a) /\ fl.state # NoFlow /\ Calmed(fl, fl)
  BY <1>1, <1>2, <1>3, <1>4, <1>5 DEF Typed, Before, Calmed
<1>7. PICK sas, sent, st : /\ sas = SasOf(d, fl, m.from) /\ sent = (fl.keySent \/ ~fl.sender)
                           /\ st = IF fl.method = "emoji" THEN "CompareEmoji" ELSE "CompareNumber"
  OBVIOUS
<1>8. PICK compare : compare = Shows(fl, sas, sent, st)
  OBVIOUS
<1>9. PICK out : out = IF fl.sender \/ fl.keySent THEN {} ELSE Mail(f, d, fl, "key", NoSas)
  OBVIOUS
<1>10. /\ m.kind = "key" /\ UNCHANGED trust
       /\ \/ CancelFlow(f, d, fl, {m})
          \/ /\ fl.state \in {"WaitingForOtherToAccept", "WaitingForKeys"}
             /\ Step(f, d, compare, {m}, out)
  BY <1>1, <1>3, <1>5, <1>7, <1>8, <1>9 DEF ReceiveKey, Shows
<1>11. ASSUME CancelFlow(f, d, fl, {m})
       PROVE  Goes(f)
  BY <1>2, <1>3, <1>5, <1>6, <1>11, CancelGoes
<1>12. ASSUME fl.state \in {"WaitingForOtherToAccept", "WaitingForKeys"},
              Step(f, d, compare, {m}, out)
       PROVE  Goes(f)
  <2>1. sas \in Sas
    <3>1. /\ d \in Devices /\ m.from \in Devices /\ fl.deviceId \in Ends
          /\ fl.method \in Methods /\ d \in Ends
      BY <1>2, <1>6 DEF FlowType, Ends
    <3>2. QED
      BY <1>7, <3>1 DEF SasOf, Sas
  <2>2. compare \in FlowType /\ compare.keySent = sent /\ compare.state = st
    BY <1>6, <1>7, <1>8, <2>1 DEF Shows, FlowType, States, Comparing
  <2>3. \A x \in out : /\ x.flow = f /\ MessageOK(x)
                       /\ x.from = d /\ x.to \in F[d].deviceIds /\ x.kind = "key"
    BY <1>2, <1>5, <1>9, MailIs
  <2>4. Turns(F0, N, d, compare, {m}, out, G, M) /\ Elsewhere(f)
    BY <1>2, <1>4, <1>12, <2>2, <2>3, StepTurns
  <2>5. /\ G \in [Devices -> FlowType] /\ G[d] = compare
        /\ \A e \in Devices \ {d} : G[e] = F[e]
    BY <1>3, <1>4, <2>4 DEF Turns
  <2>6. Sends(N, M, d, F[d].deviceIds, "key") /\ M = (N \ {m}) \cup out
    BY <2>3, <2>4 DEF Turns, Sends
  <2>7. \A x \in M : ~(x.kind = "key" /\ x.from = m.from /\ x.to = d)
    <3>1. ASSUME NEW x \in N, x # m
          PROVE  ~(x.kind = "key" /\ x.from = m.from /\ x.to = d)
      <4>1. x \in net /\ MessageOK(x) /\ x.flow = f
        BY <1>4 DEF Of, Typed
      <4>2. QED
        BY <1>1, <1>2, <1>10, <3>1, <4>1 DEF MessageOK
    <3>2. m.from # d
      BY <1>1, <1>2, <1>4, <1>6 DEF Asked, Lines
    <3>3. QED
      BY <2>3, <2>6, <3>1, <3>2
  <2>8. /\ F[d].keySent = TRUE => M \subseteq N
        /\ F[d].keySent = TRUE => G[d].keySent = TRUE
        /\ G[d].keySent = TRUE \/ M \subseteq N
        /\ G[d].state \in Comparing
        /\ F[d].state \notin {NoFlow, "WaitingForMac"}
    <3>1. fl.keySent \in BOOLEAN /\ fl.sender \in BOOLEAN
      BY <1>6 DEF FlowType
    <3>2. QED
      BY <1>5, <1>6, <1>7, <1>9, <1>12, <2>2, <2>5, <2>6, <3>1 DEF Comparing
  <2>9. G[d] = Shows(F[d], SasOf(d, F[d], m.from), G[d].keySent, G[d].state)
    BY <1>5, <1>7, <1>8, <2>2, <2>5
  <2>10. m \in N /\ m.kind = "key" /\ m.to = d
    BY <1>1, <1>2, <1>4, <1>10
  <2>11. Asked(G, M, a) /\ Keeps(F, G)
    <3>1. KeyTaken(F, N, m, d, G, M)
      BY <2>5, <2>6, <2>7, <2>8, <2>9, <2>10 DEF KeyTaken
    <3>2. QED
      BY <1>2, <1>6, <2>5, <3>1, KeyTakenKeeps
  <2>12. QED
    BY <1>2, <1>3, <1>4, <2>4, <2>11, AfterGoes
<1>13. QED
  BY <1>1, <1>10, <1>11, <1>12, SameTrusts

LEMMA ConfirmSasGoes ==
  ASSUME Typed, FlowsAsked, NEW f \in Flows, NEW d \in Devices, ConfirmSas(f, d)
  PROVE  Goes(f) /\ Trusts(f)
<1>1. PICK F, a : F = flow[f] /\ Before(f, d, F, a)
  BY BeforeIs
<1>2. PICK N, out : N = Of(f, net) /\ out = Mail(f, d, F[d], "mac", NoSas)
  OBVIOUS
<1>3. F[d] \in FlowType /\ Asked(F, N, a) /\ F \in [Devices -> FlowType]
  BY <1>1, <1>2 DEF Typed, Before
<1>4. PICK fl : fl = [F[d] EXCEPT !.macSent = TRUE, !.state = "WaitingForMac"]
  OBVIOUS
<1>5. AcceptDevice(f, d, fl, {}, out) /\ F[d].state # NoFlow
  BY <1>1, <1>2, <1>4 DEF ConfirmSas, Comparing, NoFlow
<1>6. PICK p \in F[d].deviceIds : Same(F, d, p)
  BY <1>1 DEF ConfirmSas, SameSas, Same
<1>7. /\ fl \in FlowType /\ fl.state = "WaitingForMac" /\ fl.macSent = TRUE /\ fl.state # NoFlow
  BY <1>3, <1>4 DEF FlowType, States, NoFlow
<1>8. PICK G, M : G = [F EXCEPT ![d] = fl] /\ M = (N \ {}) \cup out
  OBVIOUS
<1>9. \A m \in out : /\ m.flow = f /\ MessageOK(m)
                     /\ m.from = d /\ m.to \in F[d].deviceIds /\ m.kind = "mac"
  BY <1>2, MailIs
<1>10. Turns(F, N, d, fl, {}, out, G, M)
  BY <1>3, <1>7, <1>8 DEF Turns
<1>11. Asked(G, M, a) /\ Keeps(F, G)
  <2>1. Sends(N, M, d, F[d].deviceIds, "mac")
    BY <1>8, <1>9 DEF Sends
  <2>2. /\ G \in [Devices -> FlowType] /\ \A e \in Devices \ {d} : G[e] = F[e]
        /\ G[d] = [F[d] EXCEPT !.macSent = TRUE, !.state = "WaitingForMac"]
    BY <1>4, <1>10 DEF Turns
  <2>3. QED
    BY <1>3, <1>5, <1>6, <2>1, <2>2, MacOutKeeps
<1>12. a \in Devices
  BY <1>3 DEF Asked
<1>13. Signs(f)
  BY DEF ConfirmSas, Signs
<1>14. Goes(f) /\ Marks(f)
  BY <1>1, <1>2, <1>5, <1>7, <1>9, <1>10, <1>11, <1>12, AcceptDeviceGoes
<1>15. QED
  BY <1>13, <1>14 DEF Trusts

\* p confirmed to d.
Confirmer(F, d, p) == p \in Devices /\ F[p].macSent /\ F[p].deviceId = d

\* Who sends a MAC to a flow that shows a SAS for it is in a flow with that device.
LEMMA AnsweredTo ==
  ASSUME NEW F, NEW N, NEW a, Asked(F, N, a), NEW d \in Devices, F[d].sas # NoSas,
         NEW m \in N, m.kind = "mac", m.to = d, NEW p, p = F[d].deviceId, p = m.from
  PROVE  Confirmer(F, d, p)
<1>1. /\ p \in Devices /\ p # d /\ F[p].state # NoFlow /\ F[p].macSent /\ a \in {d, p}
      /\ a \in Devices
  BY DEF Asked, Lines
<1>2. F[p].deviceId # NoDevice
  BY <1>1 DEF Asked, Confirmed, ConfirmedOf
<1>3. CASE a = d
  BY <1>1, <1>3 DEF Asked, Star, Confirmer
<1>4. CASE a = p
  <2>1. PickedOf(F, a, d)
    BY <1>1, <1>4 DEF Asked, Picked
  <2>2. QED
    BY <1>1, <1>2, <1>4, <2>1 DEF PickedOf, Confirmer
<1>5. QED
  BY <1>1, <1>3, <1>4

LEMMA ReceiveMacGoes ==
  ASSUME Typed, FlowsAsked, NEW m \in net, flow[m.flow][m.to].state # NoFlow, ReceiveMac(m)
  PROVE  Goes(m.flow) /\ Trusts(m.flow)
<1>1. PICK f, d : f = m.flow /\ d = m.to
  OBVIOUS
<1>2. f \in Flows /\ d \in Devices /\ m \in Of(f, net)
  BY <1>1, MessageIs
<1>3. PICK F, a : F = flow[f] /\ Before(f, d, F, a)
  BY <1>2, BeforeIs
<1>4. PICK N, taken, out : N = Of(f, net) /\ taken = {m} /\ out = {}
  OBVIOUS
<1>5. /\ F[d] \in FlowType /\ Asked(F, N, a) /\ F[d].state # NoFlow /\ Calmed(F[d], F[d])
      /\ F \in [Devices -> FlowType] /\ a \in Devices
  BY <1>1, <1>2, <1>3, <1>4 DEF Typed, Before, Calmed, Asked
<1>6. ASSUME CancelFlow(f, d, F[d], taken), UNCHANGED trust
      PROVE  Goes(f) /\ Trusts(f)
  BY <1>2, <1>3, <1>5, <1>6, CancelGoes, SameTrusts
<1>7. PICK fl : fl = [F[d] EXCEPT !.macVerified = TRUE]
  OBVIOUS
<1>8. ASSUME MacMatches(d, F[d], m), m.kind = "mac", UploadSignatures(d, F[d]),
             AcceptDevice(f, d, fl, taken, out)
      PROVE  Goes(f) /\ Trusts(f)
  <2>1. fl \in FlowType /\ fl.macVerified = TRUE /\ fl.state # NoFlow
    BY <1>5, <1>7 DEF FlowType
  <2>2. PICK G, M : G = [F EXCEPT ![d] = fl] /\ M = (N \ taken) \cup out
    OBVIOUS
  <2>3. Turns(F, N, d, fl, taken, out, G, M)
    BY <1>2, <1>5, <2>1, <2>2 DEF Turns
  <2>4. /\ m \in N /\ m.to = d /\ m.from = F[d].deviceId /\ M \subseteq N
        /\ \A x \in out : x.flow = f /\ MessageOK(x)
    BY <1>1, <1>2, <1>4, <1>8, <2>2 DEF MacMatches
  <2>5. /\ G \in [Devices -> FlowType] /\ \A e \in Devices \ {d} : G[e] = F[e]
        /\ G[d] = [F[d] EXCEPT !.macVerified = TRUE]
    BY <1>7, <2>3 DEF Turns
  <2>6. Asked(G, M, a) /\ Keeps(F, G)
    BY <1>2, <1>5, <1>8, <2>4, <2>5, MacInKeeps
  <2>7. Goes(f) /\ Marks(f)
    BY <1>2, <1>3, <1>4, <1>5, <1>8, <2>1, <2>3, <2>4, <2>6, AcceptDeviceGoes
  <2>8. PICK p : p = F[d].deviceId /\ p = m.from
    BY <1>8 DEF MacMatches
  <2>9. F[d].sas # NoSas /\ m \in N
    BY <1>2, <1>4, <1>8 DEF MacMatches
  <2>10. p \in Devices /\ F[p].macSent /\ F[p].deviceId = d
    <3>1. m \in N /\ m.kind = "mac" /\ m.to = d /\ p = F[d].deviceId /\ p = m.from
      BY <1>1, <1>8, <2>8, <2>9
    <3>2. Confirmer(F, d, p)
      BY <1>2, <1>5, <2>9, <3>1, AnsweredTo
    <3>3. QED
      BY <3>2 DEF Confirmer
  <2>11. Signs(f)
    <3>1. Keeps(F, flow'[f])
      BY <1>3, <2>7 DEF Goes
    <3>2. d # NoDevice
      BY <1>2, DevicesOK
    <3>3. flow'[f][p].macSent /\ flow'[f][p].deviceId = d
      BY <2>10, <3>1, <3>2 DEF Keeps
    <3>4. QED
      BY <1>2, <1>8, <2>8, <2>10, <3>3 DEF UploadSignatures, Signs
  <2>12. QED
    BY <2>7, <2>11 DEF Trusts
<1>9. QED
  BY <1>1, <1>3, <1>4, <1>6, <1>7, <1>8 DEF ReceiveMac
LEMMA ReceiveCancelGoes ==
  ASSUME Typed, FlowsAsked, NEW m \in net, flow[m.flow][m.to].state # NoFlow, ReceiveCancel(m)
  PROVE  Goes(m.flow) /\ Trusts(m.flow)
<1>1. PICK f, d, taken, out : f = m.flow /\ d = m.to /\ taken = {m} /\ out = {}
  OBVIOUS
<1>2. f \in Flows /\ d \in Devices
  BY <1>1, MessageIs
<1>3. PICK F, a : F = flow[f] /\ Before(f, d, F, a)
  BY <1>2, BeforeIs
<1>4. PICK fl : fl = [F[d] EXCEPT !.state = "Failed"]
  OBVIOUS
<1>5. fl \in FlowType /\ Calmed(F[d], fl)
  <2>1. F[d] \in FlowType /\ F[d].state # NoFlow
    BY <1>1, <1>2, <1>3 DEF Typed
  <2>2. QED
    BY <1>4, <2>1 DEF FlowType, Calmed, States, Final, NoFlow
<1>6. Step(f, d, fl, taken, out) /\ UNCHANGED trust
  BY <1>1, <1>3, <1>4 DEF ReceiveCancel
<1>7. Goes(f)
  BY <1>1, <1>2, <1>3, <1>5, <1>6, QuietGoes
<1>8. QED
  BY <1>1, <1>6, <1>7, SameTrusts

\* All flows at once: the flow that a step is about, and those it leaves.
AllGo ==
  /\ flow' \in [Flows -> [Devices -> FlowType]]
  /\ \A m \in net' : MessageOK(m)
  /\ \A f \in Flows : \E a \in Devices : Asked(flow'[f], Of(f, net'), a)
  /\ \A f \in Flows : Keeps(flow[f], flow'[f])

\* Elsewhere flows fail at most, and messages only leave.
LEMMA OthersGo ==
  ASSUME FlowsAsked, NEW f \in Flows,
         flow'[f] \in [Devices -> FlowType],
         \A d \in Devices : Calmed(flow[f][d], flow'[f][d]),
         Of(f, net') \subseteq Of(f, net)
  PROVE  /\ \E a \in Devices : Asked(flow'[f], Of(f, net'), a)
         /\ Keeps(flow[f], flow'[f])
<1>1. PICK a \in Devices : Asked(flow[f], Of(f, net), a)
  BY DEF FlowsAsked
<1>2. PICK F, N, G, M : F = flow[f] /\ N = Of(f, net) /\ G = flow'[f] /\ M = Of(f, net')
  OBVIOUS
<1>3. /\ Asked(F, N, a) /\ G \in [Devices -> FlowType]
      /\ \A d \in Devices : Calmed(F[d], G[d])
      /\ \A m \in M : m \in N
  BY <1>1, <1>2
<1>4. Asked(G, M, a) /\ Keeps(F, G)
  BY <1>3, QuietKeeps
<1>5. QED
  BY <1>2, <1>4

LEMMA GoesIsAllGo ==
  ASSUME Typed, FlowsAsked, NEW f \in Flows, Goes(f)
  PROVE  AllGo
<1>1. /\ flow' \in [Flows -> [Devices -> FlowType]]
      /\ \A m \in net' : MessageOK(m) /\ (m.flow # f => m \in net)
      /\ \A g \in Flows : g # f => flow'[g] = flow[g]
  BY DEF Goes, Elsewhere
<1>2. ASSUME NEW g \in Flows
      PROVE  /\ \E a \in Devices : Asked(flow'[g], Of(g, net'), a)
             /\ Keeps(flow[g], flow'[g])
  <2>1. CASE g = f
    BY <2>1 DEF Goes
  <2>2. CASE g # f
    <3>1. Of(g, net') \subseteq Of(g, net)
      BY <1>1, <2>2 DEF Of
    <3>2. \A d \in Devices : Calmed(flow[g][d], flow'[g][d])
      BY <1>1, <2>2 DEF Calmed
    <3>3. QED
      BY <1>1, <3>1, <3>2, OthersGo
  <2>3. QED
    BY <2>1, <2>2
<1>3. QED
  BY <1>1, <1>2 DEF AllGo

\* What is only logged, or for nobody.
LEMMA DroppedGoes ==
  ASSUME Typed, FlowsAsked, NEW m \in net, Ignore(m) \/ ReceiveDone(m)
  PROVE  AllGo /\ UNCHANGED trust
<1>1. net' = net \ {m} /\ flow' = flow /\ UNCHANGED trust
  BY DEF Ignore, ReceiveDone
<1>2. flow' \in [Flows -> [Devices -> FlowType]] /\ \A x \in net' : MessageOK(x)
  BY <1>1 DEF Typed
<1>3. ASSUME NEW g \in Flows
      PROVE  /\ \E a \in Devices : Asked(flow'[g], Of(g, net'), a)
             /\ Keeps(flow[g], flow'[g])
  <2>1. Of(g, net') \subseteq Of(g, net)
    BY <1>1 DEF Of
  <2>2. \A d \in Devices : Calmed(flow[g][d], flow'[g][d])
    BY <1>1 DEF Calmed
  <2>3. QED
    BY <1>2, <2>1, <2>2, OthersGo
<1>4. QED
  BY <1>1, <1>2, <1>3 DEF AllGo
GoesWith(x, q) ==
  IF Picks(x, q) THEN [x EXCEPT !.deviceId = q, !.deviceIds = {q}] ELSE x

ReadyTo(F, N, a, d, m, picked, others) ==
  \E G : /\ G \in [Devices -> FlowType] /\ G[d] = picked
         /\ \A e \in Devices \ {d} : G[e] = F[e]
         /\ Asked(G, (N \ {m}) \cup others, a) /\ Keeps(F, G)
         /\ F[d].startSent = FALSE => d = a /\ picked.deviceId # NoDevice

\* Who asked goes on with the device that is ready, and tells the others.
LEMMA ReadyKeeps ==
  ASSUME NEW F, NEW N, NEW a, Asked(F, N, a), NEW d \in Devices,
         F[d].state # NoFlow, F[d].sender = TRUE, NEW m \in N, m.to = d,
         NEW picked, picked = GoesWith(F[d], m.from),
         NEW others,
         \A x \in others : /\ x.from = d /\ x.to \in F[d].deviceIds /\ x.kind = "cancel"
                           /\ Picks(F[d], m.from)
  PROVE  ReadyTo(F, N, a, d, m, picked, others)
<1>1. PICK M : M = (N \ {m}) \cup others
  OBVIOUS
<1>2. /\ F \in [Devices -> FlowType] /\ NoDevice \notin Devices /\ F[d].startSent \in BOOLEAN
      /\ m.from \in Devices /\ F[m.from].state # NoFlow /\ m.from # d
  BY DevicesOK DEF Asked, Lines, FlowType
<1>3. d # a => F[d].startSent = TRUE /\ F[d].deviceId = a /\ a \in Devices
  BY <1>2 DEF Asked, Picked, PickedOf, Star
<1>4. Asked(F, M, a) /\ Keeps(F, F)
  <2>1. \A e \in Devices : Calmed(F[e], F[e])
    BY DEF Calmed
  <2>2. \A x \in M : x \in N \/ ( /\ x.from \in Devices /\ F[x.from].state # NoFlow
                                 /\ x.to \in F[x.from].deviceIds
                                 /\ x.kind \in {"request", "ready", "cancel", "done"} )
    BY <1>1
  <2>3. QED
    BY <1>2, <2>1, <2>2, QuietKeeps
<1>5. CASE Picks(F[d], m.from)
  <2>1. d = a /\ m.from \in F[a].deviceIds /\ F[a].deviceId = NoDevice
    BY <1>2, <1>3, <1>5 DEF Picks
  <2>2. picked \in FlowType /\ picked.deviceId = m.from
    <3>1. picked = [F[d] EXCEPT !.deviceId = m.from, !.deviceIds = {m.from}]
      BY <1>5 DEF GoesWith
    <3>2. F[d] \in FlowType /\ m.from \in Ends /\ {m.from} \in SUBSET Devices
      BY <1>2 DEF Ends
    <3>3. QED
      BY <3>1, <3>2 DEF FlowType
  <2>3. PICK G : G = [F EXCEPT ![d] = picked]
    OBVIOUS
  <2>4. /\ G \in [Devices -> FlowType] /\ G[d] = picked
        /\ \A e \in Devices \ {d} : G[e] = F[e]
    BY <1>2, <2>2, <2>3
  <2>5. G[a] = [F[a] EXCEPT !.deviceId = m.from, !.deviceIds = {m.from}] /\ M \subseteq M
    BY <1>5, <2>1, <2>4 DEF GoesWith
  <2>6. Asked(G, M, a) /\ Keeps(F, G)
    <3>1. /\ F[a].state # NoFlow /\ F[a].sender = TRUE /\ F[a].deviceId = NoDevice
          /\ m.from \in F[a].deviceIds /\ \A e \in Devices \ {a} : G[e] = F[e]
      BY <2>1, <2>4
    <3>2. PICK q : q = m.from
      OBVIOUS
    <3>3. q \in F[a].deviceIds /\ G[a] = [F[a] EXCEPT !.deviceId = q, !.deviceIds = {q}]
      BY <2>5, <3>1, <3>2
    <3>4. QED
      BY <1>4, <2>4, <2>5, <3>1, <3>3, PickKeeps
  <2>7. QED
    BY <1>1, <1>2, <2>1, <2>2, <2>4, <2>6 DEF ReadyTo
<1>6. CASE ~Picks(F[d], m.from)
  <2>1. picked = F[d]
    BY <1>6 DEF GoesWith
  <2>2. F[d].startSent = FALSE => d = a /\ picked.deviceId # NoDevice
    <3>1. d = a /\ F[a].deviceId = NoDevice => m.from \in F[a].deviceIds
      BY <1>2 DEF Asked, Star
    <3>2. QED
      BY <1>3, <1>6, <2>1, <3>1 DEF Picks
  <2>3. QED
    BY <1>1, <1>2, <1>4, <2>1, <2>2 DEF ReadyTo
<1>7. QED
  BY <1>5, <1>6

StartedTo(F, N, a, d, m, started, others, starts) ==
  \E G : /\ G \in [Devices -> FlowType] /\ G[d] = started
         /\ \A e \in Devices \ {d} : G[e] = F[e]
         /\ Asked(G, ((N \ {m}) \cup others) \cup starts, a) /\ Keeps(F, G)

\* And starts, unless it did.
LEMMA ReadyStartKeeps ==
  ASSUME NEW F, NEW N, NEW a, Asked(F, N, a), NEW d \in Devices,
         F[d].state # NoFlow, F[d].sender = TRUE, NEW m \in N, m.to = d,
         NEW picked, picked = GoesWith(F[d], m.from),
         NEW others,
         \A x \in others : /\ x.from = d /\ x.to \in F[d].deviceIds /\ x.kind = "cancel"
                           /\ Picks(F[d], m.from),
         F[d].startSent = FALSE,
         NEW started, started = [picked EXCEPT !.startSent = TRUE, !.canonical = d,
                                               !.state = "WaitingForOtherToAccept"],
         NEW starts, \A x \in starts : x.from = d /\ x.to \in picked.deviceIds /\ x.kind = "start"
  PROVE  StartedTo(F, N, a, d, m, started, others, starts)
<1>1. PICK M, M1 : M = (N \ {m}) \cup others /\ M1 = M \cup starts
  OBVIOUS
<1>2. PICK H : /\ H \in [Devices -> FlowType] /\ H[d] = picked
               /\ \A e \in Devices \ {d} : H[e] = F[e]
               /\ Asked(H, M, a) /\ Keeps(F, H)
               /\ d = a /\ picked.deviceId # NoDevice
  <2>1. ReadyTo(F, N, a, d, m, picked, others)
    BY ReadyKeeps
  <2>2. QED
    BY <1>1, <2>1 DEF ReadyTo
<1>3. picked.sender = TRUE /\ picked.startSent = FALSE /\ picked.state = F[d].state
  <2>1. F[d] \in FlowType
    BY DEF Asked
  <2>2. QED
    BY <2>1 DEF FlowType, GoesWith
<1>4. started = [H[d] EXCEPT !.sender = TRUE, !.startSent = TRUE, !.canonical = d,
                             !.state = "WaitingForOtherToAccept"]
      /\ started \in FlowType
  <2>1. picked \in FlowType
    BY <1>2
  <2>2. PICK x : x = [picked EXCEPT !.sender = TRUE]
    OBVIOUS
  <2>3. x = picked
    BY <1>3, <2>1, <2>2 DEF FlowType
  <2>4. started = [picked EXCEPT !.sender = TRUE, !.startSent = TRUE, !.canonical = d,
                                 !.state = "WaitingForOtherToAccept"]
    <3>1. started = [x EXCEPT !.startSent = TRUE, !.canonical = d,
                              !.state = "WaitingForOtherToAccept"]
      BY <2>3
    <3>2. QED
      BY <2>2, <3>1
  <2>5. started \in FlowType
    <3>1. d \in Ends /\ "WaitingForOtherToAccept" \in States
      BY DEF Ends, States
    <3>2. QED
      BY <2>1, <3>1 DEF FlowType
  <2>6. QED
    BY <1>2, <2>4, <2>5
<1>5. PICK G : G = [H EXCEPT ![d] = started]
  OBVIOUS
<1>6. /\ G \in [Devices -> FlowType] /\ G[d] = started
      /\ \A e \in Devices \ {d} : G[e] = H[e]
  BY <1>2, <1>4, <1>5
<1>7. Asked(G, M1, a) /\ Keeps(H, G)
  <2>1. Sends(M, M1, d, H[d].deviceIds, "start")
    BY <1>1, <1>2 DEF Sends
  <2>2. /\ H[d].state # NoFlow /\ H[d].deviceId # NoDevice /\ H[d].startSent = FALSE
        /\ d = a /\ H[d].sender = TRUE
        /\ G[d] = [H[d] EXCEPT !.sender = TRUE, !.startSent = TRUE, !.canonical = d,
                               !.state = "WaitingForOtherToAccept"]
    BY <1>2, <1>3, <1>4, <1>6
  <2>3. QED
    BY <1>2, <1>6, <2>1, <2>2, StartKeeps
<1>8. Keeps(F, G)
  BY <1>2, <1>7, KeepsOn
<1>9. QED
  BY <1>1, <1>2, <1>6, <1>7, <1>8 DEF StartedTo

\* The others of this device that did not ask fail.
LEMMA FailReceiversIs ==
  ASSUME NEW flows \in [Flows -> [Devices -> FlowType]], NEW d \in Devices,
         NEW after, after = FailReceivers(d, flows)
  PROVE  /\ after \in [Flows -> [Devices -> FlowType]]
         /\ \A f \in Flows, e \in Devices : Calmed(flows[f][e], after[f][e])
<1>1. ASSUME NEW f \in Flows
      PROVE  /\ after[f] \in [Devices -> FlowType]
             /\ \A e \in Devices : Calmed(flows[f][e], after[f][e])
  <2>1. PICK F, G : F = flows[f] /\ G = after[f]
    OBVIOUS
  <2>2. F \in [Devices -> FlowType] /\ F[d] \in FlowType
    BY <2>1
  <2>3. G = IF F[d].state # NoFlow /\ ~F[d].sender THEN [F EXCEPT ![d].state = "Failed"] ELSE F
    BY <2>1 DEF FailReceivers
  <2>4. CASE F[d].state # NoFlow /\ ~F[d].sender
    <3>1. PICK y : y = [F[d] EXCEPT !.state = "Failed"]
      OBVIOUS
    <3>2. y \in FlowType /\ Calmed(F[d], y)
      BY <2>2, <2>4, <3>1 DEF FlowType, Calmed, States, Final, NoFlow
    <3>3. G = [F EXCEPT ![d] = y]
      BY <2>3, <2>4, <3>1
    <3>4. G \in [Devices -> FlowType] /\ G[d] = y /\ \A e \in Devices \ {d} : G[e] = F[e]
      BY <2>2, <3>2, <3>3
    <3>5. \A e \in Devices : Calmed(F[e], G[e])
      <4>1. \A e \in Devices : e # d => Calmed(F[e], G[e])
        BY <3>4 DEF Calmed
      <4>2. QED
        BY <3>2, <3>4, <4>1
    <3>6. QED
      BY <2>1, <3>4, <3>5
  <2>5. CASE ~(F[d].state # NoFlow /\ ~F[d].sender)
    <3>1. G = F
      BY <2>3, <2>5
    <3>2. \A e \in Devices : Calmed(F[e], G[e])
      BY <3>1 DEF Calmed
    <3>3. QED
      BY <2>1, <2>2, <3>1, <3>2
  <2>6. QED
    BY <2>4, <2>5
<1>2. DOMAIN after = Flows /\ after = [f \in Flows |-> after[f]]
  BY DEF FailReceivers
<1>3. QED
  BY <1>1, <1>2
LEMMA FailedGoes ==
  ASSUME Typed, FlowsAsked, NEW f \in Flows, NEW d \in Devices,
         NEW flows \in [Flows -> [Devices -> FlowType]],
         \A g \in Flows : g # f => flows[g] = flow[g],
         flow' = FailReceivers(d, flows),
         \A m \in net' : MessageOK(m) /\ (m.flow # f => m \in net),
         NEW a \in Devices, Asked(flows[f], Of(f, net'), a), Keeps(flow[f], flows[f])
  PROVE  AllGo
<1>1. /\ flow' \in [Flows -> [Devices -> FlowType]]
      /\ \A g \in Flows, e \in Devices : Calmed(flows[g][e], flow'[g][e])
  BY FailReceiversIs
<1>2. ASSUME NEW g \in Flows
      PROVE  /\ \E b \in Devices : Asked(flow'[g], Of(g, net'), b)
             /\ Keeps(flow[g], flow'[g])
  <2>1. CASE g = f
    <3>1. PICK F, G, M : F = flows[f] /\ G = flow'[f] /\ M = Of(f, net')
      OBVIOUS
    <3>2. /\ Asked(F, M, a) /\ G \in [Devices -> FlowType]
          /\ \A e \in Devices : Calmed(F[e], G[e])
          /\ \A m \in M : m \in M
      BY <1>1, <3>1
    <3>3. Asked(G, M, a) /\ Keeps(F, G)
      BY <3>2, QuietKeeps
    <3>4. Keeps(flow[f], G)
      BY <3>1, <3>3, KeepsOn
    <3>5. QED
      BY <2>1, <3>1, <3>3, <3>4
  <2>2. CASE g # f
    <3>1. Of(g, net') \subseteq Of(g, net)
      BY <2>2 DEF Of
    <3>2. flow'[g] \in [Devices -> FlowType] /\ \A e \in Devices : Calmed(flow[g][e], flow'[g][e])
      BY <1>1, <2>2
    <3>3. QED
      BY <3>1, <3>2, OthersGo
  <2>3. QED
    BY <2>1, <2>2
<1>3. QED
  BY <1>1, <1>2 DEF AllGo

LEMMA ReceiveReadyGoes ==
  ASSUME Typed, FlowsAsked, NEW m \in net, ReceiveReady(m)
  PROVE  AllGo /\ UNCHANGED trust
<1>1. PICK f, d : f = m.flow /\ d = m.to
  OBVIOUS
<1>2. f \in Flows /\ d \in Devices /\ m \in Of(f, net) /\ flow \in [Flows -> [Devices -> FlowType]]
  BY <1>1, MessageIs DEF Typed
<1>3. PICK F, a : F = flow[f] /\ Before(f, d, F, a)
  BY <1>2, BeforeIs
<1>4. PICK N : N = Of(f, net)
  OBVIOUS
<1>5. Asked(F, N, a) /\ F \in [Devices -> FlowType] /\ F[d] \in FlowType /\ a \in Devices
  BY <1>2, <1>3, <1>4 DEF Before, Asked
<1>6. PICK picked, others, started, starts :
        /\ picked = GoesWith(F[d], m.from)
        /\ others = IF Picks(F[d], m.from)
                      THEN Mail(f, d, [F[d] EXCEPT !.deviceIds = @ \ {m.from}], "cancel", NoSas)
                      ELSE {}
        /\ started = [picked EXCEPT !.startSent = TRUE, !.canonical = d,
                                    !.state = "WaitingForOtherToAccept"]
        /\ starts = Mail(f, d, picked, "start", "both")
  OBVIOUS
<1>7. /\ UNCHANGED trust
      /\ \/ flow' = FailReceivers(d, flow) /\ net' = net \ {m}
         \/ /\ F[d].state # NoFlow /\ F[d].sender
            /\ flow' = FailReceivers(d, [flow EXCEPT ![f][d] = picked])
            /\ net' = (net \ {m}) \cup others
         \/ /\ F[d].state # NoFlow /\ F[d].sender /\ ~F[d].startSent
            /\ flow' = FailReceivers(d, [flow EXCEPT ![f][d] = started])
            /\ net' = ((net \ {m}) \cup others) \cup starts
  BY <1>1, <1>3, <1>6 DEF ReceiveReady, GoesWith
<1>8. \A x \in others : /\ x.flow = f /\ MessageOK(x)
                        /\ x.from = d /\ x.to \in F[d].deviceIds /\ x.kind = "cancel"
                        /\ Picks(F[d], m.from)
  <2>1. PICK y : y = [F[d] EXCEPT !.deviceIds = @ \ {m.from}]
    OBVIOUS
  <2>2. y.deviceIds \subseteq F[d].deviceIds
    BY <1>5, <2>1 DEF FlowType
  <2>3. \A x \in Mail(f, d, y, "cancel", NoSas) :
          x.flow = f /\ x.from = d /\ x.to \in y.deviceIds /\ x.kind = "cancel" /\ MessageOK(x)
    BY <1>2, MailIs
  <2>4. QED
    BY <1>6, <2>1, <2>2, <2>3
<1>9. \A x \in starts : /\ x.flow = f /\ MessageOK(x)
                        /\ x.from = d /\ x.to \in picked.deviceIds /\ x.kind = "start"
  <2>1. "both" \in Offers
    BY DEF Offers
  <2>2. QED
    BY <1>2, <1>6, <2>1, MailIs
<1>10. \A x \in net : MessageOK(x)
  BY DEF Typed
<1>11. ASSUME NEW out, \A x \in out : x.flow = f /\ MessageOK(x), net' = (net \ {m}) \cup out
       PROVE  /\ Of(f, net') = (N \ {m}) \cup out
              /\ \A x \in net' : MessageOK(x) /\ (x.flow # f => x \in net)
  <2>1. Of(f, net') = (N \ {m}) \cup out
    BY <1>4, <1>11 DEF Of
  <2>2. QED
    BY <1>10, <1>11, <2>1
<1>12. CASE flow' = FailReceivers(d, flow) /\ net' = net \ {m}
  <2>1. PICK M : M = N \ {m}
    OBVIOUS
  <2>2. \A e \in Devices : Calmed(F[e], F[e])
    BY DEF Calmed
  <2>3. \A x \in M : x \in N
    BY <2>1
  <2>4. Asked(F, M, a) /\ Keeps(F, F)
    BY <1>5, <2>2, <2>3, QuietKeeps
  <2>5. Of(f, net') = M
    BY <1>4, <1>12, <2>1 DEF Of
  <2>6. \A x \in net' : MessageOK(x) /\ (x.flow # f => x \in net)
    BY <1>10, <1>12
  <2>7. Asked(flow[f], Of(f, net'), a) /\ Keeps(flow[f], flow[f])
    BY <1>3, <2>4, <2>5
  <2>8. QED
    BY <1>2, <1>5, <1>7, <1>12, <2>6, <2>7, FailedGoes
<1>13. CASE /\ F[d].state # NoFlow /\ F[d].sender
            /\ flow' = FailReceivers(d, [flow EXCEPT ![f][d] = picked])
            /\ net' = (net \ {m}) \cup others
  <2>1. F[d].sender = TRUE /\ m \in N /\ m.to = d
    BY <1>1, <1>2, <1>4, <1>5, <1>13 DEF FlowType
  <2>2. ReadyTo(F, N, a, d, m, picked, others)
    BY <1>2, <1>5, <1>6, <1>8, <1>13, <2>1, ReadyKeeps
  <2>3. PICK G : /\ G \in [Devices -> FlowType] /\ G[d] = picked
                 /\ \A e \in Devices \ {d} : G[e] = F[e]
                 /\ Asked(G, (N \ {m}) \cup others, a) /\ Keeps(F, G)
    BY <2>2 DEF ReadyTo
  <2>4. \A x \in others : x.flow = f /\ MessageOK(x)
    BY <1>8
  <2>5. PICK flows : flows = [flow EXCEPT ![f] = G]
    OBVIOUS
  <2>6. /\ flows = [flow EXCEPT ![f][d] = picked] /\ flows[f] = G
        /\ flows \in [Flows -> [Devices -> FlowType]]
        /\ \A g \in Flows : g # f => flows[g] = flow[g]
    <3>1. G = [F EXCEPT ![d] = picked]
      BY <1>2, <1>5, <2>3
    <3>2. QED
      BY <1>2, <1>3, <2>3, <2>5, <3>1
  <2>7. flow' = FailReceivers(d, flows) /\ net' = (net \ {m}) \cup others
    BY <1>13, <2>6
  <2>8. QED
    <3>1. /\ Of(f, net') = (N \ {m}) \cup others
          /\ \A x \in net' : MessageOK(x) /\ (x.flow # f => x \in net)
      BY <1>11, <2>4, <2>7
    <3>2. Asked(flows[f], Of(f, net'), a) /\ Keeps(flow[f], flows[f])
      BY <1>3, <2>3, <2>6, <3>1
    <3>3. QED
      BY <1>2, <1>5, <1>7, <2>6, <2>7, <3>1, <3>2, FailedGoes
<1>14. CASE /\ F[d].state # NoFlow /\ F[d].sender /\ ~F[d].startSent
            /\ flow' = FailReceivers(d, [flow EXCEPT ![f][d] = started])
            /\ net' = ((net \ {m}) \cup others) \cup starts
  <2>1. F[d].sender = TRUE /\ F[d].startSent = FALSE /\ m \in N /\ m.to = d
    BY <1>1, <1>2, <1>4, <1>5, <1>14 DEF FlowType
  <2>2. StartedTo(F, N, a, d, m, started, others, starts)
    <3>1. /\ Asked(F, N, a) /\ d \in Devices /\ F[d].state # NoFlow
          /\ picked = GoesWith(F[d], m.from)
          /\ started = [picked EXCEPT !.startSent = TRUE, !.canonical = d,
                                      !.state = "WaitingForOtherToAccept"]
      BY <1>2, <1>5, <1>6, <1>14
    <3>2. /\ \A x \in others : /\ x.from = d /\ x.to \in F[d].deviceIds /\ x.kind = "cancel"
                             /\ Picks(F[d], m.from)
          /\ \A x \in starts : x.from = d /\ x.to \in picked.deviceIds /\ x.kind = "start"
      BY <1>8, <1>9
    <3>3. QED
      BY <2>1, <3>1, <3>2, ReadyStartKeeps
  <2>3. PICK out : out = others \cup starts
    OBVIOUS
  <2>4. (N \ {m}) \cup out = ((N \ {m}) \cup others) \cup starts /\ net' = (net \ {m}) \cup out
    BY <1>14, <2>3
  <2>5. PICK G : /\ G \in [Devices -> FlowType] /\ G[d] = started
                 /\ \A e \in Devices \ {d} : G[e] = F[e]
                 /\ Asked(G, (N \ {m}) \cup out, a) /\ Keeps(F, G)
    BY <2>2, <2>4 DEF StartedTo
  <2>6. \A x \in out : x.flow = f /\ MessageOK(x)
    BY <1>8, <1>9, <2>3
  <2>7. PICK flows : flows = [flow EXCEPT ![f] = G]
    OBVIOUS
  <2>8. /\ flows = [flow EXCEPT ![f][d] = started] /\ flows[f] = G
        /\ flows \in [Flows -> [Devices -> FlowType]]
        /\ \A g \in Flows : g # f => flows[g] = flow[g]
    <3>1. G = [F EXCEPT ![d] = started]
      BY <1>2, <1>5, <2>5
    <3>2. QED
      BY <1>2, <1>3, <2>5, <2>7, <3>1
  <2>9. flow' = FailReceivers(d, flows)
    BY <1>14, <2>8
  <2>10. QED
    <3>1. /\ Of(f, net') = (N \ {m}) \cup out
          /\ \A x \in net' : MessageOK(x) /\ (x.flow # f => x \in net)
      BY <1>11, <2>4, <2>6
    <3>2. Asked(flows[f], Of(f, net'), a) /\ Keeps(flow[f], flows[f])
      BY <1>3, <2>5, <2>8, <3>1
    <3>3. QED
      BY <1>2, <1>5, <1>7, <2>8, <2>9, <3>1, <3>2, FailedGoes
<1>15. QED
  BY <1>7, <1>12, <1>13, <1>14
LEMMA NextGoes ==
  ASSUME Typed, FlowsAsked, Next
  PROVE  /\ AllGo /\ UNCHANGED env
         /\ UNCHANGED trust \/ \E f \in Flows : Trusts(f)
<1>1. UNCHANGED env
  BY DEF Next
<1>2. ASSUME NEW f \in Flows, Goes(f) /\ Trusts(f)
      PROVE  AllGo /\ (UNCHANGED trust \/ \E g \in Flows : Trusts(g))
  BY <1>2, GoesIsAllGo
<1>3. ASSUME NEW f \in Flows, NEW d \in Devices,
             \/ Initiate(f, d) \/ User(f, d) \/ Timeout(f, d)
             \/ \E o \in env.offers : OtherStart(f, d, o)
      PROVE  Goes(f) /\ Trusts(f)
  <2>1. CASE Initiate(f, d)
    BY <2>1, InitiateGoes
  <2>2. CASE SendRequest(f, d) \/ SendReady(f, d) \/ Cancel(f, d) \/ Timeout(f, d)
    BY <2>2, AskingGoes
  <2>3. CASE AcceptLegacy(f, d)
    BY <2>3, AcceptLegacyGoes
  <2>4. CASE ConfirmSas(f, d)
    BY <2>4, ConfirmSasGoes
  <2>5. CASE \E o \in env.offers : OtherStart(f, d, o)
    BY <2>5, OtherStartGoes
  <2>6. QED
    BY <1>3, <2>1, <2>2, <2>3, <2>4, <2>5 DEF User
<1>4. ASSUME NEW m \in net, Receive(m)
      PROVE  AllGo /\ (UNCHANGED trust \/ \E g \in Flows : Trusts(g))
  <2>1. m.flow \in Flows
    BY MessageIs
  <2>2. CASE ReceiveReady(m)
    BY <2>2, ReceiveReadyGoes
  <2>3. CASE Ignore(m) \/ ReceiveDone(m)
    BY <2>3, DroppedGoes
  <2>4. CASE ReceiveRequest(m)
    BY <1>2, <2>1, <2>4, ReceiveRequestGoes
  <2>5. CASE ReceiveStart(m)
    BY <1>2, <2>1, <2>5, ReceiveStartGoes
  <2>6. CASE flow[m.flow][m.to].state # NoFlow /\ ReceiveAccept(m)
    BY <1>2, <2>1, <2>6, ReceiveAcceptGoes
  <2>7. CASE flow[m.flow][m.to].state # NoFlow /\ ReceiveKey(m)
    BY <1>2, <2>1, <2>7, ReceiveKeyGoes
  <2>8. CASE flow[m.flow][m.to].state # NoFlow /\ ReceiveMac(m)
    BY <1>2, <2>1, <2>8, ReceiveMacGoes
  <2>9. CASE flow[m.flow][m.to].state # NoFlow /\ ReceiveCancel(m)
    BY <1>2, <2>1, <2>9, ReceiveCancelGoes
  <2>10. QED
    BY <1>4, <2>2, <2>3, <2>4, <2>5, <2>6, <2>7, <2>8, <2>9 DEF Receive
<1>5. QED
  BY <1>1, <1>2, <1>3, <1>4 DEF Next

\* The environment stays, and with it what a flow may be.
LEMMA SameEnvironment ==
  ASSUME UNCHANGED env, AllGo, Typed,
         verified' \in [Devices -> SUBSET Devices], signed' \in [Devices -> SUBSET Devices]
  PROVE  (Typed /\ FlowsAsked)'
<1>1. /\ Methods' = Methods /\ Offers' = Offers /\ OneAsked' = OneAsked /\ OnlyOnes' = OnlyOnes
  BY DEF Methods, Offers, OneAsked, OnlyOnes
<1>2. FlowType' = FlowType /\ AcceptType' = AcceptType
  BY <1>1 DEF FlowType, AcceptType, Sas
<1>3. Typed'
  BY <1>1, <1>2 DEF Typed, AllGo, MessageOK
<1>4. ASSUME NEW f \in Flows, NEW a \in Devices, Asked(flow'[f], Of(f, net'), a)
      PROVE  Asked(flow[f], Of(f, net), a)'
  BY <1>1, <1>2, <1>4 DEF Asked, Alone
<1>5. FlowsAsked'
  BY <1>4 DEF FlowsAsked, AllGo
<1>6. QED
  BY <1>3, <1>5

LEMMA StepKeepsIInv ==
  ASSUME IInv, [Next]_vars
  PROVE  IInv'
<1>1. CASE Next
  <2>1. /\ AllGo /\ UNCHANGED env
        /\ UNCHANGED trust \/ \E f \in Flows : Trusts(f)
    BY <1>1, NextGoes DEF IInv
  <2>2. verified' \in [Devices -> SUBSET Devices] /\ signed' \in [Devices -> SUBSET Devices]
    BY <2>1 DEF IInv, Typed, Trusts, Marks, Signs, trust
  <2>3. Typed' /\ FlowsAsked'
    BY <2>1, <2>2, SameEnvironment DEF IInv
  <2>4. ASSUME NEW d \in Devices, NEW p \in verified'[d]
        PROVE  \E f \in Flows : flow'[f][d].macSent /\ flow'[f][p].macSent /\ flow'[f][d].deviceId = p
    <3>1. CASE p \in verified[d]
      <4>1. PICK f \in Flows : flow[f][d].macSent /\ flow[f][p].macSent /\ flow[f][d].deviceId = p
        BY <3>1 DEF IInv, Trusted, Marked
      <4>2. p \in Devices /\ p # NoDevice
        BY <3>1, DevicesOK DEF IInv, Typed
      <4>3. Keeps(flow[f], flow'[f])
        BY <2>1 DEF AllGo
      <4>4. QED
        BY <4>1, <4>2, <4>3 DEF Keeps
    <3>2. CASE p \notin verified[d]
      <4>1. PICK f \in Flows : Marks(f)
        BY <2>1, <3>2 DEF Trusts, trust
      <4>2. PICK e \in Devices, q \in Devices :
              /\ verified' = [verified EXCEPT ![e] = @ \cup {q}]
              /\ flow'[f][e].macSent /\ flow'[f][q].macSent /\ flow'[f][e].deviceId = q
        BY <3>2, <4>1 DEF Marks
      <4>3. e = d /\ q = p
        BY <3>2, <4>2 DEF IInv, Typed
      <4>4. QED
        BY <4>2, <4>3
    <3>3. QED
      BY <3>1, <3>2
  <2>5. ASSUME NEW d \in Devices, NEW p \in signed'[d]
        PROVE  \E f \in Flows : flow'[f][p].macSent /\ flow'[f][p].deviceId = d
    <3>1. CASE p \in signed[d]
      <4>1. PICK f \in Flows : flow[f][p].macSent /\ flow[f][p].deviceId = d
        BY <3>1 DEF IInv, Trusted, Signed
      <4>2. p \in Devices /\ d # NoDevice
        BY <3>1, DevicesOK DEF IInv, Typed
      <4>3. Keeps(flow[f], flow'[f])
        BY <2>1 DEF AllGo
      <4>4. QED
        BY <4>1, <4>2, <4>3 DEF Keeps
    <3>2. CASE p \notin signed[d]
      <4>1. PICK f \in Flows : Signs(f)
        BY <2>1, <3>2 DEF Trusts, trust
      <4>2. PICK e \in Devices, q \in Devices :
              /\ signed' = [signed EXCEPT ![e] = @ \cup {q}]
              /\ flow'[f][q].macSent /\ flow'[f][q].deviceId = e
        BY <3>2, <4>1 DEF Signs
      <4>3. e = d /\ q = p
        BY <3>2, <4>2 DEF IInv, Typed
      <4>4. QED
        BY <4>2, <4>3
    <3>3. QED
      BY <3>1, <3>2
  <2>6. QED
    BY <2>3, <2>4, <2>5 DEF IInv, Trusted, Marked, Signed
<1>2. CASE UNCHANGED vars
  <2>1. /\ flow' = flow /\ net' = net /\ UNCHANGED <<verified, signed, env>>
    BY <1>2 DEF vars, trust
  <2>2. AllGo
    BY <2>1 DEF IInv, Typed, FlowsAsked, AllGo, Keeps
  <2>3. Typed' /\ FlowsAsked'
    BY <2>1, <2>2, SameEnvironment DEF IInv, Typed
  <2>4. Trusted'
    BY <2>1 DEF IInv, Trusted, Marked, Signed
  <2>5. QED
    BY <2>3, <2>4 DEF IInv
<1>3. QED
  BY <1>1, <1>2

\* Nobody has asked.
LEMMA AbsentAsked ==
  ASSUME NEW a \in Devices, NEW F \in [Devices -> FlowType], \A d \in Devices : F[d] = Absent,
         NEW N, N = {}
  PROVE  Asked(F, N, a)
<1>1. /\ NoFlow # "WaitingForMac" /\ NoDevice \notin Devices
      /\ \A d \in Devices :
           /\ F[d].state = NoFlow /\ F[d].deviceId = NoDevice /\ F[d].deviceIds = {}
           /\ F[d].canonical = NoDevice /\ F[d].sas = NoSas /\ F[d].sender = FALSE
           /\ F[d].macVerified = FALSE /\ F[d].keySent = FALSE /\ F[d].macSent = FALSE
           /\ F[d].acceptSent = FALSE /\ F[d].startSent = FALSE
  BY AbsentFields, DevicesOK DEF NoFlow
<1>2. Star(F, a) /\ Lines(F, N, a) /\ Unpicked(F, a) /\ Begun(F)
  BY <1>1 DEF Star, Lines, Unpicked, Begun
<1>3. Picked(F, a)
  BY <1>1 DEF Picked, PickedOf
<1>4. Once(F, N) /\ Confirmed(F) /\ Roles(F)
  BY <1>1 DEF Once, OnceOf, Confirmed, ConfirmedOf, Roles, RoleOf
<1>5. Alone(F, N, a)
  BY <1>1 DEF Alone
<1>6. QED
  BY <1>2, <1>3, <1>4, <1>5 DEF Asked

LEMMA InitIsIInv ==
  ASSUME Init
  PROVE  IInv
<1>1. /\ flow = [f \in Flows |-> [d \in Devices |-> Absent]] /\ net = {}
      /\ verified = [d \in Devices |-> {}] /\ signed = [d \in Devices |-> {}]
      /\ env \in Scenarios
  BY DEF Init
<1>2. Typed /\ Trusted
  BY <1>1, NewFlowIs DEF Typed, Trusted, Marked, Signed
<1>3. FlowsAsked
  <2>1. PICK a : a \in Devices
    BY DevicesOK
  <2>2. ASSUME NEW f \in Flows
        PROVE  Asked(flow[f], Of(f, net), a)
    <3>1. /\ flow[f] \in [Devices -> FlowType] /\ \A d \in Devices : flow[f][d] = Absent
          /\ Of(f, net) = {}
      BY <1>1, <1>2 DEF Typed, Of
    <3>2. QED
      BY <2>1, <3>1, AbsentAsked
  <2>3. QED
    BY <2>1, <2>2 DEF FlowsAsked
<1>4. QED
  BY <1>2, <1>3 DEF IInv

\* Every flow is always one that some device asked for (FlowsAsked), and who is
\* marked verified or signed has confirmed in one of them: the inductive
\* invariant, for any devices, flows and scenarios.
THEOREM FlowsInvariance == Spec => []IInv
<1>1. Init => IInv
  BY InitIsIInv
<1>2. IInv /\ [Next]_vars => IInv'
  BY StepKeepsIInv
<1>3. QED
  BY <1>1, <1>2, PTL DEF Spec

------------------------------------------------------------------------------
(* The properties.                                                            *)

\* Every field of a flow stays in its range, whoever runs another program.
THEOREM FlowsTyped == Spec => []TypeOK
<1>1. IInv => TypeOK
  <2>1. SUFFICES ASSUME IInv PROVE TypeOK
    OBVIOUS
  <2>2. ASSUME NEW f \in Flows, NEW d \in Devices
        PROVE  LET fl == flow[f][d]
               IN  /\ fl.state \in States \cup {NoFlow}
                   /\ {fl.sender, fl.macVerified, fl.keySent, fl.macSent, fl.acceptSent,
                       fl.startSent, fl.timer} \subseteq BOOLEAN
                   /\ fl.deviceIds \subseteq Devices \ {d}
                   /\ {fl.deviceId, fl.canonical} \subseteq Devices \cup {NoDevice}
                   /\ fl.method \in {"emoji", "decimal"}
    <3>1. PICK F, N, a : F = flow[f] /\ N = Of(f, net) /\ a \in Devices /\ Asked(F, N, a)
      BY <2>1 DEF IInv, FlowsAsked
    <3>2. F[d] \in FlowType
      BY <3>1 DEF Asked
    <3>3. F[d].deviceIds \subseteq Devices \ {d}
      <4>1. CASE d = a
        BY <3>1, <4>1 DEF Asked, Star
      <4>2. CASE d # a /\ F[d].state # NoFlow
        BY <3>1, <4>2 DEF Asked, Star
      <4>3. CASE F[d].state = NoFlow
        BY <3>1, <4>3, AbsentFields DEF Asked, Star
      <4>4. QED
        BY <4>1, <4>2, <4>3
    <3>4. F[d].method \in {"emoji", "decimal"}
      BY <3>2 DEF FlowType, Methods
    <3>5. QED
      BY <3>1, <3>2, <3>3, <3>4 DEF FlowType, Ends
  <2>3. \A m \in net : m.flow \in Flows /\ m.from \in Devices /\ m.to \in Devices \ {m.from}
    <3>1. ASSUME NEW m \in net
          PROVE  m.flow \in Flows /\ m.from \in Devices /\ m.to \in Devices \ {m.from}
      <4>1. m.flow \in Flows /\ m \in Of(m.flow, net)
        BY <2>1, MessageIs DEF IInv
      <4>2. PICK a \in Devices : Asked(flow[m.flow], Of(m.flow, net), a)
        BY <2>1, <4>1 DEF IInv, FlowsAsked
      <4>3. QED
        BY <4>1, <4>2 DEF Asked, Lines
    <3>2. QED
      BY <3>1
  <2>4. verified \in [Devices -> SUBSET Devices] /\ signed \in [Devices -> SUBSET Devices]
    BY <2>1 DEF IInv, Typed
  <2>5. QED
    BY <2>2, <2>3, <2>4 DEF TypeOK
<1>2. QED
  BY <1>1, FlowsInvariance, PTL

\* A device is marked verified only after the users at both ends confirmed the
\* same SAS in one flow, and its key is signed only after the user at its end
\* confirmed the SAS that both show, whatever is lost, overtakes or crosses,
\* although the MAC handler looks at neither state nor order and signs at once.
THEOREM NoTrustWithoutConsent == Spec => []TrustNeedsConsent
<1>1. IInv => TrustNeedsConsent
  <2>1. SUFFICES ASSUME IInv PROVE TrustNeedsConsent
    OBVIOUS
  <2>2. ASSUME NEW d \in Devices, NEW p \in verified[d]
        PROVE  \E f \in Flows : /\ flow[f][d].macSent /\ flow[f][p].macSent
                                /\ SameSas(f, d, p)
    <3>1. PICK f \in Flows : flow[f][d].macSent /\ flow[f][p].macSent /\ flow[f][d].deviceId = p
      BY <2>1, <2>2 DEF IInv, Trusted, Marked
    <3>2. PICK a \in Devices : Asked(flow[f], Of(f, net), a)
      BY <2>1 DEF IInv, FlowsAsked
    <3>3. Same(flow[f], d, p)
      BY <3>1, <3>2 DEF Asked, Confirmed, ConfirmedOf
    <3>4. QED
      BY <3>1, <3>3 DEF Same, SameSas
  <2>3. ASSUME NEW d \in Devices, NEW p \in signed[d]
        PROVE  \E f \in Flows : flow[f][p].macSent /\ SameSas(f, d, p)
    <3>1. PICK f \in Flows : flow[f][p].macSent /\ flow[f][p].deviceId = d
      BY <2>1, <2>3 DEF IInv, Trusted, Signed
    <3>2. PICK a \in Devices : Asked(flow[f], Of(f, net), a)
      BY <2>1 DEF IInv, FlowsAsked
    <3>3. p \in Devices
      BY <2>1, <2>3 DEF IInv, Typed
    <3>4. Same(flow[f], p, d)
      BY <3>1, <3>2, <3>3 DEF Asked, Confirmed, ConfirmedOf
    <3>5. QED
      BY <3>1, <3>4 DEF Same, SameSas
  <2>4. QED
    BY <2>2, <2>3 DEF TrustNeedsConsent
<1>2. QED
  BY <1>1, FlowsInvariance, PTL

\* A request ends in a comparison with one device, whoever answers first, if
\* all run this program or one device is asked at a time: a flow that picked
\* its device goes on with any other that sends a start.
THEOREM OneAnswerIsCompared == Spec => [](OneAsked => OneResponder)
<1>1. IInv => (OneAsked => OneResponder)
  <2>1. SUFFICES ASSUME IInv, OneAsked, NEW f \in Flows
                 PROVE  Cardinality({d \in Devices : flow[f][d].sas # NoSas}) <= 2
    BY DEF OneResponder
  <2>2. PICK F, N, a : F = flow[f] /\ N = Of(f, net) /\ a \in Devices /\ Asked(F, N, a)
    BY <2>1 DEF IInv, FlowsAsked
  <2>3. PICK S : S = {d \in Devices : F[d].sas # NoSas}
    OBVIOUS
  <2>4. \E q \in Devices : S \subseteq {a, q}
    <3>1. ASSUME NEW q \in S, q # a
          PROVE  F[a].deviceId = q
      <4>1. q \in Devices /\ F[q].sas # NoSas
        BY <2>3
      <4>2. F[q].state # NoFlow
        BY <2>2, <4>1, AbsentFields DEF Asked, Star
      <4>3. F[a].state # NoFlow
        BY <2>2, <3>1, <4>1, <4>2 DEF Asked, Star
      <4>4. F[a].deviceId \in {NoDevice, q}
        BY <2>2, <3>1, <4>1 DEF Asked, Picked, PickedOf
      <4>5. F[a].deviceId # NoDevice
        BY <2>1, <2>2, <3>1, <4>1, <4>3 DEF Asked, Unpicked, Alone
      <4>6. QED
        BY <4>4, <4>5
    <3>2. CASE F[a].deviceId \in Devices
      BY <3>1, <3>2
    <3>3. CASE F[a].deviceId \notin Devices
      BY <2>2, <2>3, <3>1, <3>3
    <3>4. QED
      BY <3>2, <3>3
  <2>5. PICK q \in Devices : S \subseteq {a, q}
    BY <2>4
  <2>6. IsFiniteSet({a, q}) /\ Cardinality({a, q}) <= 2
    <3>1. IsFiniteSet({a}) /\ Cardinality({a}) = 1
      BY FS_Singleton
    <3>2. {a, q} = {a} \cup {q}
      OBVIOUS
    <3>3. /\ IsFiniteSet({a} \cup {q})
          /\ Cardinality({a} \cup {q}) = IF q \in {a} THEN 1 ELSE 2
      BY <3>1, FS_AddElement
    <3>4. QED
      BY <3>2, <3>3
  <2>7. Cardinality(S) <= 2
    BY <2>5, <2>6, FS_Subset, FS_CardinalityType
  <2>8. QED
    BY <2>2, <2>3, <2>7
<1>2. QED
  BY <1>1, FlowsInvariance, PTL

\* Both ends show the same SAS if numbers are never offered: with one device
\* asked at a time, or this program at every end, start messages that cross
\* and messages out of order never split the roles.
THEOREM BothShowTheSame ==
  Spec => [](OneAsked /\ "decimal" \notin env.offers => SasAgreement)
<1>1. IInv => (OneAsked /\ "decimal" \notin env.offers => SasAgreement)
  <2>1. SUFFICES ASSUME IInv, OneAsked, "decimal" \notin env.offers,
                        NEW f \in Flows, NEW d \in Devices, NEW p \in Devices,
                        flow[f][d].sas # NoSas, flow[f][d].deviceId = p,
                        flow[f][p].sas # NoSas, flow[f][p].deviceId = d
                 PROVE  flow[f][d].sas = flow[f][p].sas
    BY DEF SasAgreement
  <2>2. PICK F, N, a : F = flow[f] /\ N = Of(f, net) /\ a \in Devices /\ Asked(F, N, a)
    BY <2>1 DEF IInv, FlowsAsked
  <2>3. /\ F[d].deviceId = p /\ F[d].sas # NoSas /\ RoleOf(F, d) /\ F[d] \in FlowType
        /\ F[p].deviceId = d /\ F[p].sas # NoSas /\ RoleOf(F, p) /\ F[p] \in FlowType
    BY <2>1, <2>2 DEF Asked, Roles
  <2>4. F[d].sas[4] = "emoji" /\ F[p].sas[4] = "emoji"
    BY <2>1, <2>3 DEF FlowType, Sas, Methods
  <2>5. F[d].acceptSent # F[p].acceptSent
    <3>1. F[d].acceptSent \/ F[p].acceptSent
      BY <2>3 DEF RoleOf
    <3>2. ~(F[d].acceptSent /\ F[p].acceptSent)
      <4>1. SUFFICES ASSUME F[d].acceptSent, F[p].acceptSent PROVE FALSE
        OBVIOUS
      <4>2. F[d].startSent /\ F[p].startSent
        BY <2>3, <4>1 DEF RoleOf
      <4>3. Rank[p] < Rank[d] /\ Rank[d] < Rank[p]
        BY <2>3, <4>1, <4>2 DEF RoleOf
      <4>4. Rank[p] \in Nat /\ Rank[d] \in Nat
        BY DevicesOK
      <4>5. QED
        BY <4>3, <4>4
    <3>3. F[d].acceptSent \in BOOLEAN /\ F[p].acceptSent \in BOOLEAN
      BY <2>3 DEF FlowType
    <3>4. QED
      BY <3>1, <3>2, <3>3
  <2>6. F[d].sas = F[p].sas
    <3>1. /\ F[d].sas = SasFor(d, p, F[d].acceptSent, "emoji")
          /\ F[p].sas = SasFor(p, d, F[p].acceptSent, "emoji")
      BY <2>3, <2>4 DEF RoleOf
    <3>2. F[d].acceptSent \in BOOLEAN /\ F[p].acceptSent \in BOOLEAN /\ {d, p} = {p, d}
      BY <2>3 DEF FlowType
    <3>3. QED
      BY <2>5, <3>1, <3>2 DEF SasFor
  <2>7. QED
    BY <2>2, <2>6
<1>2. QED
  BY <1>1, FlowsInvariance, PTL

=============================================================================
