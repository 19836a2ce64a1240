--------------------------- MODULE RoomKeysProofs ---------------------------
(***************************************************************************)
(* The ratchet and the list beside it, for any users, devices, periods and *)
(* scenarios: encrypt_group_message and messageSent never use an index     *)
(* twice, and who was meant to read a message is noted.                    *)
(***************************************************************************)
EXTENDS RoomKeys, Integers, TLAPS

Sent == [session : Sessions, index : Nat, to : SUBSET Devices, state : {"done", "waits", "again"}]

\* The types that sessions, lists and messages need.
SessionTypeOK ==
  /\ outbound \in 0 .. MaxSessions
  /\ number \in [Sessions -> Nat]
  /\ DOMAIN users = Sessions /\ DOMAIN given = Sessions
  /\ known \in [Users -> (SUBSET Devices) \cup {NoKeys}]
  /\ members \subseteq Users
  /\ doing \in {"nothing", "share", "encrypt", "queue", "replace"}
  /\ Others(listed) \subseteq Devices
  /\ sent \in Seq(Sent)

\* Nobody uses a session that is not there yet; the one in use has an index left.
RatchetInv ==
  /\ \A s \in Sessions : s > outbound => number[s] = 0
  /\ \A m \in Messages : m.session <= outbound /\ m.index < number[m.session]
  /\ doing # "nothing" => outbound # 0
  /\ doing \in {"share", "encrypt"} => number[outbound] < Period
  /\ doing = "queue" => number[outbound] <= Period
  /\ doing \in {"queue", "replace"} =>
       /\ number[outbound] > 0
       /\ \A m \in Messages : m.session = outbound => m.index < number[outbound] - 1
  /\ \A m \in Messages : Again(m) \/ m.index < Period
  /\ \A i, j \in DOMAIN sent :
       i # j => sent[i].session # sent[j].session \/ sent[i].index # sent[j].index

\* Whom the message under way is meant for is noted, or about to be; whom the
\* last one was meant for is noted in the session that messageSent would use.
NotedInv ==
  /\ \A s \in Sessions : \A d \in DOMAIN given[s] : given[s][d] \in 0 .. number[s]
  /\ doing \in {"share", "encrypt"} =>
       Others(listed) \subseteq DOMAIN given[outbound] \cup UNION {targets[u] : u \in DOMAIN targets}
  /\ doing = "queue" => Others(listed) \subseteq DOMAIN given[outbound]
  /\ doing \in {"nothing", "replace"} /\ ~May("crash") => LastTo \subseteq DOMAIN given[outbound]
  /\ RequestsRecover

IInv == SessionTypeOK /\ RatchetInv /\ NotedInv

------------------------------------------------------------------------------

LEMMA InitIInv == Init => IInv
<1> SUFFICES ASSUME Init PROVE IInv
  OBVIOUS
<1>1. /\ outbound = 0 /\ doing = "nothing" /\ listed = <<>> /\ sent = <<>>
      /\ number = [s \in Sessions |-> 0] /\ users = [s \in Sessions |-> {}]
      /\ given = [s \in Sessions |-> <<>>]
      /\ known \in [Users -> (SUBSET Devices) \cup {NoKeys}] /\ members \subseteq Users
  BY DEF Init
<1>2. Period \in Nat /\ MaxSessions \in Nat
  BY RoomKeysOK
<1>3. Others(listed) = {}
  BY <1>1 DEF Others
<1>4. Messages = {} /\ DOMAIN sent = {} /\ sent \in Seq(Sent)
  BY <1>1 DEF Messages
<1>5. SessionTypeOK
  BY <1>1, <1>2, <1>3, <1>4 DEF SessionTypeOK
<1>6. RatchetInv
  BY <1>1, <1>4 DEF RatchetInv
<1>7. NotedInv
  <2>1. \A s \in Sessions : \A d \in DOMAIN given[s] : given[s][d] \in 0 .. number[s]
    BY <1>1
  <2>2. LastTo = {}
    BY <1>1 DEF LastTo
  <2>3. QED
    BY <1>1, <1>4, <2>1, <2>2 DEF NotedInv, RequestsRecover
<1>8. QED
  BY <1>5, <1>6, <1>7 DEF IInv

\* Steps that touch neither sessions nor messages.
Elsewhere == UNCHANGED <<outbound, number, users, given, doing, listed, targets, sent, env>>

LEMMA ElsewhereKeeps ==
  ASSUME IInv, Elsewhere, known' \in [Users -> (SUBSET Devices) \cup {NoKeys}], members' \subseteq Users
  PROVE  IInv'
<1>1. SessionTypeOK'
  BY DEF IInv, SessionTypeOK, Elsewhere, Others, Sent, Sessions
<1>2. RatchetInv'
  BY DEF IInv, RatchetInv, Again, Elsewhere, Messages, Sessions
<1>3. NotedInv'
  BY DEF IInv, NotedInv, RequestsRecover, Elsewhere, Messages, Sessions, Others, LastTo, May, Again
<1>4. QED
  BY <1>1, <1>2, <1>3 DEF IInv

LEMMA ListedAreDevices == IInv => Others(MembersWithKeys) \subseteq Devices
<1> SUFFICES ASSUME IInv, NEW d \in Others(MembersWithKeys) PROVE d \in Devices
  OBVIOUS
<1>1. PICK u \in DOMAIN MembersWithKeys : d \in MembersWithKeys[u]
  BY DEF Others
<1>2. u \in members /\ d \in ListOf(u)
  BY <1>1 DEF MembersWithKeys
<1>3. known[u] \in (SUBSET Devices) \cup {NoKeys} /\ known[u] # NoKeys /\ d \in known[u]
  BY <1>2 DEF IInv, SessionTypeOK, ListOf
<1>4. QED
  BY <1>3

\* A session that fits has an index left; whoever is listed has it or is sent it.
LEMMA UseStep == ASSUME IInv, Prepare, Use(listed') PROVE IInv'
<1>1. /\ outbound # 0 /\ doing = "nothing" /\ doing' = "share" /\ number[outbound] < Period
      /\ listed' = MembersWithKeys /\ targets' = NewIn(outbound, listed')
      /\ UNCHANGED <<outbound, number, users, given, known, members, sent, env>>
  BY DEF Prepare, Use, Fits
<1>2. SessionTypeOK'
  <2>1. Others(listed') \subseteq Devices
    BY <1>1, ListedAreDevices
  <2>2. QED
    BY <1>1, <2>1 DEF IInv, SessionTypeOK, Others, Sent, Sessions
<1>3. RatchetInv'
  BY <1>1 DEF IInv, RatchetInv, Again, Messages, Sessions
<1>4. Others(listed') \subseteq DOMAIN given[outbound] \cup UNION {targets'[u] : u \in DOMAIN targets'}
  <2> DEFINE m == listed'
             fresh(u) == m[u] \ ({Own} \cup DOMAIN given[outbound])
  <2> SUFFICES ASSUME NEW d \in Others(m), d \notin DOMAIN given[outbound]
               PROVE  \E u \in DOMAIN targets' : d \in targets'[u]
    OBVIOUS
  <2>1. PICK u \in DOMAIN m : d \in m[u] /\ d # Own
    BY DEF Others
  <2>2. d \in fresh(u)
    BY <2>1
  <2>3. targets' = [v \in {w \in DOMAIN m : w \notin users[outbound] \/ fresh(w) # {}} |-> fresh(v)]
    BY <1>1 DEF NewIn
  <2>4. QED
    BY <2>2, <2>3
<1>5. NotedInv'
  BY <1>1, <1>4 DEF IInv, NotedInv, RequestsRecover, Again, May, LastTo, Messages, Sessions, Others
<1>6. QED
  BY <1>2, <1>3, <1>5 DEF IInv

\* A new session starts at index 0, with everybody who is listed noted.
LEMMA CreateStep == ASSUME IInv, Prepare, Create(listed') PROVE IInv'
<1>1. /\ doing = "nothing" /\ doing' = "share" /\ listed' = MembersWithKeys
      /\ outbound < MaxSessions /\ outbound' = outbound + 1
      /\ users' = [users EXCEPT ![outbound'] = DOMAIN listed']
      /\ given' = [given EXCEPT ![outbound'] = [d \in Others(listed') |-> 0]]
      /\ UNCHANGED <<number, known, members, sent, env>>
  BY DEF Prepare, Create
<1>2. /\ outbound \in 0 .. MaxSessions /\ MaxSessions \in Nat /\ Period \in Nat \ {0}
      /\ DOMAIN given = Sessions /\ DOMAIN users = Sessions
      /\ number \in [Sessions -> Nat] /\ sent \in Seq(Sent)
  BY RoomKeysOK DEF IInv, SessionTypeOK
<1>3. outbound' \in Sessions /\ outbound' \in 0 .. MaxSessions /\ outbound' # 0
  BY <1>1, <1>2 DEF Sessions
<1>4. SessionTypeOK'
  <2>1. Others(listed') \subseteq Devices
    BY <1>1, ListedAreDevices
  <2>2. QED
    BY <1>1, <1>2, <1>3, <2>1 DEF IInv, SessionTypeOK, Others, Sent, Sessions
<1>5. number[outbound'] = 0
  BY <1>1, <1>2, <1>3 DEF IInv, RatchetInv
<1>6. \A m \in Messages : m.session <= outbound /\ m.session # outbound' /\ m.session \in Sessions
  <2>1. SUFFICES ASSUME NEW m \in Messages
                 PROVE  m.session <= outbound /\ m.session # outbound' /\ m.session \in Sessions
    OBVIOUS
  <2>2. m \in Sent
    BY <1>2 DEF Messages
  <2>3. m.session \in Sessions /\ m.session <= outbound
    BY <2>2 DEF Sent, IInv, RatchetInv
  <2>4. QED
    BY <1>1, <1>2, <2>3 DEF Sessions
<1>7. RatchetInv'
  <2>1. \A s \in Sessions : s > outbound' => number[s] = 0
    BY <1>1, <1>2 DEF IInv, RatchetInv, Sessions
  <2>2. \A m \in Messages : m.session <= outbound' /\ m.index < number[m.session]
    BY <1>1, <1>2, <1>6 DEF IInv, RatchetInv, Sessions
  <2>3. QED
    BY <1>1, <1>2, <1>3, <1>5, <2>1, <2>2 DEF IInv, RatchetInv, Again, Messages, Sessions
<1>8. /\ given'[outbound'] = [d \in Others(listed') |-> 0]
      /\ \A s \in Sessions : s # outbound' => given'[s] = given[s]
  BY <1>1, <1>2, <1>3
<1>9. NotedInv'
  <2>1. \A s \in Sessions : \A d \in DOMAIN given'[s] : given'[s][d] \in 0 .. number[s]
    BY <1>5, <1>8 DEF IInv, NotedInv
  <2>2. \A m \in Messages : ~(Again(m) /\ May("crash")) => \A d \in m.to :
          d \in DOMAIN given'[m.session] /\ given'[m.session][d] <= m.index + 1
    BY <1>6, <1>8 DEF IInv, NotedInv, RequestsRecover
  <2>3. Others(listed') = DOMAIN given'[outbound']
    BY <1>8
  <2>4. QED
    BY <1>1, <2>1, <2>2, <2>3 DEF NotedInv, RequestsRecover, Again, May, LastTo, Messages, Sessions, Others
<1>10. QED
  BY <1>4, <1>7, <1>9 DEF IInv

LEMMA PrepareStep == ASSUME IInv, Prepare PROVE IInv'
<1>1. Use(listed') \/ Create(listed')
  BY DEF Prepare
<1>2. QED
  BY <1>1, UseStep, CreateStep

LEMMA ShareStep == ASSUME IInv, Share PROVE IInv'
<1>1. /\ doing = "share" /\ doing' = "encrypt"
      /\ UNCHANGED <<outbound, number, users, given, known, listed, targets, members, sent, env>>
  BY DEF Share, disk
<1>2. SessionTypeOK'
  BY <1>1 DEF IInv, SessionTypeOK, Others, Sent, Sessions
<1>3. RatchetInv'
  BY <1>1 DEF IInv, RatchetInv, Again, Messages, Sessions
<1>4. NotedInv'
  BY <1>1 DEF IInv, NotedInv, RequestsRecover, Again, May, LastTo, Messages, Sessions, Others
<1>5. QED
  BY <1>2, <1>3, <1>4 DEF IInv

\* Messages are of sessions that are there, at an index below the ratchet.
LEMMA MessagesAreThere ==
  ASSUME IInv
  PROVE  \A m \in Messages : /\ m.session \in Sessions /\ m.session <= outbound
                            /\ m.index \in Nat /\ m.index < number[m.session]
<1>1. SUFFICES ASSUME NEW m \in Messages
               PROVE  /\ m.session \in Sessions /\ m.session <= outbound
                      /\ m.index \in Nat /\ m.index < number[m.session]
  OBVIOUS
<1>2. sent \in Seq(Sent)
  BY DEF IInv, SessionTypeOK
<1>3. m \in Sent
  BY <1>2 DEF Messages
<1>4. QED
  BY <1>3 DEF Sent, IInv, RatchetInv

\* The ratchet turns, and the devices of the targets are noted with its new index.
LEMMA EncryptStep == ASSUME IInv, Encrypt PROVE IInv'
<1>1. /\ doing = "encrypt" /\ doing' = "queue"
      /\ number' = [number EXCEPT ![outbound] = @ + 1]
      /\ users' = [users EXCEPT ![outbound] = @ \cup DOMAIN targets]
      /\ given' = [given EXCEPT ![outbound] = Noted(outbound)]
      /\ UNCHANGED <<outbound, known, listed, targets, members, sent, env>>
  BY DEF Encrypt, world
<1>2. /\ outbound \in 0 .. MaxSessions /\ MaxSessions \in Nat /\ Period \in Nat \ {0}
      /\ DOMAIN given = Sessions /\ DOMAIN users = Sessions
      /\ number \in [Sessions -> Nat] /\ sent \in Seq(Sent)
      /\ outbound # 0 /\ number[outbound] < Period
  BY <1>1, RoomKeysOK DEF IInv, SessionTypeOK, RatchetInv
<1>3. outbound \in Sessions /\ number[outbound] \in Nat
  BY <1>2 DEF Sessions
<1>4. /\ number'[outbound] = number[outbound] + 1 /\ number'[outbound] \in Nat
      /\ \A s \in Sessions : s # outbound => number'[s] = number[s]
      /\ number' \in [Sessions -> Nat]
  BY <1>1, <1>2, <1>3
<1>5. SessionTypeOK'
  BY <1>1, <1>2, <1>4 DEF IInv, SessionTypeOK, Others, Sent, Sessions
<1>6. \A m \in Messages : /\ m.session \in Sessions /\ m.session <= outbound
                         /\ m.index \in Nat /\ m.index < number[m.session]
  BY MessagesAreThere
<1>7. RatchetInv'
  <2>1. \A s \in Sessions : s > outbound => number'[s] = 0
    BY <1>2, <1>4 DEF IInv, RatchetInv, Sessions
  <2>2. \A m \in Messages : m.session <= outbound /\ m.index < number'[m.session]
    <3>1. SUFFICES ASSUME NEW m \in Messages PROVE m.session <= outbound /\ m.index < number'[m.session]
      OBVIOUS
    <3>2. CASE m.session = outbound
      BY <1>3, <1>4, <1>6, <3>2
    <3>3. CASE m.session # outbound
      BY <1>4, <1>6, <3>3
    <3>4. QED
      BY <3>2, <3>3
  <2>3. \A m \in Messages : m.session = outbound => m.index < number'[outbound] - 1
    BY <1>3, <1>4, <1>6
  <2>4. number'[outbound] > 0
    BY <1>3, <1>4
  <2>5. QED
    BY <1>1, <1>2, <2>1, <2>2, <2>3, <2>4 DEF IInv, RatchetInv, Again, Messages, Sessions
<1>8. /\ given'[outbound] = Noted(outbound)
      /\ \A s \in Sessions : s # outbound => given'[s] = given[s]
  BY <1>1, <1>2, <1>3
<1>9. /\ DOMAIN Noted(outbound) =
           DOMAIN given[outbound] \cup UNION {targets[u] : u \in DOMAIN targets}
      /\ \A d \in DOMAIN given[outbound] : Noted(outbound)[d] = given[outbound][d]
      /\ \A d \in DOMAIN Noted(outbound) \ DOMAIN given[outbound] :
           Noted(outbound)[d] = number[outbound] + 1
  BY DEF Noted
<1>10. NotedInv'
  <2>1. \A s \in Sessions : \A d \in DOMAIN given'[s] : given'[s][d] \in 0 .. number'[s]
    <3>1. SUFFICES ASSUME NEW s \in Sessions, NEW d \in DOMAIN given'[s]
                   PROVE  given'[s][d] \in 0 .. number'[s]
      OBVIOUS
    <3>2. CASE s # outbound
      BY <1>4, <1>8, <3>2 DEF IInv, NotedInv
    <3>3. CASE s = outbound /\ d \in DOMAIN given[outbound]
      <4>1. given[outbound][d] \in 0 .. number[outbound]
        BY <1>3, <3>3 DEF IInv, NotedInv
      <4>2. QED
        BY <1>3, <1>4, <1>8, <1>9, <3>3, <4>1
    <3>4. CASE s = outbound /\ d \notin DOMAIN given[outbound]
      <4>1. given'[s][d] = number[outbound] + 1
        BY <1>8, <1>9, <3>4
      <4>2. QED
        BY <1>3, <1>4, <3>4, <4>1
    <3>5. QED
      BY <3>2, <3>3, <3>4
  <2>2. Others(listed) \subseteq DOMAIN given'[outbound]
    BY <1>1, <1>8, <1>9 DEF IInv, NotedInv
  <2>3. \A m \in Messages : ~(Again(m) /\ May("crash")) => \A d \in m.to :
          d \in DOMAIN given'[m.session] /\ given'[m.session][d] <= m.index + 1
    <3>1. SUFFICES ASSUME NEW m \in Messages, ~(Again(m) /\ May("crash")), NEW d \in m.to
                   PROVE  d \in DOMAIN given'[m.session] /\ given'[m.session][d] <= m.index + 1
      OBVIOUS
    <3>2. d \in DOMAIN given[m.session] /\ given[m.session][d] <= m.index + 1
      BY <3>1 DEF IInv, NotedInv, RequestsRecover
    <3>3. CASE m.session = outbound
      BY <1>8, <1>9, <3>2, <3>3
    <3>4. CASE m.session # outbound
      BY <1>6, <1>8, <3>2, <3>4
    <3>5. QED
      BY <3>3, <3>4
  <2>4. QED
    BY <1>1, <2>1, <2>2, <2>3 DEF NotedInv, RequestsRecover, Again, May, LastTo, Messages, Sessions, Others
<1>11. QED
  BY <1>5, <1>7, <1>10 DEF IInv

\* The message that leaves has the index just before the one saved.
LEMMA QueueStep == ASSUME IInv, Queue PROVE IInv'
<1>0. PICK state \in {"done", "waits"} : sent' = Append(sent, Entry(Others(listed), state))
  BY DEF Queue
<1> DEFINE new == Entry(Others(listed), state)
<1>1. /\ doing = "queue" /\ doing' = "nothing" /\ sent' = Append(sent, new) /\ listed' = <<>>
      /\ UNCHANGED <<outbound, number, users, given, known, members, env>>
  BY <1>0 DEF Queue, disk
<1>2. /\ outbound \in 0 .. MaxSessions /\ outbound # 0 /\ MaxSessions \in Nat /\ Period \in Nat
      /\ number \in [Sessions -> Nat] /\ sent \in Seq(Sent) /\ number[outbound] > 0
      /\ number[outbound] <= Period
      /\ Others(listed) \subseteq Devices /\ Others(listed) \subseteq DOMAIN given[outbound]
      /\ \A m \in Messages : m.session = outbound => m.index < number[outbound] - 1
      /\ \A i, j \in DOMAIN sent :
           i # j => sent[i].session # sent[j].session \/ sent[i].index # sent[j].index
  BY <1>1, RoomKeysOK DEF IInv, SessionTypeOK, RatchetInv, NotedInv
<1>3. outbound \in Sessions /\ number[outbound] \in Nat /\ number[outbound] - 1 \in Nat
  BY <1>2 DEF Sessions
<1>4. new \in Sent /\ new.session = outbound /\ new.index = number[outbound] - 1
      /\ new.to = Others(listed) /\ ~Again(new)
  BY <1>2, <1>3 DEF Sent, Entry, Again
<1> HIDE DEF new
<1>5. /\ sent' \in Seq(Sent) /\ Len(sent') = Len(sent) + 1 /\ Len(sent) \in Nat
      /\ DOMAIN sent = 1 .. Len(sent) /\ DOMAIN sent' = 1 .. Len(sent) + 1
      /\ \A i \in DOMAIN sent : sent'[i] = sent[i]
      /\ sent'[Len(sent) + 1] = new
  BY <1>1, <1>2, <1>4
<1>6. \A i \in DOMAIN sent' : i \in DOMAIN sent \/ i = Len(sent) + 1
  BY <1>5
<1>7. \A m \in Messages' : m \in Messages \/ m = new
  BY <1>5, <1>6 DEF Messages
<1>8. Others(listed') = {}
  BY <1>1 DEF Others
<1>9. SessionTypeOK'
  BY <1>1, <1>5, <1>8 DEF IInv, SessionTypeOK, Sent, Sessions
<1>10. RatchetInv'
  <2>1. \A m \in Messages' : m.session <= outbound /\ m.index < number[m.session]
    BY <1>2, <1>3, <1>4, <1>7 DEF IInv, RatchetInv
  <2>2. ASSUME NEW i \in DOMAIN sent', NEW j \in DOMAIN sent', i # j
        PROVE  sent'[i].session # sent'[j].session \/ sent'[i].index # sent'[j].index
    <3>1. \A k \in DOMAIN sent : sent[k].session = outbound => sent[k].index # new.index
      <4>1. SUFFICES ASSUME NEW k \in DOMAIN sent, sent[k].session = outbound
                     PROVE  sent[k].index # new.index
        OBVIOUS
      <4>2. sent[k] \in Messages /\ sent[k] \in Sent
        BY <1>2 DEF Messages
      <4>3. sent[k].index < number[outbound] - 1 /\ sent[k].index \in Int
        BY <1>2, <4>1, <4>2 DEF Sent
      <4>4. QED
        BY <1>3, <1>4, <4>3
    <3>2. CASE i \in DOMAIN sent /\ j \in DOMAIN sent
      BY <1>2, <1>5, <2>2, <3>2
    <3>3. CASE i = Len(sent) + 1 /\ j \in DOMAIN sent
      BY <1>4, <1>5, <3>1, <3>3
    <3>4. CASE i \in DOMAIN sent /\ j = Len(sent) + 1
      BY <1>4, <1>5, <3>1, <3>4
    <3>5. QED
      BY <1>6, <2>2, <3>2, <3>3, <3>4
  <2>3. \A m \in Messages' : Again(m) \/ m.index < Period
    BY <1>2, <1>3, <1>4, <1>7 DEF IInv, RatchetInv
  <2>4. QED
    BY <1>1, <2>1, <2>2, <2>3 DEF IInv, RatchetInv, Sessions, Again
<1>11. NotedInv'
  <2>1. \A m \in Messages' : ~(Again(m) /\ May("crash")) => \A d \in m.to :
          d \in DOMAIN given[m.session] /\ given[m.session][d] <= m.index + 1
    <3>1. SUFFICES ASSUME NEW m \in Messages', ~(Again(m) /\ May("crash")), NEW d \in m.to
                   PROVE  d \in DOMAIN given[m.session] /\ given[m.session][d] <= m.index + 1
      OBVIOUS
    <3>2. CASE m \in Messages
      BY <3>1, <3>2 DEF IInv, NotedInv, RequestsRecover
    <3>3. CASE m = new
      <4>1. d \in DOMAIN given[outbound]
        BY <1>2, <1>4, <3>3
      <4>2. given[outbound][d] \in 0 .. number[outbound]
        BY <1>3, <4>1 DEF IInv, NotedInv
      <4>3. QED
        BY <1>3, <1>4, <3>3, <4>1, <4>2
    <3>4. QED
      BY <1>7, <3>2, <3>3
  <2>2. \A s \in Sessions : \A d \in DOMAIN given[s] : given[s][d] \in 0 .. number[s]
    BY DEF IInv, NotedInv
  <2>3. LastTo' = Others(listed)
    BY <1>4, <1>5 DEF LastTo
  <2>4. QED
    BY <1>1, <1>2, <2>1, <2>2, <2>3 DEF NotedInv, RequestsRecover, Sessions, Again, May
<1>12. QED
  BY <1>9, <1>10, <1>11 DEF IInv

\* There is a session where there is a message; its ratchet turns.
LEMMA ReencryptStep == ASSUME IInv, Reencrypt PROVE IInv'
<1>1. /\ doing = "nothing" /\ doing' = "replace" /\ \E i \in DOMAIN sent : sent[i].state = "waits"
      /\ number' = [number EXCEPT ![outbound] = @ + 1]
      /\ UNCHANGED <<outbound, users, given, known, listed, targets, members, sent, env>>
  BY DEF Reencrypt, world
<1>2. /\ outbound \in 0 .. MaxSessions /\ MaxSessions \in Nat /\ number \in [Sessions -> Nat]
      /\ sent \in Seq(Sent)
  BY RoomKeysOK DEF IInv, SessionTypeOK
<1>3. \A m \in Messages : /\ m.session \in Sessions /\ m.session <= outbound
                         /\ m.index \in Nat /\ m.index < number[m.session]
  BY MessagesAreThere
<1>4. outbound \in Sessions /\ outbound # 0
  <2>1. PICK m \in Messages : m.session \in Sessions /\ m.session <= outbound
    BY <1>1, <1>3 DEF Messages
  <2>2. QED
    BY <1>2, <2>1 DEF Sessions
<1>5. /\ number'[outbound] = number[outbound] + 1 /\ number[outbound] \in Nat
      /\ \A s \in Sessions : s # outbound => number'[s] = number[s]
      /\ number' \in [Sessions -> Nat]
  BY <1>1, <1>2, <1>4
<1>6. SessionTypeOK'
  BY <1>1, <1>5 DEF IInv, SessionTypeOK, Others, Sent, Sessions
<1>7. RatchetInv'
  <2>1. \A s \in Sessions : s > outbound => number'[s] = 0
    BY <1>2, <1>5 DEF IInv, RatchetInv, Sessions
  <2>2. \A m \in Messages : m.session <= outbound /\ m.index < number'[m.session]
    <3>1. SUFFICES ASSUME NEW m \in Messages PROVE m.session <= outbound /\ m.index < number'[m.session]
      OBVIOUS
    <3>2. CASE m.session = outbound
      BY <1>3, <1>5, <3>2
    <3>3. CASE m.session # outbound
      BY <1>3, <1>5, <3>3
    <3>4. QED
      BY <3>2, <3>3
  <2>3. \A m \in Messages : m.session = outbound => m.index < number'[outbound] - 1
    BY <1>3, <1>5
  <2>4. number'[outbound] > 0
    BY <1>5
  <2>5. QED
    BY <1>1, <1>4, <2>1, <2>2, <2>3, <2>4 DEF IInv, RatchetInv, Again, Messages, Sessions
<1>8. NotedInv'
  <2>1. \A s \in Sessions : \A d \in DOMAIN given[s] : given[s][d] \in 0 .. number'[s]
    <3>1. SUFFICES ASSUME NEW s \in Sessions, NEW d \in DOMAIN given[s]
                   PROVE  given[s][d] \in 0 .. number'[s]
      OBVIOUS
    <3>2. given[s][d] \in 0 .. number[s] /\ number[s] \in Nat
      BY <1>2 DEF IInv, NotedInv
    <3>3. number'[s] = number[s] \/ number'[s] = number[s] + 1
      BY <1>5
    <3>4. QED
      BY <3>2, <3>3
  <2>2. QED
    BY <1>1, <2>1 DEF IInv, NotedInv, RequestsRecover, Again, May, LastTo, Messages, Sessions
<1>9. QED
  BY <1>6, <1>7, <1>8 DEF IInv

\* The reply has the index just before the one saved, and is for whom the session
\* was last used for.
LEMMA ReplaceStep == ASSUME IInv, NEW r \in DOMAIN sent, Replace(r) PROVE IInv'
<1> DEFINE new == Entry(LastTo, "again")
<1>1. /\ doing = "replace" /\ doing' = "nothing" /\ sent' = [sent EXCEPT ![r] = new]
      /\ UNCHANGED <<outbound, number, users, given, known, listed, members, env>>
  BY DEF Replace, disk
<1>2. /\ outbound \in 0 .. MaxSessions /\ outbound # 0 /\ MaxSessions \in Nat
      /\ number \in [Sessions -> Nat] /\ sent \in Seq(Sent) /\ number[outbound] > 0
      /\ ~May("crash") => LastTo \subseteq DOMAIN given[outbound]
      /\ \A m \in Messages : m.session = outbound => m.index < number[outbound] - 1
      /\ \A i, j \in DOMAIN sent :
           i # j => sent[i].session # sent[j].session \/ sent[i].index # sent[j].index
  BY <1>1, RoomKeysOK DEF IInv, SessionTypeOK, RatchetInv, NotedInv
<1>3. outbound \in Sessions /\ number[outbound] \in Nat /\ number[outbound] - 1 \in Nat
  BY <1>2 DEF Sessions
<1>4. LastTo \subseteq Devices
  <2>1. sent[Len(sent)] \in Sent
    BY <1>2
  <2>2. QED
    BY <2>1 DEF LastTo, Sent
<1>5. new \in Sent /\ new.session = outbound /\ new.index = number[outbound] - 1
      /\ new.to = LastTo /\ Again(new)
  BY <1>3, <1>4 DEF Sent, Entry, Again
<1> HIDE DEF new
<1>6. /\ sent' \in Seq(Sent) /\ Len(sent') = Len(sent) /\ DOMAIN sent' = DOMAIN sent
      /\ sent'[r] = new /\ \A i \in DOMAIN sent : i # r => sent'[i] = sent[i]
  BY <1>1, <1>2, <1>5
<1>7. \A m \in Messages' : m \in Messages \/ m = new
  BY <1>6 DEF Messages
<1>8. LastTo' = LastTo
  <2>1. Len(sent) \in DOMAIN sent
    BY <1>2
  <2>2. sent # <<>> /\ sent' # <<>>
    BY <1>2, <1>6
  <2>3. CASE Len(sent) = r
    BY <1>5, <1>6, <2>2, <2>3 DEF LastTo
  <2>4. CASE Len(sent) # r
    BY <1>6, <2>1, <2>2, <2>4 DEF LastTo
  <2>5. QED
    BY <2>3, <2>4
<1>9. SessionTypeOK'
  BY <1>1, <1>6 DEF IInv, SessionTypeOK, Others, Sent, Sessions
<1>10. RatchetInv'
  <2>1. \A m \in Messages' : m.session <= outbound /\ m.index < number[m.session]
    BY <1>2, <1>3, <1>5, <1>7 DEF IInv, RatchetInv
  <2>2. ASSUME NEW i \in DOMAIN sent, NEW j \in DOMAIN sent, i # j
        PROVE  sent'[i].session # sent'[j].session \/ sent'[i].index # sent'[j].index
    <3>1. \A k \in DOMAIN sent : sent[k].session = outbound => sent[k].index # new.index
      <4>1. SUFFICES ASSUME NEW k \in DOMAIN sent, sent[k].session = outbound
                     PROVE  sent[k].index # new.index
        OBVIOUS
      <4>2. sent[k] \in Messages /\ sent[k] \in Sent
        BY <1>2 DEF Messages
      <4>3. sent[k].index \in Int
        BY <4>2 DEF Sent
      <4>4. sent[k].index < number[outbound] - 1
        BY <1>2, <4>1, <4>2
      <4>5. QED
        BY <1>3, <1>5, <4>3, <4>4
    <3>2. CASE i # r /\ j # r
      BY <1>2, <1>6, <2>2, <3>2
    <3>3. CASE i = r
      BY <1>5, <1>6, <2>2, <3>1, <3>3
    <3>4. CASE j = r
      BY <1>5, <1>6, <2>2, <3>1, <3>4
    <3>5. QED
      BY <3>2, <3>3, <3>4
  <2>3. \A m \in Messages' : Again(m) \/ m.index < Period
    BY <1>5, <1>7 DEF IInv, RatchetInv
  <2>4. QED
    BY <1>1, <1>6, <2>1, <2>2, <2>3 DEF IInv, RatchetInv, Sessions, Again
<1>11. NotedInv'
  <2>1. \A m \in Messages' : ~(Again(m) /\ May("crash")) => \A d \in m.to :
          d \in DOMAIN given[m.session] /\ given[m.session][d] <= m.index + 1
    <3>1. SUFFICES ASSUME NEW m \in Messages', ~(Again(m) /\ May("crash")), NEW d \in m.to
                   PROVE  d \in DOMAIN given[m.session] /\ given[m.session][d] <= m.index + 1
      OBVIOUS
    <3>2. CASE m \in Messages
      BY <3>1, <3>2 DEF IInv, NotedInv, RequestsRecover
    <3>3. CASE m = new
      <4>1. d \in DOMAIN given[outbound]
        BY <1>2, <1>5, <3>1, <3>3
      <4>2. given[outbound][d] \in 0 .. number[outbound]
        BY <1>3, <4>1 DEF IInv, NotedInv
      <4>3. QED
        BY <1>3, <1>5, <3>3, <4>1, <4>2
    <3>4. QED
      BY <1>7, <3>2, <3>3
  <2>2. QED
    BY <1>1, <1>2, <1>8, <2>1 DEF IInv, NotedInv, RequestsRecover, Sessions, Again, May
<1>12. QED
  BY <1>9, <1>10, <1>11 DEF IInv

\* What was done so far stays on disk, what was under way is forgotten.
LEMMA CrashStep == ASSUME IInv, Crash PROVE IInv'
<1>1. /\ May("crash") /\ doing' = "nothing" /\ listed' = <<>>
      /\ UNCHANGED <<outbound, number, users, given, known, members, sent, env>>
  BY DEF Crash, disk
<1>2. Others(listed') = {}
  BY <1>1 DEF Others
<1>3. SessionTypeOK'
  BY <1>1, <1>2 DEF IInv, SessionTypeOK, Sent, Sessions
<1>4. RatchetInv'
  BY <1>1 DEF IInv, RatchetInv, Again, Messages, Sessions
<1>5. NotedInv'
  BY <1>1 DEF IInv, NotedInv, RequestsRecover, Again, May, LastTo, Messages, Sessions
<1>6. QED
  BY <1>3, <1>4, <1>5 DEF IInv

\* The server names devices only.
LEMMA StoredListing ==
  ASSUME IInv, NEW u, known' = [known EXCEPT ![u] = DevicesOf(u)]
  PROVE  known' \in [Users -> (SUBSET Devices) \cup {NoKeys}]
<1>1. DevicesOf(u) \in SUBSET Devices
  BY DEF DevicesOf
<1>2. known \in [Users -> (SUBSET Devices) \cup {NoKeys}]
  BY DEF IInv, SessionTypeOK
<1>3. QED
  BY <1>1, <1>2

LEMMA NextIInv == ASSUME IInv, [Next]_vars PROVE IInv'
<1> USE DEF disk, memory, world
<1>1. known \in [Users -> (SUBSET Devices) \cup {NoKeys}] /\ members \subseteq Users
  BY DEF IInv, SessionTypeOK
<1>2. ASSUME NEW c, Claimed(c) PROVE IInv'
  BY <1>1, <1>2, ElsewhereKeeps DEF Claimed, Elsewhere
<1>3. ASSUME NEW q, Queried(q) PROVE IInv'
  <2>1. known' = known \/ known' = [known EXCEPT ![q[1]] = DevicesOf(q[1])]
    BY <1>3 DEF Queried
  <2>2. known' \in [Users -> (SUBSET Devices) \cup {NoKeys}]
    BY <1>1, <2>1, StoredListing
  <2>3. Elsewhere /\ members' = members
    BY <1>3 DEF Queried, Elsewhere
  <2>4. QED
    BY <1>1, <2>2, <2>3, ElsewhereKeeps
<1>4. ASSUME NEW d, NEW s, KeyRequest(d, s) PROVE IInv'
  BY <1>1, <1>4, ElsewhereKeeps DEF KeyRequest, Elsewhere
<1>5. ASSUME NEW u \in Users, Join(u) PROVE IInv'
  BY <1>1, <1>5, ElsewhereKeeps DEF Join, Elsewhere
<1>6. ASSUME NEW u, Leave(u) PROVE IInv'
  BY <1>1, <1>6, ElsewhereKeeps DEF Leave, Elsewhere
<1>7. ASSUME NEW u, ListStored(u) PROVE IInv'
  <2>1. known' \in [Users -> (SUBSET Devices) \cup {NoKeys}]
    BY <1>7, StoredListing DEF ListStored
  <2>2. QED
    BY <1>1, <1>7, <2>1, ElsewhereKeeps DEF ListStored, Elsewhere
<1>8. ASSUME NEW d, Login(d) \/ Logout(d) PROVE IInv'
  BY <1>1, <1>8, ElsewhereKeeps DEF Login, Logout, Elsewhere
<1>9. ASSUME Age \/ Toggle PROVE IInv'
  BY <1>1, <1>9, ElsewhereKeeps DEF Age, Toggle, Elsewhere
<1>10. ASSUME UNCHANGED vars PROVE IInv'
  BY <1>1, <1>10, ElsewhereKeeps DEF vars, Elsewhere
<1>11. QED
  BY <1>2, <1>3, <1>4, <1>5, <1>6, <1>7, <1>8, <1>9, <1>10, PrepareStep, ShareStep, EncryptStep,
     QueueStep, ReencryptStep, ReplaceStep, CrashStep DEF Next, Send, MessageSent, Answers, Asks, World

------------------------------------------------------------------------------

\* encrypt_group_message and messageSent: ratchet, session list and messages agree.
THEOREM KeysInvariance == Spec => []IInv
<1>1. Init => IInv
  BY InitIInv
<1>2. IInv /\ [Next]_vars => IInv'
  BY NextIInv
<1>3. QED
  BY <1>1, <1>2, PTL DEF Spec

\* An index is used once, for encrypt_group_message and messageSent save the
\* session before its message is handed on or replaced; what the first of them
\* encrypts stays below the period.
THEOREM RatchetOnlyForward == Spec => []IndexUsedOnce
<1>1. IInv => IndexUsedOnce
  BY DEF IInv, RatchetInv, IndexUsedOnce
<1>2. QED
  BY <1>1, KeysInvariance, PTL

\* A device a message was meant for is noted with an index it can ask from,
\* whatever was lost: encrypt_group_message notes it with the ratchet it saves.
\* A reply that messageSent encrypts again after the program had ended early
\* may be under a session that noted it not.
THEOREM ListedCanAsk == Spec => []RequestsRecover
<1>1. IInv => RequestsRecover
  BY DEF IInv, NotedInv
<1>2. QED
  BY <1>1, KeysInvariance, PTL

------------------------------------------------------------------------------
(* Who has a key                                                            *)

Aimed     == UNION {targets[u] : u \in DOMAIN targets}
Cached(u) == IF known[u] = NoKeys THEN {} ELSE known[u]
Reached(to, u) == IF to[u] = {} THEN Cached(u) ELSE to[u]

\* Key messages go to the devices of "reached": by their olm channels, or with
\* a one-time key that is claimed unless one was before.
Sends(reached, s, i) ==
  LET claimed == reached \ (channels \cup limited)
  IN  /\ Arrive({<<d, s, i>> : d \in reached \cap channels})
      /\ claims' = claims \cup {<<d, s, i>> : d \in claimed}
      /\ limited' = limited \cup claimed

LEMMA SendEncryptedIs ==
  ASSUME NEW to, NEW s, NEW i, SendEncrypted(to, s, i)
  PROVE  \E reached : Sends(reached, s, i)
BY DEF SendEncrypted, Sends

\* Nobody has to wait for a list when all the devices are in the cached ones.
LEMMA AllAreReached ==
  ASSUME NEW to, NEW s, NEW i, SendEncrypted(to, s, i), \A u \in DOMAIN to : to[u] \subseteq Cached(u)
  PROVE  /\ Sends((UNION {Reached(to, u) : u \in DOMAIN to}) \ {Own}, s, i)
         /\ (\A u \in DOMAIN to : known[u] # NoKeys) => queries' = queries
<1> DEFINE asked == {u \in DOMAIN to : known[u] = NoKeys \/ ~(to[u] \subseteq known[u])}
           all   == UNION {Reached(to, u) : u \in DOMAIN to}
           some(early) == (early \cup UNION {Reached(to, u) : u \in DOMAIN to \ asked}) \ {Own}
<1>1. PICK early \in SUBSET UNION {to[u] \cap Cached(u) : u \in asked} :
        /\ Sends(some(early), s, i)
        /\ queries' = queries \cup {<<u, s, i>> : u \in asked}
  BY DEF SendEncrypted, Sends, Cached, Reached
<1>2. \A u \in asked : known[u] = NoKeys /\ Cached(u) = {} /\ to[u] = {} /\ Reached(to, u) = {}
  BY DEF Cached, Reached
<1>3. early = {}
  BY <1>1, <1>2
<1>4. UNION {Reached(to, u) : u \in DOMAIN to \ asked} = all
  BY <1>2
<1>5. some(early) = all \ {Own}
  BY <1>3, <1>4
<1>6. (\A u \in DOMAIN to : known[u] # NoKeys) => asked = {}
  BY <1>2
<1>7. QED
  BY <1>1, <1>5, <1>6

\* A key has an index.
Numbered(K) == \A k \in K : k[3] \in Nat
KeyTypeOK   == Numbered(keys) /\ Numbered(claims) /\ Numbered(queries)

LEMMA SendNumbered ==
  ASSUME KeyTypeOK, NEW to, NEW s, NEW i \in Nat, SendEncrypted(to, s, i)
  PROVE  KeyTypeOK'
<1>1. \A D : Numbered({<<d, s, i>> : d \in D})
  BY DEF Numbered
<1> DEFINE Keyed(D) == {<<d, s, i>> : d \in D}
<1>2. PICK reached : Sends(reached, s, i)
  BY SendEncryptedIs
<1>3. keys' = keys \/ keys' = keys \cup Keyed(reached \cap channels)
  BY <1>2 DEF Sends, Arrive
<1>4. claims' = claims \cup Keyed(reached \ (channels \cup limited))
  BY <1>2 DEF Sends
<1>5. \E asked : queries' = queries \cup Keyed(asked)
  BY DEF SendEncrypted
<1> HIDE DEF Keyed
<1>6. \A K, D : Numbered(K) => Numbered(K \cup Keyed(D))
  BY <1>1 DEF Numbered, Keyed
<1>7. QED
  BY <1>3, <1>4, <1>5, <1>6 DEF KeyTypeOK

LEMMA NextNumbered == ASSUME IInv, KeyTypeOK, [Next]_vars PROVE KeyTypeOK'
<1> USE DEF disk, memory, world
<1>1. Period \in Nat /\ MaxSessions \in Nat /\ outbound \in 0 .. MaxSessions
      /\ number \in [Sessions -> Nat]
  BY RoomKeysOK DEF IInv, SessionTypeOK
<1>2. ASSUME Share PROVE KeyTypeOK'
  <2>1. SendEncrypted(targets, outbound, number[outbound]) /\ outbound # 0
    BY <1>2 DEF Share, IInv, RatchetInv
  <2>2. outbound \in Sessions
    BY <1>1, <2>1 DEF Sessions
  <2>3. number[outbound] \in Nat
    BY <1>1, <2>2
  <2>4. QED
    BY <2>1, <2>3, SendNumbered
<1>3. ASSUME NEW d, NEW s \in Sessions, KeyRequest(d, s) PROVE KeyTypeOK'
  <2> DEFINE i == IF Trusted(d) THEN 0 ELSE given[s][d]
  <2>1. Trusted(d) \/ d \in DOMAIN given[s]
    BY <1>3 DEF KeyRequest
  <2>2. number[s] \in Nat
    BY <1>1
  <2>3. i \in Nat
    BY <1>1, <2>1, <2>2 DEF IInv, NotedInv
  <2>4. SendEncrypted([u \in {Owner[d]} |-> {d}], s, i)
    BY <1>3 DEF KeyRequest
  <2>5. QED
    BY <2>3, <2>4, SendNumbered
<1>4. ASSUME NEW c, Claimed(c) PROVE KeyTypeOK'
  <2>1. keys' \subseteq keys \cup {c} /\ c \in claims /\ claims' \subseteq claims /\ queries' = queries
    BY <1>4 DEF Claimed, Arrive
  <2>2. QED
    BY <2>1 DEF KeyTypeOK, Numbered
<1>5. ASSUME NEW q, Queried(q) PROVE KeyTypeOK'
  <2>1. PICK D : /\ q \in queries /\ queries' \subseteq queries /\ keys' = keys
                 /\ claims' \in {claims, claims \cup {<<d, q[2], q[3]>> : d \in D}}
    BY <1>5 DEF Queried
  <2>2. \A d \in D : <<d, q[2], q[3]>>[3] \in Nat
    BY <2>1 DEF KeyTypeOK, Numbered
  <2>3. QED
    BY <2>1, <2>2 DEF KeyTypeOK, Numbered
<1>6. ASSUME Prepare \/ Encrypt \/ Queue \/ MessageSent \/ Age \/ Toggle \/ UNCHANGED vars
      PROVE  KeyTypeOK'
  BY <1>6 DEF Prepare, Encrypt, Queue, MessageSent, Reencrypt, Replace, Age, Toggle, vars, KeyTypeOK, Numbered
<1>7. ASSUME NEW u, Join(u) \/ Leave(u) \/ ListStored(u) PROVE KeyTypeOK'
  BY <1>7 DEF Join, Leave, ListStored, KeyTypeOK, Numbered
<1>8. ASSUME NEW d, Login(d) \/ Logout(d) PROVE KeyTypeOK'
  BY <1>8 DEF Login, Logout, KeyTypeOK, Numbered
<1>9. ASSUME Crash PROVE KeyTypeOK'
  BY <1>9 DEF Crash, KeyTypeOK, Numbered
<1>10. QED
  BY <1>2, <1>3, <1>4, <1>5, <1>6, <1>7, <1>8, <1>9 DEF Next, Send, MessageSent, Answers, Asks, World

------------------------------------------------------------------------------
(* The key comes first                                                      *)

Prompt == env \cap {"crash", "lost", "slow", "race"} = {}
Holds(d, s, i) == \E k \in keys \cup claims : k[1] = d /\ k[2] = s /\ k[3] <= i

\* A device of which a one-time key was claimed has an olm channel or will have
\* one; who was noted has the key from the index on that is used next, unless
\* it is about to be sent.
FirstInv ==
  /\ \A d \in limited : d \in channels \/ \E c \in claims : c[1] = d
  /\ doing = "share" =>
       claims = {} /\ queries = {} /\ \A u \in DOMAIN targets : targets[u] \subseteq Cached(u) \ {Own}
  /\ \A s \in Sessions : \A d \in DOMAIN given[s] :
       (doing = "share" /\ s = outbound /\ d \in Aimed) \/ Holds(d, s, number[s])
  /\ doing = "encrypt" => \A d \in Aimed : Holds(d, outbound, number[outbound])
  /\ doing \in {"queue", "replace"} =>
       \A d \in DOMAIN given[outbound] : Holds(d, outbound, number[outbound] - 1)
  /\ \A m \in Messages : \A d \in m.to : Holds(d, m.session, m.index)

LEMMA InitFirst == Init => FirstInv
<1> SUFFICES ASSUME Init PROVE FirstInv
  OBVIOUS
<1>1. /\ limited = {} /\ doing = "nothing" /\ sent = <<>> /\ given = [s \in Sessions |-> <<>>]
  BY DEF Init
<1>2. Messages = {} /\ \A s \in Sessions : DOMAIN given[s] = {}
  BY <1>1 DEF Messages
<1>3. QED
  BY <1>1, <1>2 DEF FirstInv

\* Nothing is lost: a key that was sent arrives.
LEMMA PromptSend ==
  ASSUME Prompt, FirstInv, NEW reached, NEW s, NEW i, Sends(reached, s, i)
  PROVE  /\ keys \cup claims \subseteq keys' \cup claims'
         /\ \A d \in reached : d \notin limited \/ d \in channels =>
              <<d, s, i>> \in keys' \cup claims'
         /\ \A d \in limited' : d \in channels \/ \E c \in claims' : c[1] = d
<1> DEFINE claimed == reached \ (channels \cup limited)
<1>1. /\ keys' = keys \cup {<<d, s, i>> : d \in reached \cap channels}
      /\ claims' = claims \cup {<<d, s, i>> : d \in claimed}
      /\ limited' = limited \cup claimed
  BY DEF Sends, Arrive, Prompt, May
<1>2. \A d \in claimed : <<d, s, i>> \in claims' /\ <<d, s, i>>[1] = d
  BY <1>1
<1>3. \A d \in limited' : d \in channels \/ \E c \in claims' : c[1] = d
  BY <1>1, <1>2 DEF FirstInv
<1>4. \A d \in reached : d \notin limited \/ d \in channels => <<d, s, i>> \in keys' \cup claims'
  BY <1>1
<1>5. QED
  BY <1>1, <1>3, <1>4

\* Steps that only add keys and channels.
LEMMA FrameFirst ==
  ASSUME FirstInv,
         UNCHANGED <<outbound, number, given, doing, targets, sent>>,
         keys \cup claims \subseteq keys' \cup claims',
         doing = "share" => claims' = {} /\ queries' = {} /\ known' = known,
         \A d \in limited' : d \in channels' \/ \E c \in claims' : c[1] = d
  PROVE  FirstInv'
<1>1. \A d, s, i : Holds(d, s, i) => Holds(d, s, i)'
  BY DEF Holds
<1>2. Messages' = Messages /\ Aimed' = Aimed
  BY DEF Messages, Aimed
<1>3. \A s \in Sessions : \A d \in DOMAIN given[s] :
       (doing = "share" /\ s = outbound /\ d \in Aimed) \/ Holds(d, s, number[s])'
  BY <1>1 DEF FirstInv
<1>4. doing = "encrypt" => \A d \in Aimed : Holds(d, outbound, number[outbound])'
  BY <1>1 DEF FirstInv
<1>5. doing \in {"queue", "replace"} =>
        \A d \in DOMAIN given[outbound] : Holds(d, outbound, number[outbound] - 1)'
  BY <1>1 DEF FirstInv
<1>6. \A m \in Messages : \A d \in m.to : Holds(d, m.session, m.index)'
  BY <1>1 DEF FirstInv
<1>7. doing = "share" => \A u \in DOMAIN targets : targets[u] \subseteq Cached(u)' \ {Own}
  BY DEF FirstInv, Cached
<1>8. QED
  BY <1>2, <1>3, <1>4, <1>5, <1>6, <1>7 DEF FirstInv

LEMMA ListOfIsCached == \A u : ListOf(u) \subseteq Cached(u)
BY DEF ListOf, Cached

\* Nothing is on its way when a message is prepared, and only listed devices
\* are going to be sent a key.
LEMMA PrepareFirst == ASSUME IInv, Prompt, FirstInv, Prepare PROVE FirstInv'
<1>1. ~May("slow")
  BY DEF Prompt, May
<1>2. /\ doing = "nothing" /\ doing' = "share" /\ claims = {} /\ queries = {}
      /\ listed' = MembersWithKeys
      /\ UNCHANGED <<known, channels, limited, claims, queries, keys, sent>>
  BY <1>1 DEF Prepare
<1>3. \A u \in DOMAIN listed' : listed'[u] \subseteq Cached(u)
  BY <1>2, ListOfIsCached DEF MembersWithKeys
<1>4. Messages' = Messages /\ \A d, s, i : Holds(d, s, i)' = Holds(d, s, i)
  BY <1>2 DEF Messages, Holds
<1>5. \A s \in Sessions : \A d \in DOMAIN given[s] : Holds(d, s, number[s])
  BY <1>2 DEF FirstInv
<1>6. UNCHANGED number
  BY DEF Prepare, Use, Create
<1>7. CASE Use(listed')
  <2>1. targets' = NewIn(outbound, listed') /\ UNCHANGED <<outbound, given>>
    BY <1>7 DEF Use
  <2>2. \A u \in DOMAIN targets' : targets'[u] \subseteq Cached(u)' \ {Own}
    BY <1>2, <1>3, <2>1 DEF NewIn, Cached
  <2>3. QED
    BY <1>2, <1>4, <1>5, <1>6, <2>1, <2>2 DEF FirstInv
<1>8. CASE Create(listed')
  <2>1. /\ outbound' = outbound + 1 /\ outbound < MaxSessions
        /\ targets' = [u \in DOMAIN listed' |-> listed'[u] \ {Own}]
        /\ given' = [given EXCEPT ![outbound'] = [d \in Others(listed') |-> 0]]
    BY <1>8 DEF Create
  <2>2. outbound \in 0 .. MaxSessions /\ MaxSessions \in Nat /\ DOMAIN given = Sessions
    BY RoomKeysOK DEF IInv, SessionTypeOK
  <2>3. outbound' \in Sessions
    BY <2>1, <2>2 DEF Sessions
  <2>4. /\ given'[outbound'] = [d \in Others(listed') |-> 0]
        /\ \A s \in Sessions : s # outbound' => given'[s] = given[s]
    BY <2>1, <2>2, <2>3
  <2>5. DOMAIN given'[outbound'] = Aimed'
    BY <2>1, <2>4 DEF Aimed, Others
  <2>6. \A u \in DOMAIN targets' : targets'[u] \subseteq Cached(u)' \ {Own}
    BY <1>2, <1>3, <2>1 DEF Cached
  <2>7. \A s \in Sessions : \A d \in DOMAIN given'[s] :
          (s = outbound' /\ d \in Aimed') \/ Holds(d, s, number[s])
    BY <1>5, <2>4, <2>5
  <2>8. QED
    BY <1>2, <1>4, <1>6, <2>6, <2>7 DEF FirstInv
<1>9. QED
  BY <1>7, <1>8 DEF Prepare

\* Whoever was limited has an olm channel by now, so that all are sent the key.
LEMMA ShareFirst == ASSUME IInv, Prompt, FirstInv, Share PROVE FirstInv'
<1> DEFINE i == number[outbound]
           all == (UNION {Reached(targets, u) : u \in DOMAIN targets}) \ {Own}
<1>1. /\ doing = "share" /\ doing' = "encrypt"
      /\ UNCHANGED <<outbound, number, given, known, channels, targets, sent>>
      /\ SendEncrypted(targets, outbound, i)
      /\ claims = {} /\ \A u \in DOMAIN targets : targets[u] \subseteq Cached(u)
  BY DEF Share, disk, FirstInv
<1>2. Sends(all, outbound, i)
  BY <1>1, AllAreReached
<1>3. /\ keys \cup claims \subseteq keys' \cup claims'
      /\ \A d \in all : d \notin limited \/ d \in channels => <<d, outbound, i>> \in keys' \cup claims'
      /\ \A d \in limited' : d \in channels \/ \E c \in claims' : c[1] = d
  BY <1>2, PromptSend
<1>4. \A d \in limited : d \in channels
  BY <1>1 DEF FirstInv
<1>5. Aimed \ {Own} \subseteq all
  BY DEF Aimed, Reached
<1>6. Own \notin Aimed
  BY <1>1 DEF Aimed, FirstInv
<1>7. \A d \in Aimed : <<d, outbound, i>> \in keys' \cup claims'
  BY <1>3, <1>4, <1>5, <1>6
<1>8. outbound \in Sessions /\ i \in Nat
  <2>1. outbound \in 0 .. MaxSessions /\ outbound # 0 /\ MaxSessions \in Nat /\ Period \in Nat
        /\ number \in [Sessions -> Nat]
    BY <1>1, RoomKeysOK DEF IInv, SessionTypeOK, RatchetInv
  <2>2. QED
    BY <2>1 DEF Sessions
<1>9. \A d \in Aimed : Holds(d, outbound, i)'
  <2>1. SUFFICES ASSUME NEW d \in Aimed
                 PROVE  \E k \in keys' \cup claims' : k[1] = d /\ k[2] = outbound /\ k[3] <= i
    BY <1>1 DEF Holds
  <2>2. <<d, outbound, i>> \in keys' \cup claims'
    BY <1>7
  <2>3. QED
    BY <1>8, <2>2
<1>10. \A d, s, n : Holds(d, s, n) => Holds(d, s, n)'
  BY <1>3 DEF Holds
<1>11. \A s \in Sessions : \A d \in DOMAIN given[s] : Holds(d, s, number[s])'
  <2>1. SUFFICES ASSUME NEW s \in Sessions, NEW d \in DOMAIN given[s] PROVE Holds(d, s, number[s])'
    OBVIOUS
  <2>2. CASE s = outbound /\ d \in Aimed
    BY <1>1, <1>9, <2>2
  <2>3. CASE ~(s = outbound /\ d \in Aimed)
    <3>1. Holds(d, s, number[s])
      BY <1>1, <2>3 DEF FirstInv
    <3>2. QED
      BY <1>1, <1>10, <3>1
  <2>4. QED
    BY <2>2, <2>3
<1>12. \A m \in Messages : \A d \in m.to : Holds(d, m.session, m.index)'
  BY <1>10 DEF FirstInv
<1>13. Messages' = Messages /\ Aimed' = Aimed
  BY <1>1 DEF Messages, Aimed
<1>14. QED
  BY <1>1, <1>3, <1>9, <1>11, <1>12, <1>13 DEF FirstInv

\* The devices that were just sent the key are the ones that are noted.
LEMMA EncryptFirst == ASSUME IInv, KeyTypeOK, FirstInv, Encrypt PROVE FirstInv'
<1>1. /\ doing = "encrypt" /\ doing' = "queue"
      /\ number' = [number EXCEPT ![outbound] = @ + 1]
      /\ given' = [given EXCEPT ![outbound] = Noted(outbound)]
      /\ UNCHANGED <<outbound, channels, limited, claims, keys, sent>>
  BY DEF Encrypt, world
<1>2. outbound \in Sessions /\ number[outbound] \in Nat
      /\ number \in [Sessions -> Nat] /\ DOMAIN given = Sessions
  <2>1. outbound \in 0 .. MaxSessions /\ outbound # 0 /\ MaxSessions \in Nat /\ Period \in Nat
        /\ number \in [Sessions -> Nat] /\ DOMAIN given = Sessions
    BY <1>1, RoomKeysOK DEF IInv, SessionTypeOK, RatchetInv
  <2>2. QED
    BY <2>1 DEF Sessions
<1>3. /\ number'[outbound] = number[outbound] + 1 /\ given'[outbound] = Noted(outbound)
      /\ \A s \in Sessions : s # outbound => number'[s] = number[s] /\ given'[s] = given[s]
      /\ DOMAIN Noted(outbound) = DOMAIN given[outbound] \cup Aimed
  BY <1>1, <1>2 DEF Noted, Aimed
<1>4. keys' = keys /\ claims' = claims /\ Messages' = Messages
  BY <1>1 DEF Messages
<1>5. \A d \in DOMAIN given'[outbound] : Holds(d, outbound, number[outbound])
  BY <1>1, <1>2, <1>3 DEF FirstInv
<1>6. \A d : Holds(d, outbound, number[outbound]) =>
        Holds(d, outbound, number'[outbound] - 1) /\ Holds(d, outbound, number'[outbound])
  <2>1. \A k \in keys \cup claims : k[3] \in Nat
    BY DEF KeyTypeOK, Numbered
  <2>2. QED
    BY <1>2, <1>3, <2>1 DEF Holds
<1>7. \A d \in DOMAIN given'[outbound] : Holds(d, outbound, number'[outbound] - 1)
                                       /\ Holds(d, outbound, number'[outbound])
  BY <1>3, <1>5, <1>6
<1>8. \A s \in Sessions : \A d \in DOMAIN given'[s] : Holds(d, s, number'[s])
  BY <1>1, <1>3, <1>7 DEF FirstInv
<1>9. \A d, s, i : Holds(d, s, i)' = Holds(d, s, i)
  BY <1>4 DEF Holds
<1>10. QED
  BY <1>1, <1>4, <1>7, <1>8, <1>9 DEF FirstInv

\* The message that leaves has the index the key was sent for.
LEMMA QueueFirst == ASSUME IInv, FirstInv, Queue PROVE FirstInv'
<1>0. PICK state : sent' = Append(sent, Entry(Others(listed), state))
  BY DEF Queue
<1> DEFINE new == Entry(Others(listed), state)
<1>1. /\ doing = "queue" /\ doing' = "nothing" /\ sent' = Append(sent, new)
      /\ UNCHANGED <<outbound, number, given, channels, limited, claims, keys>>
  BY <1>0 DEF Queue, disk
<1>2. sent \in Seq(Sent) /\ Others(listed) \subseteq DOMAIN given[outbound]
  BY <1>1 DEF IInv, SessionTypeOK, NotedInv
<1>3. \A m \in Messages' : m \in Messages \/ m = new
  <2>1. \A i \in DOMAIN sent' : sent'[i] = new \/ (i \in DOMAIN sent /\ sent'[i] = sent[i])
    BY <1>1, <1>2
  <2>2. QED
    BY <2>1 DEF Messages
<1>4. new.session = outbound /\ new.index = number[outbound] - 1 /\ new.to = Others(listed)
  BY DEF Entry
<1>5. \A d \in new.to : Holds(d, new.session, new.index)
  BY <1>1, <1>2, <1>4 DEF FirstInv
<1> HIDE DEF new
<1>6. \A d, s, i : Holds(d, s, i)' = Holds(d, s, i)
  BY <1>1 DEF Holds
<1>7. \A m \in Messages' : \A d \in m.to : Holds(d, m.session, m.index)
  BY <1>3, <1>5 DEF FirstInv
<1>8. \A s \in Sessions : \A d \in DOMAIN given[s] : Holds(d, s, number[s])
  BY <1>1 DEF FirstInv
<1>9. QED
  BY <1>1, <1>6, <1>7, <1>8 DEF FirstInv

\* The ratchet turns by one, which closes no message that is to come.
LEMMA ReencryptFirst == ASSUME IInv, KeyTypeOK, FirstInv, Reencrypt PROVE FirstInv'
<1>1. /\ doing = "nothing" /\ doing' = "replace" /\ \E i \in DOMAIN sent : sent[i].state = "waits"
      /\ number' = [number EXCEPT ![outbound] = @ + 1]
      /\ UNCHANGED <<outbound, given, targets, channels, limited, claims, keys, sent>>
  BY DEF Reencrypt, world
<1>2. outbound \in Sessions /\ number \in [Sessions -> Nat]
  <2>1. PICK m \in Messages : m.session \in Sessions /\ m.session <= outbound
    BY <1>1, MessagesAreThere DEF Messages
  <2>2. outbound \in 0 .. MaxSessions /\ MaxSessions \in Nat /\ number \in [Sessions -> Nat]
    BY RoomKeysOK DEF IInv, SessionTypeOK
  <2>3. QED
    BY <2>1, <2>2 DEF Sessions
<1>3. /\ number'[outbound] = number[outbound] + 1 /\ number[outbound] \in Nat
      /\ \A s \in Sessions : s # outbound => number'[s] = number[s]
  BY <1>1, <1>2
<1>4. Messages' = Messages /\ \A d, s, i : Holds(d, s, i)' = Holds(d, s, i)
  BY <1>1 DEF Messages, Holds
<1>5. \A s \in Sessions : \A d \in DOMAIN given[s] : Holds(d, s, number[s])
  BY <1>1 DEF FirstInv
<1>6. \A d : Holds(d, outbound, number[outbound]) =>
        Holds(d, outbound, number'[outbound] - 1) /\ Holds(d, outbound, number'[outbound])
  <2>1. \A k \in keys \cup claims : k[3] \in Nat
    BY DEF KeyTypeOK, Numbered
  <2>2. QED
    BY <1>3, <2>1 DEF Holds
<1>7. \A d \in DOMAIN given[outbound] : Holds(d, outbound, number'[outbound] - 1)
  BY <1>2, <1>5, <1>6
<1>8. \A s \in Sessions : \A d \in DOMAIN given[s] : Holds(d, s, number'[s])
  BY <1>3, <1>5, <1>6
<1>9. QED
  BY <1>1, <1>4, <1>7, <1>8 DEF FirstInv

\* Those the last message was for have the key of the session.
LEMMA ReplaceFirst == ASSUME IInv, Prompt, FirstInv, NEW r \in DOMAIN sent, Replace(r) PROVE FirstInv'
<1> DEFINE new == Entry(LastTo, "again")
<1>1. /\ doing = "replace" /\ doing' = "nothing" /\ sent' = [sent EXCEPT ![r] = new]
      /\ UNCHANGED <<outbound, number, given, channels, limited, claims, keys>>
  BY DEF Replace, disk
<1>2. LastTo \subseteq DOMAIN given[outbound]
  BY <1>1 DEF IInv, NotedInv, Prompt, May
<1>3. \A m \in Messages' : m \in Messages \/ m = new
  BY <1>1 DEF Messages
<1>4. new.session = outbound /\ new.index = number[outbound] - 1 /\ new.to = LastTo
  BY DEF Entry
<1>5. \A d \in new.to : Holds(d, new.session, new.index)
  BY <1>1, <1>2, <1>4 DEF FirstInv
<1> HIDE DEF new
<1>6. \A d, s, i : Holds(d, s, i)' = Holds(d, s, i)
  BY <1>1 DEF Holds
<1>7. \A m \in Messages' : \A d \in m.to : Holds(d, m.session, m.index)
  BY <1>3, <1>5 DEF FirstInv
<1>8. \A s \in Sessions : \A d \in DOMAIN given[s] : Holds(d, s, number[s])
  BY <1>1 DEF FirstInv
<1>9. QED
  BY <1>1, <1>6, <1>7, <1>8 DEF FirstInv

LEMMA ClaimedFirst == ASSUME Prompt, FirstInv, NEW c, Claimed(c) PROVE FirstInv'
<1>1. ~May("lost")
  BY DEF Prompt, May
<1>2. /\ c \in claims /\ claims' = claims \ {c} /\ channels' = channels \cup {c[1]}
      /\ keys' = keys \cup {c}
      /\ UNCHANGED <<outbound, number, given, doing, targets, sent, limited, queries, known>>
  BY <1>1 DEF Claimed, Arrive
<1>3. doing # "share"
  BY <1>2 DEF FirstInv
<1>4. \A d \in limited' : d \in channels' \/ \E b \in claims' : b[1] = d
  BY <1>2 DEF FirstInv
<1>5. QED
  BY <1>2, <1>3, <1>4, FrameFirst

LEMMA QueriedFirst == ASSUME Prompt, FirstInv, NEW q, Queried(q) PROVE FirstInv'
<1> DEFINE named == DevicesOf(q[1]) \ ({Own} \cup limited)
<1>1. ~May("lost")
  BY DEF Prompt, May
<1>2. /\ q \in queries /\ claims' = claims \cup {<<d, q[2], q[3]>> : d \in named}
      /\ limited' = limited \cup named
      /\ UNCHANGED <<outbound, number, given, doing, targets, sent, channels, keys>>
  BY <1>1 DEF Queried
<1>3. doing # "share"
  BY <1>2 DEF FirstInv
<1>4. \A d \in named : <<d, q[2], q[3]>> \in claims' /\ <<d, q[2], q[3]>>[1] = d
  BY <1>2
<1>5. \A d \in limited' : d \in channels' \/ \E b \in claims' : b[1] = d
  BY <1>2, <1>4 DEF FirstInv
<1>6. QED
  BY <1>2, <1>3, <1>5, FrameFirst

LEMMA RequestFirst == ASSUME Prompt, FirstInv, NEW d, NEW s, KeyRequest(d, s) PROVE FirstInv'
<1>1. PICK reached, i : Sends(reached, s, i)
  BY SendEncryptedIs DEF KeyRequest
<1>2. doing # "share" /\ UNCHANGED <<outbound, number, given, doing, targets, sent, channels>>
  BY DEF KeyRequest, disk
<1>3. QED
  BY <1>1, <1>2, PromptSend, FrameFirst

LEMMA NextFirst == ASSUME IInv, KeyTypeOK, Prompt, FirstInv, [Next]_vars PROVE FirstInv'
<1> USE DEF disk, memory, world
<1>1. ~May("race") /\ ~May("crash")
  BY DEF Prompt, May
<1>2. ASSUME NEW u, Join(u) \/ Leave(u) PROVE FirstInv'
  BY <1>2, FrameFirst DEF Join, Leave, FirstInv
<1>3. ASSUME NEW u, ListStored(u) PROVE FirstInv'
  BY <1>1, <1>3, FrameFirst DEF ListStored, FirstInv
<1>4. ASSUME NEW d, Login(d) \/ Logout(d) PROVE FirstInv'
  BY <1>4, FrameFirst DEF Login, Logout, FirstInv
<1>5. ASSUME Age \/ Toggle PROVE FirstInv'
  BY <1>5, FrameFirst DEF Age, Toggle, FirstInv
<1>6. ASSUME UNCHANGED vars PROVE FirstInv'
  BY <1>6, FrameFirst DEF vars, FirstInv
<1>7. ~Crash
  BY <1>1 DEF Crash
<1>8. QED
  BY <1>2, <1>3, <1>4, <1>5, <1>6, <1>7, PrepareFirst, ShareFirst, EncryptFirst, QueueFirst,
     ReencryptFirst, ReplaceFirst, ClaimedFirst, QueriedFirst, RequestFirst
  DEF Next, Send, MessageSent, Answers, Asks, World

LEMMA ScenarioStays == [Next]_vars => env' = env
BY DEF Next, vars, disk, memory, world, Send, Prepare, Share, Encrypt, Queue, MessageSent, Reencrypt,
  Replace, Answers, Claimed,
  Queried, Asks, KeyRequest, World, Join, Leave, Login, Logout, ListStored, Age, Toggle, Crash

\* encrypt_group_message shares before it encrypts: whoever a message is meant
\* for has its key, or a one-time key is being claimed to carry it.  A reply
\* that messageSent encrypts again is for whom the session's last message was.
THEOREM KeyIsFirst == Spec => []KeyFirst
<1>1. Init => KeyTypeOK /\ (Prompt => FirstInv)
  BY InitFirst DEF Init, KeyTypeOK, Numbered
<1>2. IInv /\ KeyTypeOK /\ (Prompt => FirstInv) /\ [Next]_vars => (Prompt => FirstInv)'
  <2>1. SUFFICES ASSUME IInv, KeyTypeOK, Prompt => FirstInv, [Next]_vars, Prompt' PROVE FirstInv'
    OBVIOUS
  <2>2. Prompt
    BY <2>1, ScenarioStays DEF Prompt
  <2>3. QED
    BY <2>1, <2>2, NextFirst
<1>3. (Prompt => FirstInv) => KeyFirst
  BY DEF Prompt, FirstInv, KeyFirst, Holds, Opens
<1>4. IInv /\ KeyTypeOK /\ [Next]_vars => KeyTypeOK'
  BY NextNumbered
<1>5. QED
  BY <1>1, <1>2, <1>3, <1>4, KeysInvariance, PTL DEF Spec

------------------------------------------------------------------------------
(* Only who was listed can read                                             *)

Steady == env \cap {"crash", "unknown", "verified", "race"} = {}

\* A device that is noted is cached until it is gone, and a message under way
\* goes to all that have the session or are about to be sent it.
ListedInv ==
  /\ verifiedOnly = FALSE /\ queries = {} /\ DOMAIN life = Devices
  /\ \A u \in Users : known[u] # NoKeys /\ \A d \in known[u] : Owner[d] = u /\ life[d] # "not yet"
  /\ \A s \in Sessions : \A d \in DOMAIN given[s] :
       d \in Devices /\ life[d] # "not yet" /\ (life[d] = "here" => d \in known[Owner[d]])
  /\ doing \in {"share", "encrypt", "queue"} =>
       /\ DOMAIN given[outbound] \subseteq Others(listed)
       /\ \A d \in Others(listed) : d \in known[Owner[d]]
  /\ doing \in {"share", "encrypt"} => Aimed \subseteq Others(listed)
  /\ doing = "share" =>
       \A u \in DOMAIN targets :
         /\ u \in Users /\ targets[u] \subseteq known[u]
         /\ targets[u] = {} => known[u] \ {Own} \subseteq DOMAIN given[outbound]

\* The index a device is noted with opens only what the device was listed for,
\* and so does the key of one that is not verified; that one is noted, or will
\* be with the message under way.  Between messages whoever has the session was
\* listed for the last one.
MeantFor(k, d) == \A m \in Messages : Opens(k, m) => d \in m.to
Entitled(k) ==
  \/ k[1] \in Verified
  \/ /\ k[2] \in 1 .. outbound
     /\ MeantFor(k, k[1])
     /\ k[1] \in DOMAIN given[k[2]] \/ (doing = "encrypt" /\ k[2] = outbound /\ k[1] \in Aimed)
MeantInv ==
  /\ \A s \in Sessions : \A d \in DOMAIN given[s] : MeantFor(<<d, s, given[s][d]>>, d)
  /\ \A k \in keys \cup claims : Entitled(k)
  /\ doing \in {"nothing", "replace"} /\ sent # <<>> => DOMAIN given[outbound] \subseteq LastTo

ReadInv == ListedInv /\ MeantInv

LEMMA InitRead == Init /\ Steady => ReadInv
<1> SUFFICES ASSUME Init, Steady PROVE ReadInv
  OBVIOUS
<1>1. ~May("unknown")
  BY DEF Steady, May
<1>2. \A u \in Users : known[u] = DevicesOf(u)
  BY <1>1 DEF Init
<1>3. \A u \in Users : known[u] # NoKeys /\ \A d \in known[u] : Owner[d] = u /\ life[d] # "not yet"
  <2>1. \A u : \A d \in DevicesOf(u) : d \in Devices /\ Owner[d] = u /\ life[d] = "here"
    BY DEF DevicesOf
  <2>2. "no keys" \in NoKeys /\ "no keys" \notin Devices
    BY RoomKeysOK DEF NoKeys
  <2>3. SUFFICES ASSUME NEW u \in Users
                 PROVE  known[u] # NoKeys /\ \A d \in known[u] : Owner[d] = u /\ life[d] # "not yet"
    OBVIOUS
  <2>4. known[u] = DevicesOf(u) /\ "no keys" \notin DevicesOf(u)
    BY <1>2, <2>1, <2>2
  <2>5. known[u] # NoKeys
    BY <2>2, <2>4
  <2>6. \A d \in known[u] : Owner[d] = u /\ life[d] # "not yet"
    BY <2>4 DEF DevicesOf
  <2>7. QED
    BY <2>5, <2>6
<1>4. /\ verifiedOnly = FALSE /\ queries = {} /\ doing = "nothing" /\ keys = {} /\ claims = {}
      /\ given = [s \in Sessions |-> <<>>]
  BY DEF Init
<1>5. \A s \in Sessions : DOMAIN given[s] = {}
  BY <1>4
<1>6. DOMAIN life = Devices
  BY DEF Init
<1>7. ListedInv
  BY <1>3, <1>4, <1>5, <1>6 DEF ListedInv
<1>8. MeantInv
  <2>1. sent = <<>>
    BY DEF Init
  <2>2. QED
    BY <1>4, <1>5, <2>1 DEF MeantInv
<1>9. QED
  BY <1>7, <1>8 DEF ReadInv

LEMMA Calm == ASSUME Steady PROVE ~May("crash") /\ ~May("unknown") /\ ~May("verified") /\ ~May("race")
BY DEF Steady, May

LEMMA MessagesAreOld ==
  ASSUME IInv, NEW m \in Messages
  PROVE  /\ m.session \in Sessions /\ m.session \in 1 .. outbound
         /\ m.index \in Nat /\ m.index < number[m.session]
<1>1. outbound \in 0 .. MaxSessions /\ MaxSessions \in Nat
  BY RoomKeysOK DEF IInv, SessionTypeOK
<1>2. QED
  BY <1>1, MessagesAreThere DEF Sessions

LEMMA InUse == IInv /\ doing # "nothing" =>
  outbound \in Sessions /\ number[outbound] \in Nat /\ outbound \in Nat /\ outbound # 0
<1> SUFFICES ASSUME IInv, doing # "nothing"
             PROVE  outbound \in Sessions /\ number[outbound] \in Nat /\ outbound \in Nat /\ outbound # 0
  OBVIOUS
<1>1. outbound \in 0 .. MaxSessions /\ outbound # 0 /\ MaxSessions \in Nat /\ Period \in Nat
      /\ number \in [Sessions -> Nat]
  BY RoomKeysOK DEF IInv, SessionTypeOK, RatchetInv
<1>2. QED
  BY <1>1 DEF Sessions

\* New keys are entitled if they are for devices that may have them.
LEMMA SendRead ==
  ASSUME NEW reached, NEW s, NEW i, Sends(reached, s, i),
         \A k \in keys \cup claims : Entitled(k)',
         \A d \in reached : Entitled(<<d, s, i>>)'
  PROVE  \A k \in keys' \cup claims' : Entitled(k)'
<1>1. \A k \in keys' \cup claims' : k \in keys \cup claims \/ \E d \in reached : k = <<d, s, i>>
  BY DEF Sends, Arrive
<1>2. QED
  BY <1>1

\* Steps that leave sessions, lists and messages alone.
LEMMA EntitledStays ==
  ASSUME UNCHANGED <<outbound, given, doing, targets, sent>>
  PROVE  \A k : Entitled(k)' = Entitled(k)
<1>1. Messages' = Messages /\ Aimed' = Aimed
  BY DEF Messages, Aimed
<1>2. \A k, d : MeantFor(k, d)' = MeantFor(k, d)
  BY <1>1 DEF MeantFor
<1>3. QED
  BY <1>1, <1>2 DEF Entitled

LEMMA FrameMeant ==
  ASSUME MeantInv, UNCHANGED <<outbound, given, doing, targets, sent>>,
         (\A k \in keys \cup claims : Entitled(k)') => \A k \in keys' \cup claims' : Entitled(k)'
  PROVE  MeantInv'
<1>1. Messages' = Messages /\ Aimed' = Aimed
  BY DEF Messages, Aimed
<1>2. \A k, d : MeantFor(k, d)' = MeantFor(k, d)
  BY <1>1 DEF MeantFor
<1>3. \A k : Entitled(k)' = Entitled(k)
  BY EntitledStays
<1>4. \A s \in Sessions : \A d \in DOMAIN given[s] : MeantFor(<<d, s, given[s][d]>>, d)'
  BY <1>2 DEF MeantInv
<1>5. LastTo' = LastTo
  BY DEF LastTo
<1>6. QED
  BY <1>3, <1>4, <1>5 DEF MeantInv

LEMMA FrameListed ==
  ASSUME ListedInv,
         UNCHANGED <<outbound, given, doing, targets, listed, known, life, verifiedOnly, queries>>
  PROVE  ListedInv'
<1>1. Aimed' = Aimed /\ Others(listed)' = Others(listed)
  BY DEF Aimed, Others
<1>2. QED
  BY <1>1 DEF ListedInv

\* All members are there with all their devices.
LEMMA AllListed ==
  ASSUME IInv, ListedInv
  PROVE  MembersWithKeys = [u \in members |-> known[u]]
<1>1. members \subseteq Users
  BY DEF IInv, SessionTypeOK
<1>2. \A u \in members : ListOf(u) = known[u]
  BY <1>1 DEF ListedInv, ListOf
<1>3. {v \in members : verifiedOnly => ListOf(v) # {}} = members
  BY DEF ListedInv
<1>4. QED
  BY <1>2, <1>3 DEF MembersWithKeys

LEMMA PrepareRead == ASSUME IInv, ReadInv, Prepare PROVE ReadInv'
<1>1. /\ doing = "nothing" /\ doing' = "share" /\ listed' = MembersWithKeys
      /\ UNCHANGED <<known, verifiedOnly, queries, life, keys, claims, sent>>
  BY DEF Prepare
<1>2. /\ members \subseteq Users /\ listed' = [u \in members |-> known[u]]
      /\ verifiedOnly = FALSE /\ queries = {}
  BY <1>1, AllListed DEF IInv, SessionTypeOK, ReadInv, ListedInv
<1>3. \A d \in Others(listed') : d \in Devices /\ d \in known[Owner[d]] /\ life[d] # "not yet"
  <2>1. SUFFICES ASSUME NEW d \in Others(listed')
                 PROVE  d \in Devices /\ d \in known[Owner[d]] /\ life[d] # "not yet"
    OBVIOUS
  <2>2. PICK u \in members : d \in known[u] /\ d # Own
    BY <1>2 DEF Others
  <2>3. u \in Users /\ Owner[d] = u /\ life[d] # "not yet"
    BY <1>2, <2>2 DEF ReadInv, ListedInv
  <2>4. d \in Devices
    BY <1>1, ListedAreDevices
  <2>5. QED
    BY <2>2, <2>3, <2>4
<1>4. Messages' = Messages /\ \A k, d : MeantFor(k, d)' = MeantFor(k, d)
  BY <1>1 DEF Messages, MeantFor
<1>5. \A u \in DOMAIN listed' : u \in Users /\ listed'[u] = known[u]
  BY <1>2
<1>6. CASE Use(listed')
  <2>1. /\ targets' = NewIn(outbound, listed') /\ UNCHANGED <<outbound, given>> /\ outbound # 0
        /\ DOMAIN given[outbound] \subseteq Others(listed')
    BY <1>6 DEF Use, Fits
  <2>2. \A u \in DOMAIN targets' :
          /\ u \in DOMAIN listed'
          /\ targets'[u] = listed'[u] \ ({Own} \cup DOMAIN given[outbound])
    BY <2>1 DEF NewIn
  <2>3. Aimed' \subseteq Others(listed')
    BY <2>2 DEF Aimed, Others
  <2>4. \A u \in DOMAIN targets' :
          /\ u \in Users /\ targets'[u] \subseteq known[u]
          /\ targets'[u] = {} => known[u] \ {Own} \subseteq DOMAIN given[outbound]
    BY <1>5, <2>2
  <2>5. ListedInv'
    BY <1>1, <1>2, <1>3, <2>1, <2>3, <2>4 DEF ReadInv, ListedInv
  <2>6. \A k \in keys \cup claims : Entitled(k)'
    BY <1>1, <1>4, <2>1 DEF ReadInv, MeantInv, Entitled
  <2>7. \A s \in Sessions : \A d \in DOMAIN given[s] : MeantFor(<<d, s, given[s][d]>>, d)'
    BY <1>4, <2>1 DEF ReadInv, MeantInv
  <2>8. QED
    BY <1>1, <2>1, <2>5, <2>6, <2>7 DEF ReadInv, MeantInv
<1>7. CASE Create(listed')
  <2>1. /\ outbound' = outbound + 1 /\ outbound < MaxSessions
        /\ targets' = [u \in DOMAIN listed' |-> listed'[u] \ {Own}]
        /\ given' = [given EXCEPT ![outbound'] = [d \in Others(listed') |-> 0]]
    BY <1>7 DEF Create
  <2>2. outbound \in 0 .. MaxSessions /\ MaxSessions \in Nat /\ DOMAIN given = Sessions
    BY RoomKeysOK DEF IInv, SessionTypeOK
  <2>3. outbound' \in Sessions /\ 1 .. outbound \subseteq 1 .. outbound' /\ outbound' \notin 1 .. outbound
        /\ 1 .. outbound \subseteq Sessions /\ outbound' # 0
    BY <2>1, <2>2 DEF Sessions
  <2>4. /\ given'[outbound'] = [d \in Others(listed') |-> 0]
        /\ \A s \in Sessions : s # outbound' => given'[s] = given[s]
    BY <2>1, <2>2, <2>3
  <2>5. Aimed' = Others(listed') /\ DOMAIN given'[outbound'] = Others(listed')
    BY <2>1, <2>4 DEF Aimed, Others
  <2>6. \A u \in DOMAIN targets' :
          /\ u \in Users /\ targets'[u] \subseteq known[u]
          /\ targets'[u] = {} => known[u] \ {Own} \subseteq DOMAIN given'[outbound']
    BY <1>5, <2>1
  <2>7. \A s \in Sessions : \A d \in DOMAIN given'[s] :
          d \in Devices /\ life[d] # "not yet" /\ (life[d] = "here" => d \in known[Owner[d]])
    <3>1. SUFFICES ASSUME NEW s \in Sessions, NEW d \in DOMAIN given'[s]
                   PROVE  d \in Devices /\ life[d] # "not yet" /\ (life[d] = "here" => d \in known[Owner[d]])
      OBVIOUS
    <3>2. CASE s = outbound'
      BY <1>3, <2>4, <3>2
    <3>3. CASE s # outbound'
      BY <2>4, <3>3 DEF ReadInv, ListedInv
    <3>4. QED
      BY <3>2, <3>3
  <2>8. ListedInv'
    BY <1>1, <1>2, <1>3, <2>5, <2>6, <2>7 DEF ReadInv, ListedInv
  <2>9. \A m \in Messages : m.session # outbound'
    BY <2>3, MessagesAreOld
  <2>10. \A d, i : MeantFor(<<d, outbound', i>>, d)
    BY <2>9 DEF MeantFor, Opens
  <2>11. \A s \in Sessions : \A d \in DOMAIN given'[s] : MeantFor(<<d, s, given'[s][d]>>, d)
    BY <2>4, <2>10 DEF ReadInv, MeantInv
  <2>12. \A k \in keys \cup claims : Entitled(k)'
    BY <1>1, <1>4, <2>3, <2>4 DEF ReadInv, MeantInv, Entitled
  <2>13. QED
    BY <1>1, <1>4, <2>8, <2>11, <2>12 DEF ReadInv, MeantInv
<1>8. QED
  BY <1>6, <1>7 DEF Prepare

\* The key goes to devices that have the session, and to the ones of the
\* targets: it opens nothing that was sent before.
LEMMA ShareRead == ASSUME IInv, ReadInv, Share PROVE ReadInv'
<1> DEFINE all == (UNION {Reached(targets, u) : u \in DOMAIN targets}) \ {Own}
<1>1. PICK s, i : s = outbound /\ i = number[outbound]
  OBVIOUS
<1>2. /\ doing = "share" /\ doing' = "encrypt"
      /\ UNCHANGED <<outbound, given, known, targets, listed, life, verifiedOnly, sent>>
      /\ SendEncrypted(targets, s, i)
  BY <1>1 DEF Share, disk
<1>3. \A u \in DOMAIN targets :
        /\ known[u] # NoKeys /\ targets[u] \subseteq known[u]
        /\ targets[u] = {} => known[u] \ {Own} \subseteq DOMAIN given[outbound]
  BY <1>2 DEF ReadInv, ListedInv
<1>4. Sends(all, s, i) /\ queries' = queries
  BY <1>2, <1>3, AllAreReached DEF Cached
<1>5. s \in Sessions /\ i \in Nat /\ s \in 1 .. outbound
  BY <1>1, <1>2, InUse
<1>6. \A d \in all : d \in DOMAIN given[outbound] \cup Aimed
  <2>1. SUFFICES ASSUME NEW d \in all PROVE d \in DOMAIN given[outbound] \cup Aimed
    OBVIOUS
  <2>2. PICK u \in DOMAIN targets : d \in Reached(targets, u) /\ d # Own
    OBVIOUS
  <2>3. QED
    BY <1>3, <2>2 DEF Reached, Cached, Aimed
<1>7. \A d : MeantFor(<<d, s, i>>, d)
  BY <1>1, <1>5, MessagesAreOld DEF MeantFor, Opens
<1>8. Messages' = Messages /\ Aimed' = Aimed /\ Others(listed)' = Others(listed)
  BY <1>2 DEF Messages, Aimed, Others
<1>9. \A k, d : MeantFor(k, d)' = MeantFor(k, d)
  BY <1>8 DEF MeantFor
<1>10. \A d \in all : Entitled(<<d, s, i>>)'
  <2>1. SUFFICES ASSUME NEW d \in all, NEW k, k = <<d, s, i>> PROVE Entitled(k)'
    OBVIOUS
  <2>2. k[1] = d /\ k[2] = s /\ MeantFor(k, d)'
    BY <1>7, <1>9, <2>1
  <2>3. d \in DOMAIN given'[s] \/ d \in Aimed'
    BY <1>1, <1>2, <1>6, <1>8
  <2>4. QED
    BY <1>1, <1>2, <1>5, <2>2, <2>3 DEF Entitled
<1>11. \A k \in keys \cup claims : Entitled(k)'
  BY <1>2, <1>8, <1>9 DEF ReadInv, MeantInv, Entitled
<1>12. \A k \in keys' \cup claims' : Entitled(k)'
  BY <1>4, <1>10, <1>11, SendRead
<1>13. MeantInv'
  BY <1>2, <1>9, <1>12 DEF ReadInv, MeantInv
<1>14. ListedInv'
  BY <1>2, <1>4, <1>8 DEF ReadInv, ListedInv
<1>15. QED
  BY <1>13, <1>14 DEF ReadInv

LEMMA EncryptRead == ASSUME IInv, ReadInv, Encrypt PROVE ReadInv'
<1>1. /\ doing = "encrypt" /\ doing' = "queue"
      /\ given' = [given EXCEPT ![outbound] = Noted(outbound)]
      /\ UNCHANGED <<outbound, known, targets, listed, life, verifiedOnly, queries, keys, claims, sent>>
  BY DEF Encrypt, world
<1>2. outbound \in Sessions /\ number[outbound] \in Nat /\ DOMAIN given = Sessions
  BY <1>1, InUse DEF IInv, SessionTypeOK
<1>3. /\ given'[outbound] = Noted(outbound)
      /\ \A s \in Sessions : s # outbound => given'[s] = given[s]
  BY <1>1, <1>2
<1>4. /\ DOMAIN Noted(outbound) = DOMAIN given[outbound] \cup Aimed
      /\ \A d \in DOMAIN given[outbound] : Noted(outbound)[d] = given[outbound][d]
      /\ \A d \in DOMAIN Noted(outbound) \ DOMAIN given[outbound] :
           Noted(outbound)[d] = number[outbound] + 1
  BY DEF Noted, Aimed
<1>5. Messages' = Messages /\ Aimed' = Aimed /\ Others(listed)' = Others(listed)
      /\ \A k, d : MeantFor(k, d)' = MeantFor(k, d)
  BY <1>1 DEF Messages, Aimed, Others, MeantFor
<1>6. Aimed \subseteq Others(listed) /\ DOMAIN given[outbound] \subseteq Others(listed)
      /\ \A d \in Others(listed) : d \in known[Owner[d]]
  BY <1>1 DEF ReadInv, ListedInv
<1>7. \A d \in Others(listed) : life[d] # "not yet"
  <2>1. SUFFICES ASSUME NEW d \in Others(listed) PROVE life[d] # "not yet"
    OBVIOUS
  <2>2. d \in Devices
    BY DEF IInv, SessionTypeOK
  <2>3. Owner[d] \in Users
    BY <2>2, RoomKeysOK
  <2>4. QED
    BY <1>6, <2>3 DEF ReadInv, ListedInv
<1>8. \A s \in Sessions : \A d \in DOMAIN given'[s] :
        d \in Devices /\ life[d] # "not yet" /\ (life[d] = "here" => d \in known[Owner[d]])
  <2>1. SUFFICES ASSUME NEW s \in Sessions, NEW d \in DOMAIN given'[s]
                 PROVE  d \in Devices /\ life[d] # "not yet" /\ (life[d] = "here" => d \in known[Owner[d]])
    OBVIOUS
  <2>2. CASE s = outbound
    BY <1>3, <1>4, <1>6, <1>7, <2>2 DEF IInv, SessionTypeOK
  <2>3. CASE s # outbound
    BY <1>3, <2>3 DEF ReadInv, ListedInv
  <2>4. QED
    BY <2>2, <2>3
<1>9. ListedInv'
  BY <1>1, <1>3, <1>4, <1>5, <1>6, <1>8 DEF ReadInv, ListedInv
<1>10. \A d : MeantFor(<<d, outbound, number[outbound] + 1>>, d)
  BY <1>2, MessagesAreOld DEF MeantFor, Opens
<1>11. \A s \in Sessions : \A d \in DOMAIN given'[s] : MeantFor(<<d, s, given'[s][d]>>, d)
  <2>1. SUFFICES ASSUME NEW s \in Sessions, NEW d \in DOMAIN given'[s]
                 PROVE  MeantFor(<<d, s, given'[s][d]>>, d)
    OBVIOUS
  <2>2. CASE s = outbound /\ d \notin DOMAIN given[outbound]
    BY <1>3, <1>4, <1>10, <2>2
  <2>3. CASE s = outbound /\ d \in DOMAIN given[outbound]
    BY <1>2, <1>3, <1>4, <2>3 DEF ReadInv, MeantInv
  <2>4. CASE s # outbound
    BY <1>3, <2>4 DEF ReadInv, MeantInv
  <2>5. QED
    BY <2>2, <2>3, <2>4
<1>12. \A k \in keys \cup claims : Entitled(k)'
  <2>1. SUFFICES ASSUME NEW k \in keys \cup claims PROVE Entitled(k)'
    OBVIOUS
  <2>2. Entitled(k)
    BY DEF ReadInv, MeantInv
  <2>3. CASE k[1] \in Verified
    BY <2>3 DEF Entitled
  <2>4. CASE k[1] \notin Verified
    <3>1. k[2] \in 1 .. outbound /\ MeantFor(k, k[1])
      BY <2>2, <2>4 DEF Entitled
    <3>2. k[2] \in Sessions
      <4>1. MaxSessions \in Nat /\ outbound \in 1 .. MaxSessions
        BY <1>2, RoomKeysOK DEF Sessions
      <4>2. \A n \in 1 .. outbound : n \in 1 .. MaxSessions
        BY <4>1
      <4>3. QED
        BY <3>1, <4>2 DEF Sessions
    <3>3. k[1] \in DOMAIN given'[k[2]]
      BY <1>3, <1>4, <2>2, <2>4, <3>2 DEF Entitled
    <3>4. QED
      BY <1>1, <1>5, <3>1, <3>3 DEF Entitled
  <2>5. QED
    BY <2>3, <2>4
<1>13. QED
  BY <1>1, <1>5, <1>9, <1>11, <1>12 DEF ReadInv, MeantInv

\* The new message is meant for all that have its session.
LEMMA QueueRead == ASSUME IInv, ReadInv, Queue PROVE ReadInv'
<1>0. PICK state : sent' = Append(sent, Entry(Others(listed), state))
  BY DEF Queue
<1> DEFINE new == Entry(Others(listed), state)
<1>1. /\ doing = "queue" /\ doing' = "nothing" /\ sent' = Append(sent, new)
      /\ UNCHANGED <<outbound, given, known, life, verifiedOnly, queries, keys, claims>>
  BY <1>0 DEF Queue, disk
<1>2. sent \in Seq(Sent) /\ DOMAIN given[outbound] \subseteq Others(listed)
  BY <1>1 DEF IInv, SessionTypeOK, ReadInv, ListedInv
<1>3. \A m \in Messages' : m \in Messages \/ m = new
  <2>1. \A i \in DOMAIN sent' : sent'[i] = new \/ (i \in DOMAIN sent /\ sent'[i] = sent[i])
    BY <1>1, <1>2
  <2>2. QED
    BY <2>1 DEF Messages
<1>4. new.session = outbound /\ new.to = Others(listed)
  BY DEF Entry
<1> HIDE DEF new
<1>5. \A k, d : MeantFor(k, d) /\ d \in DOMAIN given[k[2]] => MeantFor(k, d)'
  BY <1>2, <1>3, <1>4 DEF MeantFor, Opens
<1>6. \A s \in Sessions : \A d \in DOMAIN given[s] : MeantFor(<<d, s, given[s][d]>>, d)'
  <2>1. SUFFICES ASSUME NEW s \in Sessions, NEW d \in DOMAIN given[s]
                 PROVE  MeantFor(<<d, s, given[s][d]>>, d)'
    OBVIOUS
  <2>2. MeantFor(<<d, s, given[s][d]>>, d) /\ <<d, s, given[s][d]>>[2] = s
    BY DEF ReadInv, MeantInv
  <2>3. QED
    BY <1>1, <1>5, <2>2
<1>7. \A k \in keys \cup claims : Entitled(k)'
  BY <1>1, <1>5 DEF ReadInv, MeantInv, Entitled
<1>8. ListedInv'
  BY <1>1 DEF ReadInv, ListedInv
<1>9. LastTo' = Others(listed)
  BY <1>1, <1>2, <1>4 DEF LastTo
<1>10. QED
  BY <1>1, <1>2, <1>6, <1>7, <1>8, <1>9 DEF ReadInv, MeantInv

LEMMA ReencryptRead == ASSUME IInv, ReadInv, Reencrypt PROVE ReadInv'
<1>1. /\ doing = "nothing" /\ doing' = "replace"
      /\ UNCHANGED <<outbound, given, known, targets, life, verifiedOnly, queries, keys, claims, sent>>
  BY DEF Reencrypt, world
<1>2. Messages' = Messages /\ LastTo' = LastTo /\ \A k, d : MeantFor(k, d)' = MeantFor(k, d)
  BY <1>1 DEF Messages, LastTo, MeantFor
<1>3. \A k \in keys \cup claims : Entitled(k)'
  BY <1>1, <1>2 DEF ReadInv, MeantInv, Entitled
<1>4. MeantInv'
  BY <1>1, <1>2, <1>3 DEF ReadInv, MeantInv
<1>5. ListedInv'
  BY <1>1 DEF ReadInv, ListedInv
<1>6. QED
  BY <1>4, <1>5 DEF ReadInv

\* The reply is for all that have the session it is encrypted with now.
LEMMA ReplaceRead == ASSUME IInv, ReadInv, NEW r \in DOMAIN sent, Replace(r) PROVE ReadInv'
<1> DEFINE new == Entry(LastTo, "again")
<1>1. /\ doing = "replace" /\ doing' = "nothing" /\ sent' = [sent EXCEPT ![r] = new]
      /\ UNCHANGED <<outbound, given, known, life, verifiedOnly, queries, keys, claims>>
  BY DEF Replace, disk
<1>2. sent \in Seq(Sent) /\ sent # <<>> /\ Len(sent) \in DOMAIN sent
  BY DEF IInv, SessionTypeOK
<1>3. DOMAIN given[outbound] \subseteq LastTo
  BY <1>1, <1>2 DEF ReadInv, MeantInv
<1>4. \A m \in Messages' : m \in Messages \/ m = new
  BY <1>1 DEF Messages
<1>5. new.session = outbound /\ new.to = LastTo
  BY DEF Entry
<1> HIDE DEF new
<1>6. \A k, d : MeantFor(k, d) /\ d \in DOMAIN given[k[2]] => MeantFor(k, d)'
  BY <1>3, <1>4, <1>5 DEF MeantFor, Opens
<1>7. \A s \in Sessions : \A d \in DOMAIN given[s] : MeantFor(<<d, s, given[s][d]>>, d)'
  <2>1. SUFFICES ASSUME NEW s \in Sessions, NEW d \in DOMAIN given[s]
                 PROVE  MeantFor(<<d, s, given[s][d]>>, d)'
    OBVIOUS
  <2>2. MeantFor(<<d, s, given[s][d]>>, d) /\ <<d, s, given[s][d]>>[2] = s
    BY DEF ReadInv, MeantInv
  <2>3. QED
    BY <1>1, <1>6, <2>2
<1>8. \A k \in keys \cup claims : Entitled(k)'
  BY <1>1, <1>6 DEF ReadInv, MeantInv, Entitled
<1>9. LastTo' = LastTo
  <2>1. Len(sent') = Len(sent) /\ sent' # <<>>
    BY <1>1, <1>2
  <2>2. CASE Len(sent) = r
    BY <1>1, <1>2, <1>5, <2>1, <2>2 DEF LastTo
  <2>3. CASE Len(sent) # r
    BY <1>1, <1>2, <2>1, <2>3 DEF LastTo
  <2>4. QED
    BY <2>2, <2>3
<1>10. ListedInv'
  BY <1>1 DEF ReadInv, ListedInv
<1>11. QED
  BY <1>1, <1>3, <1>7, <1>8, <1>9, <1>10 DEF ReadInv, MeantInv

LEMMA ClaimedRead == ASSUME ReadInv, NEW c, Claimed(c) PROVE ReadInv'
<1>1. /\ c \in claims /\ claims' \subseteq claims /\ keys' \subseteq keys \cup {c}
      /\ UNCHANGED <<outbound, given, doing, targets, listed, known, life, verifiedOnly, queries, sent>>
  BY DEF Claimed, Arrive
<1>2. QED
  BY <1>1, FrameMeant, FrameListed DEF ReadInv

\* A device that asks is cached, so that its key goes to it and to nobody else.
LEMMA RequestRead == ASSUME IInv, ReadInv, NEW d \in Devices, NEW s \in Sessions, KeyRequest(d, s)
                     PROVE  ReadInv'
<1> DEFINE to == [u \in {Owner[d]} |-> {d}]
<1>1. PICK i : i = IF Trusted(d) THEN 0 ELSE given[s][d]
  OBVIOUS
<1>2. /\ life[d] = "here" /\ s <= outbound /\ (Trusted(d) \/ d \in DOMAIN given[s])
      /\ SendEncrypted(to, s, i)
      /\ UNCHANGED <<outbound, given, doing, targets, listed, known, life, verifiedOnly, sent>>
  BY <1>1 DEF KeyRequest, disk
<1>3. Owner[d] \in Users /\ known[Owner[d]] # NoKeys /\ d \in known[Owner[d]]
  <2>1. Owner[d] \in Users
    BY RoomKeysOK
  <2>2. known[Owner[d]] # NoKeys
    BY <2>1 DEF ReadInv, ListedInv
  <2>3. d \in known[Owner[d]]
    BY <1>2, <2>2 DEF ReadInv, ListedInv, Trusted
  <2>4. QED
    BY <2>1, <2>2, <2>3
<1>4. DOMAIN to = {Owner[d]} /\ to[Owner[d]] = {d} /\ Reached(to, Owner[d]) = {d}
  BY DEF Reached
<1> HIDE DEF to
<1>5. \A u \in DOMAIN to : to[u] \subseteq Cached(u) /\ known[u] # NoKeys
  BY <1>3, <1>4 DEF Cached
<1>6. (UNION {Reached(to, u) : u \in DOMAIN to}) \ {Own} \subseteq {d}
  BY <1>4
<1>7. PICK reached \in SUBSET {d} : Sends(reached, s, i) /\ queries' = queries
  BY <1>2, <1>5, <1>6, AllAreReached
<1>8. s \in 1 .. outbound
  <2>1. outbound \in 0 .. MaxSessions /\ MaxSessions \in Nat /\ s \in 1 .. MaxSessions
    BY RoomKeysOK DEF IInv, SessionTypeOK, Sessions
  <2>2. QED
    BY <1>2, <2>1
<1>9. Entitled(<<d, s, i>>)
  BY <1>1, <1>2, <1>8 DEF Entitled, Trusted, ReadInv, MeantInv
<1>10. (\A k \in keys \cup claims : Entitled(k)') => \A k \in keys' \cup claims' : Entitled(k)'
  <2>1. \A k : Entitled(k)' = Entitled(k)
    BY <1>2, EntitledStays
  <2>2. \A k \in keys' \cup claims' : k \in keys \cup claims \/ k = <<d, s, i>>
    BY <1>7 DEF Sends, Arrive
  <2>3. QED
    BY <1>9, <2>1, <2>2
<1>11. QED
  BY <1>2, <1>7, <1>10, FrameMeant, FrameListed DEF ReadInv

\* A stored list names all the devices that are there.
LEMMA StoredRead == ASSUME IInv, ReadInv, Steady, NEW u \in Users, ListStored(u) PROVE ReadInv'
<1>1. /\ doing = "nothing" /\ known' = [known EXCEPT ![u] = DevicesOf(u)]
      /\ UNCHANGED <<outbound, given, doing, targets, listed, life, verifiedOnly, queries, sent, keys, claims>>
  BY Calm DEF ListStored, memory, world
<1>2. known'[u] = DevicesOf(u) /\ \A v \in Users : v # u => known'[v] = known[v]
  BY <1>1 DEF IInv, SessionTypeOK
<1>3. NoKeys # DevicesOf(u)
  <2>1. "no keys" \in NoKeys /\ "no keys" \notin Devices
    BY RoomKeysOK DEF NoKeys
  <2>2. QED
    BY <2>1 DEF DevicesOf
<1>4. \A v \in Users : known'[v] # NoKeys /\ \A d \in known'[v] : Owner[d] = v /\ life[d] # "not yet"
  <2>1. \A d \in known'[u] : Owner[d] = u /\ life[d] # "not yet"
    BY <1>2 DEF DevicesOf
  <2>2. QED
    BY <1>2, <1>3, <2>1 DEF ReadInv, ListedInv
<1>5. \A s \in Sessions : \A d \in DOMAIN given[s] :
        d \in Devices /\ life[d] # "not yet" /\ (life[d] = "here" => d \in known'[Owner[d]])
  <2>1. SUFFICES ASSUME NEW s \in Sessions, NEW d \in DOMAIN given[s]
                 PROVE  d \in Devices /\ life[d] # "not yet" /\ (life[d] = "here" => d \in known'[Owner[d]])
    OBVIOUS
  <2>2. d \in Devices /\ life[d] # "not yet" /\ (life[d] = "here" => d \in known[Owner[d]])
    BY DEF ReadInv, ListedInv
  <2>3. Owner[d] \in Users
    BY <2>2, RoomKeysOK
  <2>4. CASE Owner[d] = u
    BY <1>2, <2>2, <2>4 DEF DevicesOf
  <2>5. CASE Owner[d] # u
    BY <1>2, <2>2, <2>3, <2>5
  <2>6. QED
    BY <2>4, <2>5
<1>6. ListedInv'
  BY <1>1, <1>4, <1>5 DEF ReadInv, ListedInv
<1>7. QED
  BY <1>1, <1>6, FrameMeant DEF ReadInv

\* A device that comes was never there before.
LEMMA LifeRead == ASSUME IInv, ReadInv, NEW d \in Devices, Login(d) \/ Logout(d) PROVE ReadInv'
<1>1. /\ doing = "nothing"
      /\ \/ life[d] = "not yet" /\ life' = [life EXCEPT ![d] = "here"]
         \/ life[d] = "here" /\ life' = [life EXCEPT ![d] = "gone"]
      /\ UNCHANGED <<outbound, given, doing, targets, listed, known, verifiedOnly, queries, sent, keys, claims>>
  BY DEF Login, Logout, Change, disk, memory
<1>2. DOMAIN life = Devices
  BY DEF ReadInv, ListedInv
<1>3. DOMAIN life' = Devices
      /\ \A e \in Devices : life[e] # "not yet" =>
           life'[e] # "not yet" /\ (life'[e] = "here" => life[e] = "here")
  BY <1>1, <1>2
<1>4. \A u \in Users : known[u] # NoKeys /\ known[u] \subseteq Devices
  BY DEF IInv, SessionTypeOK, ReadInv, ListedInv
<1>5. ListedInv'
  BY <1>1, <1>3, <1>4 DEF ReadInv, ListedInv
<1>6. QED
  BY <1>1, <1>5, FrameMeant DEF ReadInv

LEMMA NextRead == ASSUME IInv, Steady, ReadInv, [Next]_vars PROVE ReadInv'
<1> USE DEF disk, memory, world
<1>1. ~Crash /\ ~Toggle
  BY Calm DEF Crash, Toggle
<1>2. ASSUME NEW q \in queries, Queried(q) PROVE ReadInv'
  BY <1>2 DEF ReadInv, ListedInv
<1>3. ASSUME NEW u \in Users, Join(u) \/ Leave(u) PROVE ReadInv'
  BY <1>3, FrameMeant, FrameListed DEF Join, Leave, ReadInv
<1>4. ASSUME Age PROVE ReadInv'
  BY <1>4, FrameMeant, FrameListed DEF Age, ReadInv
<1>5. ASSUME UNCHANGED vars PROVE ReadInv'
  BY <1>5, FrameMeant, FrameListed DEF vars, ReadInv
<1>6. QED
  BY <1>1, <1>2, <1>3, <1>4, <1>5, PrepareRead, ShareRead, EncryptRead, QueueRead,
     ReencryptRead, ReplaceRead, ClaimedRead, RequestRead, StoredRead, LifeRead
  DEF Next, Send, MessageSent, Answers, Asks, World

\* encrypt_group_message rotates away from who is gone before it encrypts, and
\* handle_key_request_message forwards what was noted: a key that opens a
\* message is with somebody who was listed for it.  A reply that messageSent
\* encrypts again is read by whom the session's last message was listed for.
THEOREM OnlyListed == Spec => []OnlyListedRead
<1>1. Init => (Steady => ReadInv)
  BY InitRead
<1>2. IInv /\ (Steady => ReadInv) /\ [Next]_vars => (Steady => ReadInv)'
  <2>1. SUFFICES ASSUME IInv, Steady => ReadInv, [Next]_vars, Steady' PROVE ReadInv'
    OBVIOUS
  <2>2. Steady
    BY <2>1, ScenarioStays DEF Steady
  <2>3. QED
    BY <2>1, <2>2, NextRead
<1>3. (Steady => ReadInv) => OnlyListedRead
  BY DEF Steady, ReadInv, MeantInv, Entitled, MeantFor, OnlyListedRead
<1>4. QED
  BY <1>1, <1>2, <1>3, KeysInvariance, PTL DEF Spec
=============================================================================
