----------------------------- MODULE CallProofs -----------------------------
(***************************************************************************)
(* Which call is current: for any ids and any number of calls, whatever    *)
(* the order of invites, answers, timers and late signals, and for signals *)
(* in time that every call has its id and every description goes with it.  *)
(***************************************************************************)
EXTENDS Call, TLAPS

\* What GStreamer's threads queue: no signal of theirs disconnects.
Descriptions == [kind : {"invite", "answer"}, sdp : Calls \cup {NoCall}]
StateSignals == {SetState(s) : s \in States \ {"DISCONNECTED"}}
Signals      == StateSignals \cup {Created(sdp) : sdp \in Descriptions} \cup {ConnectFailed}

\* A call placed here has a pipeline from the start, and only pipelines talk ICE.
PlacedHasPipeline ==
  /\ manager.call \in Outgoing => session.pipe = manager.call
  /\ session.ice # "none" => session.pipe # NoCall

\* The id of the pipeline and that of the invite depend on each other: an
\* accepted invite becomes the pipeline.
Current ==
  /\ TypeOK
  /\ queue \in Seq(Signals)
  /\ PipelineIsCurrent
  /\ InviteIsCurrent
  /\ PlacedHasPipeline

\* With signals in time, the queue holds what one callback has posted, about
\* the pipeline that is there.
OfPipeline(g) ==
  \/ g \in StateSignals
  \/ \E k \in {"invite", "answer"} : g = Created([kind |-> k, sdp |-> session.pipe])

QueueOfPipeline ==
  \A i \in DOMAIN queue :
    OfPipeline(queue[i]) \/ (queue[i] = ConnectFailed /\ i = Len(queue))

InTime ==
  ~env.late =>
    /\ isOnCall => session.pipe # NoCall
    /\ queue # <<>> => session.pipe # NoCall
    /\ QueueOfPipeline
    /\ SdpOfCall

IInv == Current /\ InTime

------------------------------------------------------------------------------

LEMMA InitIInv == Init => IInv
<1> SUFFICES ASSUME Init PROVE IInv
  OBVIOUS
<1>1. TypeOK /\ PipelineIsCurrent /\ InviteIsCurrent /\ PlacedHasPipeline
  BY CallsOK DEF Init, TypeOK, PipelineIsCurrent, InviteIsCurrent, PlacedHasPipeline, Cleared, Idle, States
<1>2. queue \in Seq(Signals)
  BY DEF Init
<1>3. InTime
  BY DEF Init, InTime, QueueOfPipeline, isOnCall, Idle, SdpOfCall
<1>4. QED
  BY <1>1, <1>2, <1>3 DEF IInv, Current

\* A call that ends leaves no id behind.
LEMMA EndCallCurrent ==
  ASSUME Current, EndCall, timers' \subseteq Calls \cup {NoCall}, queue' \in Seq(Signals)
  PROVE  Current'
BY CallsOK DEF Current, TypeOK, PipelineIsCurrent, InviteIsCurrent, PlacedHasPipeline, EndCall, End, Cleared,
               Idle, States, isOnCall

\* A step of the main thread that queues nothing: in time, it finds the queue
\* empty, sends no description and leaves a pipeline with the session.
LEMMA QuietInTime ==
  ASSUME IInv, Drained, UNCHANGED <<queue, env>>,
         \/ session'.state = "DISCONNECTED"
         \/ session'.pipe # NoCall
         \/ session'.state = session.state /\ session'.pipe = session.pipe,
         \A m \in sent' : m \in sent \/ m.kind = "hangup"
  PROVE  InTime'
<1> SUFFICES ASSUME ~env.late PROVE /\ isOnCall' => session'.pipe # NoCall
                                    /\ queue' = <<>>
                                    /\ SdpOfCall'
  BY DEF InTime, QueueOfPipeline
<1>1. queue' = <<>>
  BY DEF Drained
<1>2. isOnCall' => session'.pipe # NoCall
  BY DEF IInv, InTime, isOnCall
<1>3. SdpOfCall'
  BY DEF IInv, InTime, SdpOfCall
<1>4. QED
  BY <1>1, <1>2, <1>3

LEMMA EndCallIInv ==
  ASSUME IInv, Drained, EndCall, UNCHANGED <<queue, env>>,
         timers' \subseteq Calls \cup {NoCall},
         \A m \in sent' : m \in sent \/ m.kind = "hangup"
  PROVE  IInv'
<1>1. Current'
  BY EndCallCurrent DEF IInv, Current
<1>2. session'.state = "DISCONNECTED"
  BY DEF EndCall, End, Idle
<1>3. QED
  BY <1>1, <1>2, QuietInTime DEF IInv

\* hangUp ends the call or does nothing.
LEMMA HangUpCallIInv ==
  ASSUME IInv, Drained, HangUpCall, UNCHANGED <<queue, env>>,
         timers' \subseteq Calls \cup {NoCall}
  PROVE  IInv'
<1>1. CASE manager.call = NoCall
  <2>1. UNCHANGED <<manager, session, sent>>
    BY <1>1 DEF HangUpCall
  <2>2. Current'
    BY <2>1 DEF IInv, Current, TypeOK, PipelineIsCurrent, InviteIsCurrent, PlacedHasPipeline, isOnCall
  <2>3. QED
    BY <2>1, <2>2, QuietInTime DEF IInv
<1>2. CASE manager.call # NoCall
  <2>1. EndCall /\ \A m \in sent' : m \in sent \/ m.kind = "hangup"
    BY <1>2 DEF HangUpCall, Message
  <2>2. QED
    BY <2>1, EndCallIInv
<1>3. QED
  BY <1>1, <1>2

LEMMA SendInviteIInv ==
  ASSUME IInv, NEW c \in Calls, SendInvite(c)
  PROVE  IInv'
<1>0. Drained /\ UNCHANGED <<queue, env, sent, timers>> /\ Current
  BY DEF SendInvite, IInv
<1>1. CASE EndCall
  BY <1>0, <1>1, EndCallIInv DEF Current, TypeOK
<1>2. CASE manager' = [manager EXCEPT !.call = c] /\ session' = Pipeline(c, TRUE)
  <2>1. c # NoCall /\ session'.pipe # NoCall
    BY <1>2, CallsOK DEF Pipeline, Calls
  <2>2. TypeOK'
    BY <1>0, <1>2 DEF Current, TypeOK, Pipeline, States
  <2>3. PipelineIsCurrent' /\ InviteIsCurrent' /\ PlacedHasPipeline'
    BY <1>0, <1>2 DEF Current, TypeOK, PipelineIsCurrent, InviteIsCurrent, PlacedHasPipeline, isOnCall, Pipeline
  <2>4. Current'
    BY <1>0, <2>2, <2>3 DEF Current
  <2>5. QED
    BY <1>0, <2>1, <2>4, QuietInTime DEF IInv
<1>3. QED
  BY <1>1, <1>2 DEF SendInvite, CreateOffer

LEMMA AcceptInviteIInv ==
  ASSUME IInv, AcceptInvite
  PROVE  IInv'
<1>0. Drained /\ UNCHANGED <<queue, env, timers>> /\ Current
  BY DEF AcceptInvite, IInv
<1>1. CASE EndCall /\ UNCHANGED sent
  BY <1>0, <1>1, EndCallIInv DEF Current, TypeOK
<1>2. CASE HangUpCall
  BY <1>0, <1>2, HangUpCallIInv DEF Current, TypeOK
<1>3. CASE /\ ~isOnCall
           /\ session' = Pipeline(manager.sdp, FALSE)
           /\ manager' = [manager EXCEPT !.invite = FALSE, !.candidates = {}]
           /\ UNCHANGED sent
  <2>1. manager.sdp # NoCall /\ manager.call = manager.sdp
    BY <1>0, <1>3 DEF AcceptInvite, Current, InviteIsCurrent
  <2>2. TypeOK'
    BY <1>0, <1>3 DEF Current, TypeOK, Pipeline, States, Calls
  <2>3. PipelineIsCurrent' /\ InviteIsCurrent' /\ PlacedHasPipeline' /\ session'.pipe # NoCall
    BY <1>0, <1>3, <2>1 DEF Current, TypeOK, PipelineIsCurrent, InviteIsCurrent, PlacedHasPipeline, isOnCall, Pipeline
  <2>4. Current'
    BY <1>0, <2>2, <2>3 DEF Current
  <2>5. QED
    BY <1>0, <1>3, <2>3, <2>4, QuietInTime DEF IInv
<1>4. QED
  BY <1>1, <1>2, <1>3 DEF AcceptInvite, AcceptOffer

LEMMA InviteReceivedIInv ==
  ASSUME IInv, NEW c \in Calls, InviteReceived(c)
  PROVE  IInv'
<1>0. Drained /\ UNCHANGED <<session, queue, env, timers>> /\ Current /\ c \in Incoming
  BY DEF InviteReceived, IInv
<1>1. \A m \in sent' : m \in sent \/ m.kind = "hangup"
  BY DEF InviteReceived, Message
<1>2. CASE isOnCall
  <2>1. UNCHANGED manager
    BY <1>2 DEF InviteReceived
  <2>2. Current'
    BY <1>0, <2>1 DEF Current, TypeOK, PipelineIsCurrent, InviteIsCurrent, PlacedHasPipeline, isOnCall
  <2>3. QED
    BY <1>0, <1>1, <2>2, QuietInTime DEF IInv
<1>3. CASE ~isOnCall
  <2>1. manager' = [call |-> c, invite |-> TRUE, sdp |-> c, candidates |-> {}]
    BY <1>3 DEF InviteReceived
  <2>2. c # NoCall /\ c \notin Outgoing
    BY <1>0, CallsOK DEF Calls
  <2>3. TypeOK'
    BY <1>0, <2>1 DEF Current, TypeOK
  <2>4. PipelineIsCurrent' /\ InviteIsCurrent' /\ PlacedHasPipeline'
    BY <1>0, <1>3, <2>1, <2>2 DEF Current, PipelineIsCurrent, InviteIsCurrent, PlacedHasPipeline, isOnCall
  <2>5. Current'
    BY <1>0, <2>3, <2>4 DEF Current
  <2>6. QED
    BY <1>0, <1>1, <2>5, QuietInTime DEF IInv
<1>4. QED
  BY <1>2, <1>3

\* Candidates and answers on another device touch neither id nor session.
LEMMA AsideIInv ==
  ASSUME IInv, NEW c \in Calls, CandidatesReceived(c) \/ AnsweredElsewhere(c)
  PROVE  IInv'
<1>0. Drained /\ UNCHANGED <<session, queue, env, timers, sent>> /\ Current
  BY DEF CandidatesReceived, AnsweredElsewhere, IInv
<1>1. \/ UNCHANGED manager
      \/ manager' = [manager EXCEPT !.candidates = @ \cup {c}]
      \/ manager' = [manager EXCEPT !.invite = FALSE]
  BY DEF CandidatesReceived, AnsweredElsewhere
<1>2. TypeOK'
  <2>1. manager.candidates \cup {c} \in SUBSET Calls
    BY <1>0 DEF Current, TypeOK
  <2>2. CASE manager' = [manager EXCEPT !.candidates = @ \cup {c}]
    BY <1>0, <2>1, <2>2 DEF Current, TypeOK
  <2>3. CASE manager' = [manager EXCEPT !.invite = FALSE]
    BY <1>0, <2>3 DEF Current, TypeOK
  <2>4. CASE UNCHANGED manager
    BY <1>0, <2>4 DEF Current, TypeOK
  <2>5. QED
    BY <1>1, <2>2, <2>3, <2>4
<1>3. PipelineIsCurrent' /\ InviteIsCurrent' /\ PlacedHasPipeline'
  BY <1>0, <1>1 DEF Current, TypeOK, PipelineIsCurrent, InviteIsCurrent, PlacedHasPipeline, isOnCall
<1>4. Current'
  BY <1>0, <1>2, <1>3 DEF Current
<1>5. QED
  BY <1>0, <1>4, QuietInTime DEF IInv

LEMMA AnswerReceivedIInv ==
  ASSUME IInv, NEW c \in Calls, AnswerReceived(c)
  PROVE  IInv'
<1>0. Drained /\ UNCHANGED <<queue, env, timers>> /\ Current
  BY DEF AnswerReceived, IInv
<1>1. CASE EndCall /\ UNCHANGED sent
  BY <1>0, <1>1, EndCallIInv DEF Current, TypeOK
<1>2. CASE HangUpCall
  BY <1>0, <1>2, HangUpCallIInv DEF Current, TypeOK
<1>3. CASE /\ UNCHANGED <<manager, sent>>
           /\ \/ UNCHANGED session
              \/ /\ manager.call = c
                 /\ session' = [session EXCEPT !.ice = IF @ = "none" THEN "new" ELSE @]
  <2>1. TypeOK'
    BY <1>0, <1>3 DEF Current, TypeOK
  <2>2. session'.state = session.state /\ session'.pipe = session.pipe
    BY <1>0, <1>3 DEF Current, TypeOK
  <2>3. session.pipe # NoCall \/ UNCHANGED session
    BY <1>0, <1>3, CallsOK DEF AnswerReceived, Current, PlacedHasPipeline, Calls
  <2>4. PipelineIsCurrent' /\ InviteIsCurrent' /\ PlacedHasPipeline'
    BY <1>0, <1>3, <2>2, <2>3 DEF Current, PipelineIsCurrent, InviteIsCurrent, PlacedHasPipeline, isOnCall
  <2>5. Current'
    BY <1>0, <2>1, <2>4 DEF Current
  <2>6. QED
    BY <1>0, <1>3, <2>2, <2>5, QuietInTime DEF IInv
<1>4. QED
  BY <1>1, <1>2, <1>3 DEF AnswerReceived, AcceptAnswer

LEMMA HangUpReceivedIInv ==
  ASSUME IInv, NEW c \in Calls, HangUpReceived(c)
  PROVE  IInv'
<1>0. Drained /\ UNCHANGED <<queue, env, timers, sent>> /\ Current
  BY DEF HangUpReceived, IInv
<1>1. CASE EndCall
  BY <1>0, <1>1, EndCallIInv DEF Current, TypeOK
<1>2. CASE UNCHANGED <<manager, session>>
  <2>1. Current'
    BY <1>0, <1>2 DEF Current, TypeOK, PipelineIsCurrent, InviteIsCurrent, PlacedHasPipeline, isOnCall
  <2>2. QED
    BY <1>0, <1>2, <2>1, QuietInTime DEF IInv
<1>3. QED
  BY <1>1, <1>2 DEF HangUpReceived

LEMMA InviteTimeoutIInv ==
  ASSUME IInv, NEW c \in Calls \cup {NoCall}, InviteTimeout(c)
  PROVE  IInv'
<1>0. Drained /\ UNCHANGED <<queue, env>> /\ Current
  BY DEF InviteTimeout, IInv
<1>1. timers' \subseteq Calls \cup {NoCall}
  BY <1>0 DEF InviteTimeout, Current, TypeOK
<1>2. CASE HangUpCall
  BY <1>0, <1>1, <1>2, HangUpCallIInv
<1>3. CASE UNCHANGED <<manager, session, sent>>
  <2>1. Current'
    BY <1>0, <1>1, <1>3 DEF Current, TypeOK, PipelineIsCurrent, InviteIsCurrent, PlacedHasPipeline, isOnCall
  <2>2. QED
    BY <1>0, <1>3, <2>1, QuietInTime DEF IInv
<1>4. QED
  BY <1>2, <1>3 DEF InviteTimeout

\* What a callback of GStreamer does: it changes neither id nor state, and
\* queues signals about its own pipeline.
LEMMA PostIInv ==
  ASSUME IInv, Drained, session.pipe # NoCall, TypeOK', NEW signals \in Seq(Signals),
         Post(signals), session'.state = session.state, session'.pipe = session.pipe,
         \A i \in DOMAIN signals :
           OfPipeline(signals[i]) \/ (signals[i] = ConnectFailed /\ i = Len(signals))
  PROVE  IInv'
<1>1. /\ UNCHANGED <<manager, timers, sent, heard, env>>
      /\ queue' = queue \o signals /\ queue \in Seq(Signals)
  BY DEF Post, IInv, Current
<1>2. Current'
  <2>1. queue' \in Seq(Signals)
    BY <1>1
  <2>2. PipelineIsCurrent' /\ InviteIsCurrent' /\ PlacedHasPipeline'
    BY <1>1 DEF IInv, Current, PipelineIsCurrent, InviteIsCurrent, PlacedHasPipeline, isOnCall
  <2>3. QED
    BY <2>1, <2>2 DEF Current
<1>3. InTime'
  <2> SUFFICES ASSUME ~env.late
               PROVE  QueueOfPipeline' /\ SdpOfCall'
    BY <1>1 DEF InTime
  <2>1. queue' = signals
    BY <1>1 DEF Drained
  <2>2. SdpOfCall'
    BY <1>1 DEF IInv, InTime, SdpOfCall
  <2>3. ASSUME NEW g PROVE OfPipeline(g) => OfPipeline(g)'
    BY DEF OfPipeline
  <2>4. QueueOfPipeline'
    BY <2>1, <2>3 DEF QueueOfPipeline
  <2>5. QED
    BY <2>2, <2>4
<1>4. QED
  BY <1>2, <1>3 DEF IInv

LEMMA GatheringCompleteIInv ==
  ASSUME IInv, GatheringComplete
  PROVE  IInv'
<1> DEFINE sdp == [kind |-> IF session.offering THEN "invite" ELSE "answer", sdp |-> session.pipe]
<1> DEFINE state == SetState(IF session.offering THEN "OFFERSENT" ELSE "ANSWERSENT")
<1>1. TypeOK /\ session.pipe # NoCall /\ Drained /\ Post(<<Created(sdp), state>>)
  BY DEF GatheringComplete, IInv, Current
<1>2. session' = [session EXCEPT !.gathered = TRUE] /\ UNCHANGED <<manager, timers>>
  BY DEF GatheringComplete, Post
<1>3. TypeOK' /\ session'.state = session.state /\ session'.pipe = session.pipe
  BY <1>1, <1>2 DEF TypeOK
<1>4. sdp \in Descriptions /\ Created(sdp) \in Signals /\ OfPipeline(Created(sdp))
  <2>1. sdp \in Descriptions /\ sdp.kind \in {"invite", "answer"}
    BY <1>1 DEF Descriptions, TypeOK
  <2>2. OfPipeline(Created(sdp))
    BY <2>1 DEF OfPipeline
  <2>3. QED
    BY <2>1, <2>2 DEF Signals
<1>5. state \in StateSignals /\ state \in Signals /\ OfPipeline(state)
  BY DEF StateSignals, Signals, States, OfPipeline
<1> HIDE DEF sdp, state
<1>6. /\ <<Created(sdp), state>> \in Seq(Signals)
      /\ \A i \in DOMAIN <<Created(sdp), state>> : OfPipeline(<<Created(sdp), state>>[i])
  BY <1>4, <1>5
<1>7. QED
  BY <1>1, <1>3, <1>6, PostIInv

LEMMA IceIInv ==
  ASSUME IInv, Checking \/ Connected
  PROVE  IInv'
<1>1. PICK s \in {"CONNECTING", "CONNECTED"} : Post(<<SetState(s)>>)
  BY DEF Checking, Connected
<1>2. PICK i \in {"checking", "connected"} : session' = [session EXCEPT !.ice = i]
  BY DEF Checking, Connected
<1>3. /\ TypeOK /\ Drained /\ UNCHANGED <<manager, timers>>
      /\ session.pipe # NoCall
  BY <1>1 DEF Checking, Connected, IInv, Current, PlacedHasPipeline, Post
<1>4. TypeOK' /\ session'.state = session.state /\ session'.pipe = session.pipe
  BY <1>2, <1>3 DEF TypeOK
<1>5. SetState(s) \in Signals /\ OfPipeline(SetState(s))
  BY DEF StateSignals, Signals, States, OfPipeline
<1> DEFINE state == SetState(s)
<1>6. Post(<<state>>) /\ state \in Signals /\ OfPipeline(state)
  BY <1>1, <1>5
<1> HIDE DEF state
<1>7. /\ <<state>> \in Seq(Signals)
      /\ \A j \in DOMAIN <<state>> : OfPipeline(<<state>>[j])
  BY <1>6
<1>8. QED
  BY <1>3, <1>4, <1>6, <1>7, PostIInv

LEMMA IceFailedIInv ==
  ASSUME IInv, IceFailed
  PROVE  IInv'
<1> DEFINE state == SetState("ICEFAILED")
<1>1. /\ TypeOK /\ Drained /\ session.pipe # NoCall
      /\ Post(<<state, ConnectFailed>>)
  BY DEF IceFailed, IInv, Current, PlacedHasPipeline
<1>2. session' = [session EXCEPT !.ice = "over"] /\ UNCHANGED <<manager, timers>>
  BY DEF IceFailed, Post
<1>3. TypeOK' /\ session'.state = session.state /\ session'.pipe = session.pipe
  BY <1>1, <1>2 DEF TypeOK
<1>4. state \in Signals /\ OfPipeline(state) /\ ConnectFailed \in Signals
  BY DEF StateSignals, Signals, States, OfPipeline
<1> HIDE DEF state
<1>5. /\ <<state, ConnectFailed>> \in Seq(Signals)
      /\ \A i \in DOMAIN <<state, ConnectFailed>> :
           \/ OfPipeline(<<state, ConnectFailed>>[i])
           \/ /\ <<state, ConnectFailed>>[i] = ConnectFailed
              /\ i = Len(<<state, ConnectFailed>>)
  BY <1>4
<1>6. QED
  BY <1>1, <1>3, <1>5, PostIInv

LEMMA BusMessageIInv ==
  ASSUME IInv, BusMessage
  PROVE  IInv'
BY EndCallIInv DEF BusMessage, IInv, Current, TypeOK

------------------------------------------------------------------------------

\* The three kinds of signal are told apart by what they do.
LEMMA StateSignal ==
  ASSUME NEW g \in StateSignals
  PROVE  g.does = "setState" /\ g.arg \in States \ {"DISCONNECTED"}
<1>1. PICK s \in States \ {"DISCONNECTED"} : g = SetState(s)
  BY DEF StateSignals
<1>2. QED
  BY <1>1 DEF SetState

\* What is left of the queue is still about the pipeline that is there.
LEMMA TailOfPipeline ==
  ASSUME queue \in Seq(Signals), queue # <<>>, queue' = Tail(queue),
         QueueOfPipeline, session'.pipe = session.pipe
  PROVE  QueueOfPipeline'
<1>1. /\ Len(queue') = Len(queue) - 1 /\ Len(queue) \in Nat
      /\ \A i \in DOMAIN queue' : i + 1 \in DOMAIN queue /\ queue'[i] = queue[i + 1] /\ i \in Nat
  OBVIOUS
<1>2. ASSUME NEW g PROVE OfPipeline(g) => OfPipeline(g)'
  BY DEF OfPipeline
<1>3. ASSUME NEW i \in DOMAIN queue'
      PROVE  OfPipeline(queue'[i]) \/ (queue'[i] = ConnectFailed /\ i = Len(queue'))
  <2>1. OfPipeline(queue[i + 1]) \/ (queue[i + 1] = ConnectFailed /\ i + 1 = Len(queue))
    BY <1>1 DEF QueueOfPipeline
  <2>2. QED
    BY <1>1, <2>1
<1>4. QED
  BY <1>2, <1>3 DEF QueueOfPipeline

\* A signal that reports a state: no signal disconnects the session.
LEMMA HandleStateIInv ==
  ASSUME IInv, Handle, Head(queue) \in StateSignals,
         session' = [session EXCEPT !.state = Head(queue).arg],
         UNCHANGED <<manager, timers, sent>>
  PROVE  IInv'
<1>1. Current /\ queue \in Seq(Signals) /\ queue # <<>> /\ queue' = Tail(queue) /\ UNCHANGED env
  BY DEF Handle, IInv, Current
<1>2. Head(queue).arg \in States \ {"DISCONNECTED"}
  BY StateSignal
<1>3. session'.pipe = session.pipe /\ session'.ice = session.ice /\ isOnCall' /\ TypeOK'
  BY <1>1, <1>2 DEF Current, TypeOK, isOnCall
<1>4. PipelineIsCurrent' /\ InviteIsCurrent' /\ PlacedHasPipeline'
  BY <1>1, <1>3 DEF Current, PipelineIsCurrent, InviteIsCurrent, PlacedHasPipeline
<1>5. Current'
  BY <1>1, <1>3, <1>4 DEF Current
<1>6. InTime'
  BY <1>1, <1>3, TailOfPipeline DEF IInv, InTime, SdpOfCall
<1>7. QED
  BY <1>5, <1>6 DEF IInv

\* A signal that sends a description: in time, it is that of the pipeline,
\* whose id is the current one.
LEMMA HandleDescriptionIInv ==
  ASSUME IInv, Handle, NEW sdp \in Descriptions, Head(queue) = Created(sdp),
         sent' = sent \cup {Message(sdp.kind, manager.call, sdp.sdp)},
         timers' = IF sdp.kind = "invite" THEN timers \cup {manager.call} ELSE timers,
         UNCHANGED <<manager, session>>
  PROVE  IInv'
<1>1. Current /\ queue \in Seq(Signals) /\ queue # <<>> /\ queue' = Tail(queue) /\ UNCHANGED env
  BY DEF Handle, IInv, Current
<1>2. TypeOK'
  BY <1>1 DEF Current, TypeOK
<1>3. PipelineIsCurrent' /\ InviteIsCurrent' /\ PlacedHasPipeline'
  BY <1>1 DEF Current, PipelineIsCurrent, InviteIsCurrent, PlacedHasPipeline, isOnCall
<1>4. Current'
  BY <1>1, <1>2, <1>3 DEF Current
<1>5. InTime'
  <2> SUFFICES ASSUME ~env.late
               PROVE  QueueOfPipeline' /\ SdpOfCall' /\ session.pipe # NoCall
    BY <1>1 DEF InTime
  <2>1. session.pipe # NoCall /\ QueueOfPipeline /\ SdpOfCall
    BY <1>1 DEF IInv, InTime
  <2>2. OfPipeline(Created(sdp))
    BY <1>1, <2>1 DEF QueueOfPipeline, Created, ConnectFailed
  <2>3. sdp.sdp = session.pipe
    <3>1. Created(sdp) \notin StateSignals
      BY StateSignal DEF Created
    <3>2. PICK k \in {"invite", "answer"} : Created(sdp) = Created([kind |-> k, sdp |-> session.pipe])
      BY <2>2, <3>1 DEF OfPipeline
    <3>3. Created(sdp).arg = sdp /\ Created(sdp).arg = [kind |-> k, sdp |-> session.pipe]
      BY <3>2 DEF Created
    <3>4. QED
      BY <3>3
  <2>4. SdpOfCall'
    BY <1>1, <2>1, <2>3 DEF Current, PipelineIsCurrent, SdpOfCall, Message
  <2>5. QED
    BY <1>1, <2>1, <2>4, TailOfPipeline
<1>6. QED
  BY <1>4, <1>5 DEF IInv

\* A signal that ends the call: in time, it is the last one queued.
LEMMA HandleConnectFailedIInv ==
  ASSUME IInv, Handle, Head(queue) = ConnectFailed, HangUpCall, UNCHANGED timers
  PROVE  IInv'
<1>1. Current /\ queue \in Seq(Signals) /\ queue # <<>> /\ queue' = Tail(queue) /\ UNCHANGED env
  BY DEF Handle, IInv, Current
<1>2. queue' \in Seq(Signals)
  BY <1>1
<1>3. CASE manager.call = NoCall
  <2>1. UNCHANGED <<manager, session, sent>>
    BY <1>3 DEF HangUpCall
  <2>2. Current'
    BY <1>1, <1>2, <2>1 DEF Current, TypeOK, PipelineIsCurrent, InviteIsCurrent, PlacedHasPipeline, isOnCall
  <2>3. InTime'
    BY <1>1, <2>1, TailOfPipeline DEF IInv, InTime, isOnCall, SdpOfCall
  <2>4. QED
    BY <2>2, <2>3 DEF IInv
<1>4. CASE manager.call # NoCall
  <2>1. EndCall /\ sent' = sent \cup {Message("hangup", manager.call, NoCall)}
    BY <1>4 DEF HangUpCall
  <2>2. Current'
    BY <1>1, <1>2, <2>1, EndCallCurrent DEF Current, TypeOK
  <2>3. InTime'
    <3> SUFFICES ASSUME ~env.late PROVE ~isOnCall' /\ queue' = <<>> /\ SdpOfCall'
      BY <1>1 DEF InTime, QueueOfPipeline
    <3>1. QueueOfPipeline /\ SdpOfCall
      BY DEF IInv, InTime
    <3>2. ~OfPipeline(ConnectFailed)
      BY StateSignal DEF OfPipeline, Created, ConnectFailed
    <3>3. Len(queue) = 1
      <4>1. queue[1] = ConnectFailed /\ 1 \in DOMAIN queue
        BY <1>1
      <4>2. OfPipeline(queue[1]) \/ 1 = Len(queue)
        BY <3>1, <4>1 DEF QueueOfPipeline
      <4>3. QED
        BY <3>2, <4>1, <4>2
    <3>4. queue' = <<>>
      BY <1>1, <3>3
    <3>5. ~isOnCall'
      BY <2>1 DEF EndCall, End, Idle, isOnCall
    <3>6. SdpOfCall'
      BY <1>1, <2>1, <3>1 DEF SdpOfCall, Message
    <3>7. QED
      BY <3>4, <3>5, <3>6
  <2>4. QED
    BY <2>2, <2>3 DEF IInv
<1>5. QED
  BY <1>3, <1>4

LEMMA HandleIInv ==
  ASSUME IInv, Handle
  PROVE  IInv'
<1>1. Head(queue) \in Signals
  BY DEF Handle, IInv, Current
<1>2. CASE Head(queue) \in StateSignals
  <2>1. Head(queue).does = "setState"
    BY <1>2, StateSignal
  <2>2. QED
    BY <1>2, <2>1, HandleStateIInv DEF Handle
<1>3. CASE \E sdp \in Descriptions : Head(queue) = Created(sdp)
  <2>1. PICK sdp \in Descriptions : Head(queue) = Created(sdp)
    BY <1>3
  <2>2. Head(queue).does = "send" /\ Head(queue).arg = sdp
    BY <2>1 DEF Created
  <2>3. QED
    BY <2>1, <2>2, HandleDescriptionIInv DEF Handle
<1>4. CASE Head(queue) = ConnectFailed
  <2>1. Head(queue).does = "hangUp"
    BY <1>4 DEF ConnectFailed
  <2>2. QED
    BY <1>4, <2>1, HandleConnectFailedIInv DEF Handle
<1>5. QED
  BY <1>1, <1>2, <1>3, <1>4 DEF Signals

LEMMA NextIInv ==
  ASSUME IInv, [Next]_vars
  PROVE  IInv'
<1>1. CASE User
  BY <1>1, AcceptInviteIInv, SendInviteIInv, HangUpCallIInv DEF User, HangUp, IInv, Current, TypeOK
<1>2. CASE Sync
  BY <1>2, InviteReceivedIInv, AsideIInv, AnswerReceivedIInv, HangUpReceivedIInv DEF Sync
<1>3. CASE Media
  BY <1>3, GatheringCompleteIInv, IceIInv, IceFailedIInv, BusMessageIInv DEF Media
<1>4. CASE Handle
  BY <1>4, HandleIInv
<1>5. CASE \E c \in Calls \cup {NoCall} : InviteTimeout(c)
  BY <1>5, InviteTimeoutIInv
<1>6. CASE UNCHANGED vars
  <2>1. Current'
    BY <1>6 DEF vars, IInv, Current, TypeOK, PipelineIsCurrent, InviteIsCurrent, PlacedHasPipeline, isOnCall
  <2>2. InTime'
    BY <1>6 DEF vars, IInv, InTime, isOnCall, QueueOfPipeline, OfPipeline, SdpOfCall
  <2>3. QED
    BY <2>1, <2>2 DEF IInv
<1>7. QED
  BY <1>1, <1>2, <1>3, <1>4, <1>5, <1>6 DEF Next

------------------------------------------------------------------------------
\* Theorems

\* The inductive invariant holds in every behaviour of the call machinery
\* (CallManager.cpp, WebRTCSession.cpp), for any ids and any number of calls.
THEOREM CallInvariance == Spec => []IInv
<1>1. Init => IInv
  BY InitIInv
<1>2. IInv /\ [Next]_vars => IInv'
  BY NextIInv
<1>3. QED
  BY <1>1, <1>2, PTL DEF Spec

\* Every variable of CallManager and WebRTCSession stays in its range, and
\* ids that reach the manager are real.
THEOREM CallTypeCorrect == Spec => []TypeOK
<1>1. IInv => TypeOK
  BY DEF IInv, Current
<1>2. QED
  BY <1>1, CallInvariance, PTL

\* WebRTCSession's pipeline never outlives CallManager's call, also when
\* signals are handled late and the media fail.
THEOREM PipelineNeverOutlivesCall == Spec => []PipelineIsCurrent
<1>1. IInv => PipelineIsCurrent
  BY DEF IInv, Current
<1>2. QED
  BY <1>1, CallInvariance, PTL

\* The invite that acceptInvite would start (inviteSDP_) is that of the
\* current call, although sendInvite does not look whether one waits.
THEOREM AcceptedInviteIsCurrent == Spec => []InviteIsCurrent
<1>1. IInv => InviteIsCurrent
  BY DEF IInv, Current
<1>2. QED
  BY <1>1, CallInvariance, PTL

\* With signals in time, a session that is up has a call that hangUp can end.
THEOREM SessionHasCall == Spec => []CallHasId
<1>1. IInv => CallHasId
  BY DEF IInv, Current, InTime, PipelineIsCurrent, CallHasId
<1>2. QED
  BY <1>1, CallInvariance, PTL

\* With signals in time, offerCreated and answerCreated send each description
\* under the id of the call it was made for.
THEOREM DescriptionOfItsCall == Spec => []SdpOfCall
<1>1. IInv => SdpOfCall
  BY DEF IInv, InTime, SdpOfCall
<1>2. QED
  BY <1>1, CallInvariance, PTL

------------------------------------------------------------------------------
(* Who learns that a call is over                                           *)

Told(c) == Happened("hangup", c) \/ Message("hangup", c, NoCall) \in sent

Kept(c) == session.pipe = c /\ c # NoCall

\* A call whose description was sent keeps its pipeline until a hang-up.
ToldInv ==
  ~env.late /\ ~env.broken =>
    \A m \in sent : m.kind \in {"invite", "answer"} => Told(m.call) \/ Kept(m.call)

\* Steps that send no description and take no pipeline away, or tell of it.
LEMMA QuietTold ==
  ASSUME ToldInv, env' = env, heard \subseteq heard', sent \subseteq sent',
         \A m \in sent' : m \in sent \/ m.kind = "hangup",
         ~env.late /\ ~env.broken => \A c : Kept(c) => session'.pipe = c \/ Told(c)'
  PROVE  ToldInv'
<1> SUFFICES ASSUME ~env.late, ~env.broken, NEW m \in sent, m.kind \in {"invite", "answer"}
             PROVE  Told(m.call)' \/ Kept(m.call)'
  BY DEF ToldInv
<1>1. CASE Told(m.call)
  BY <1>1 DEF Told, Happened
<1>2. CASE Kept(m.call)
  BY <1>2 DEF Kept
<1>3. QED
  BY <1>1, <1>2 DEF ToldInv

\* hangUp sends to the call it ends, which is that of the pipeline.
LEMMA HangUpTold ==
  ASSUME IInv, ToldInv, HangUpCall, env' = env, heard \subseteq heard'
  PROVE  ToldInv'
<1>1. session.pipe # NoCall => manager.call = session.pipe
  BY DEF IInv, Current, PipelineIsCurrent
<1>2. CASE manager.call = NoCall
  BY <1>1, <1>2, QuietTold DEF HangUpCall, Kept
<1>3. CASE manager.call # NoCall
  <2>1. sent' = sent \cup {Message("hangup", manager.call, NoCall)}
    BY <1>3 DEF HangUpCall
  <2>2. \A m \in sent' : m \in sent \/ m.kind = "hangup"
    BY <2>1 DEF Message
  <2>3. \A c : Kept(c) => Told(c)'
    BY <1>1, <2>1 DEF Told, Kept
  <2>4. QED
    BY <2>1, <2>2, <2>3, QuietTold
<1>4. QED
  BY <1>2, <1>3

LEMMA HandleTold == ASSUME IInv, ToldInv, Handle PROVE ToldInv'
<1> SUFFICES ASSUME ~env.late, ~env.broken PROVE ToldInv'
  BY DEF ToldInv, Handle
<1>1. Head(queue) \in Signals /\ queue # <<>> /\ queue \in Seq(Signals)
      /\ UNCHANGED <<heard, env>>
  BY DEF Handle, IInv, Current
<1>2. CASE Head(queue) \in StateSignals
  <2>1. session' = [session EXCEPT !.state = Head(queue).arg] /\ UNCHANGED sent
    BY <1>2, StateSignal DEF Handle
  <2>2. session'.pipe = session.pipe
    BY <2>1 DEF IInv, Current, TypeOK
  <2>3. QED
    BY <1>1, <2>1, <2>2, QuietTold DEF Kept
<1>3. CASE \E sdp \in Descriptions : Head(queue) = Created(sdp)
  <2>1. PICK sdp \in Descriptions : Head(queue) = Created(sdp)
    BY <1>3
  <2>2. /\ Head(queue).does = "send" /\ Head(queue).arg = sdp
    BY <2>1 DEF Created
  <2>3. sent' = sent \cup {Message(sdp.kind, manager.call, sdp.sdp)} /\ UNCHANGED session
    BY <2>2 DEF Handle
  <2>4. session.pipe # NoCall /\ session.pipe = manager.call
    BY <1>1 DEF IInv, InTime, Current, PipelineIsCurrent
  <2>5. \A c : (Told(c) => Told(c)') /\ (Kept(c) => Kept(c)')
    BY <1>1, <2>3 DEF Told, Happened, Kept
  <2>6. \A m \in sent' : m \in sent \/ Kept(m.call)'
    BY <2>3, <2>4 DEF Message, Kept
  <2>7. QED
    BY <1>1, <2>5, <2>6 DEF ToldInv
<1>4. CASE Head(queue) = ConnectFailed
  <2>1. HangUpCall
    BY <1>4 DEF Handle, ConnectFailed
  <2>2. QED
    BY <1>1, <2>1, HangUpTold
<1>5. QED
  BY <1>1, <1>2, <1>3, <1>4 DEF Signals

\* A call is only replaced where there is no pipeline.
LEMMA ReplaceTold ==
  ASSUME IInv, ToldInv, ~isOnCall, UNCHANGED <<sent, env>>, heard \subseteq heard'
  PROVE  ToldInv'
BY QuietTold DEF IInv, Current, PipelineIsCurrent, Kept

LEMMA NextTold == ASSUME IInv, ToldInv, [Next]_vars PROVE ToldInv'
<1>0. session \in [state : States, pipe : Calls \cup {NoCall}, offering : BOOLEAN,
                  gathered : BOOLEAN, ice : {"none", "new", "checking", "connected", "over"}]
  BY DEF IInv, Current, TypeOK
<1>1. ASSUME NEW c \in Calls, SendInvite(c) PROVE ToldInv'
  BY <1>1, ReplaceTold DEF SendInvite, Begin, Hear
<1>2. ASSUME AcceptInvite PROVE ToldInv'
  <2>1. UNCHANGED <<heard, env>>
    BY <1>2 DEF AcceptInvite
  <2>2. QED
    BY <1>2, <2>1, ReplaceTold, HangUpTold DEF AcceptInvite, AcceptOffer
<1>3. ASSUME HangUp PROVE ToldInv'
  BY <1>3, HangUpTold DEF HangUp
<1>4. ASSUME NEW c \in Calls, InviteReceived(c) PROVE ToldInv'
  <2>1. sent' = sent \/ sent' = sent \cup {Message("hangup", c, NoCall)}
    BY <1>4 DEF InviteReceived
  <2>2. \A m \in sent' : m \in sent \/ m.kind = "hangup"
    BY <2>1 DEF Message
  <2>3. QED
    BY <1>4, <2>1, <2>2, QuietTold DEF Kept, InviteReceived, Begin, Hear
<1>5. ASSUME NEW c \in Calls, CandidatesReceived(c) \/ AnsweredElsewhere(c) PROVE ToldInv'
  BY <1>5, QuietTold DEF Kept, CandidatesReceived, AnsweredElsewhere
<1>6. ASSUME NEW c \in Calls, AnswerReceived(c) PROVE ToldInv'
  <2>1. heard \subseteq heard' /\ env' = env
    BY <1>6 DEF AnswerReceived, Hear
  <2>2. CASE HangUpCall
    BY <2>1, <2>2, HangUpTold
  <2>3. CASE UNCHANGED sent /\ (session'.pipe = session.pipe \/ MediaFail)
    BY <2>1, <2>3, QuietTold DEF Kept, MediaFail
  <2>4. AcceptAnswer => session'.pipe = session.pipe
    BY <1>0 DEF AcceptAnswer
  <2>5. QED
    BY <1>6, <2>2, <2>3, <2>4 DEF AnswerReceived
<1>7. ASSUME NEW c \in Calls, HangUpReceived(c) PROVE ToldInv'
  <2>1. /\ heard' = heard \cup {[kind |-> "hangup", call |-> c]} /\ UNCHANGED <<sent, env>>
        /\ manager.call = c \/ UNCHANGED session
    BY <1>7 DEF HangUpReceived, Hear
  <2>2. Told(c)'
    BY <2>1 DEF Told, Happened
  <2>3. \A b : Kept(b) => manager.call = b
    BY DEF IInv, Current, PipelineIsCurrent, Kept
  <2>4. \A b : Kept(b) => session'.pipe = b \/ Told(b)'
    BY <2>1, <2>2, <2>3 DEF Kept
  <2>5. QED
    BY <2>1, <2>4, QuietTold
<1>8. ASSUME GatheringComplete \/ Checking \/ Connected \/ IceFailed PROVE ToldInv'
  <2>1. UNCHANGED <<sent, heard, env>> /\ session'.pipe = session.pipe
    BY <1>0, <1>8 DEF GatheringComplete, Checking, Connected, IceFailed, Post
  <2>2. QED
    BY <2>1, QuietTold DEF Kept
<1>9. ASSUME BusMessage PROVE ToldInv'
  BY <1>9 DEF BusMessage, ToldInv
<1>10. ASSUME NEW c, InviteTimeout(c) PROVE ToldInv'
  <2>1. UNCHANGED <<heard, env>>
    BY <1>10 DEF InviteTimeout
  <2>2. CASE HangUpCall
    BY <2>1, <2>2, HangUpTold
  <2>3. CASE UNCHANGED <<session, sent>>
    BY <2>1, <2>3, QuietTold DEF Kept
  <2>4. QED
    BY <1>10, <2>2, <2>3 DEF InviteTimeout
<1>11. ASSUME UNCHANGED vars PROVE ToldInv'
  BY <1>11, QuietTold DEF Kept, vars
<1>12. QED
  BY <1>1, <1>2, <1>3, <1>4, <1>5, <1>6, <1>7, <1>8, <1>9, <1>10, <1>11, HandleTold
     DEF Next, User, Sync, Media

\* CallManager: with signals in time and media that work, a call of which an
\* invite or an answer went out is over only after a hang-up, ours or theirs.
THEOREM NobodyIsLeftRinging == Spec => []OtherSideTold
<1>1. Init => ToldInv
  BY DEF Init, ToldInv
<1>2. IInv /\ ToldInv /\ [Next]_vars => ToldInv'
  BY NextTold
<1>3. IInv /\ ToldInv => OtherSideTold
  BY DEF IInv, Current, PipelineIsCurrent, ToldInv, OtherSideTold, Told, Kept
<1>4. QED
  BY <1>1, <1>2, <1>3, CallInvariance, PTL DEF Spec
=============================================================================
