-------------------------------- MODULE Call --------------------------------
(***************************************************************************)
(* Voice and video calls: CallManager and WebRTCSession (src/src/voip).    *)
(*                                                                         *)
(* CallManager keeps one call: the id it is about (callid_ and roomid_     *)
(* change together, so one variable stands for both), an invite that       *)
(* waits for the user, and candidates that came before the user accepted.  *)
(* WebRTCSession drives a GStreamer pipeline.  The user, the events of     *)
(* /sync and the timers run on the main thread; GStreamer's threads emit   *)
(* signals that are queued to it and carry no call id.  A queued signal    *)
(* may be handled after the call it is about has ended.                    *)
(***************************************************************************)
EXTENDS Naturals, Sequences, FiniteSets

CONSTANTS
  Incoming,   \* ids of calls the other side places
  Outgoing,   \* ids of calls placed here (the clock at that time)
  NoCall,     \* the empty id
  MaxCalls    \* bound: how many calls take place

ASSUME CallsOK ==
  /\ Incoming \cap Outgoing = {}
  /\ NoCall \notin Incoming \cup Outgoing
  /\ MaxCalls \in Nat

VARIABLES
  manager,   \* CallManager's call
  session,   \* WebRTCSession and its pipeline
  queue,     \* signals queued to the main thread
  timers,    \* ids whose two minute invite timer is running
  sent,      \* call events this device has sent
  heard,     \* what has happened to a call: placed here, or heard by /sync
  env        \* environment: may signals be handled late, may the media fail

vars == <<manager, session, queue, timers, sent, heard, env>>

------------------------------------------------------------------------------

Calls == Incoming \cup Outgoing

States == {"DISCONNECTED", "ICEFAILED", "INITIATED", "OFFERSENT", "ANSWERSENT",
           "CONNECTING", "CONNECTED"}

\* CallManager::clear and WebRTCSession::clear
Cleared == [call |-> NoCall, invite |-> FALSE, sdp |-> NoCall, candidates |-> {}]
Idle    == [state |-> "DISCONNECTED", pipe |-> NoCall, offering |-> FALSE,
            gathered |-> FALSE, ice |-> "none"]

(* A definition marked "Variant" is the one after it with a mistake in it;  *)
(* Next does not use it.  It shows which mistake a property would reveal.   *)

\* A pipeline for call c; ICE starts once there is a remote description.
Pipeline(c, offers) ==
  [state |-> "INITIATED", pipe |-> c, offering |-> offers, gathered |-> FALSE,
   ice |-> IF offers THEN "none" ELSE "new"]

isOnCall == session.state # "DISCONNECTED"

Message(kind, c, sdp) == [kind |-> kind, call |-> c, sdp |-> sdp]

\* What a queued signal does when it is handled.
SetState(s)     == [does |-> "setState", arg |-> s]
Created(sdp)    == [does |-> "send", arg |-> sdp]
ConnectFailed   == [does |-> "hangUp", arg |-> NoCall]

\* Unless signals may be late, the main thread does nothing else before them.
Drained == env.late \/ queue = <<>>

------------------------------------------------------------------------------

\* Variants: endCall forgets the session, clear() forgets haveCallInvite_.
EndCallOnly     == session' = session /\ manager' = Cleared

\* WebRTCSession::end
End == session' = Idle

\* endCall.  End alone does the same by stateChanged, for the session is never
\* disconnected while it has a pipeline.
EndCall == End /\ manager' = Cleared

\* Variant: the other side is not told.
HangUpSilently ==
  IF manager.call = NoCall THEN UNCHANGED <<manager, session, sent>> ELSE EndCall /\ UNCHANGED sent

\* hangUp: nothing is sent or ended without an id.
HangUpCall ==
  IF manager.call = NoCall
    THEN UNCHANGED <<manager, session, sent>>
    ELSE EndCall /\ sent' = sent \cup {Message("hangup", manager.call, NoCall)}

Hear(kind, c) ==
  /\ [kind |-> kind, call |-> c] \notin heard
  /\ heard' = heard \cup {[kind |-> kind, call |-> c]}

Happened(kind, c) == [kind |-> kind, call |-> c] \in heard

\* A call begins; the bound is on how many do.
Begin(kind, c) ==
  /\ Cardinality({h \in heard : h.kind \in {"placed", "invite"}}) < MaxCalls
  /\ Hear(kind, c)

------------------------------------------------------------------------------
\* WebRTCSession

\* havePlugins, and a pipeline that starts, can be had.
MediaFail == env.broken

CreateOffer(c) == session' = Pipeline(c, TRUE)

\* Only a session that is disconnected takes an offer, and only one whose offer
\* is out takes an answer.
AcceptOffer(sdp) == ~isOnCall /\ session' = Pipeline(sdp, FALSE)

AcceptAnswer ==
  /\ session.state = "OFFERSENT"
  /\ session' = [session EXCEPT !.ice = IF @ = "none" THEN "new" ELSE @]

------------------------------------------------------------------------------
\* The user

\* sendInvite looks at the session only: an invite that waits is kept.
SendInvite(c) ==
  /\ Drained /\ c \in Outgoing
  /\ ~isOnCall
  /\ Begin("placed", c)
  /\ \/ /\ manager' = [manager EXCEPT !.call = c]
        /\ CreateOffer(c)
     \/ /\ MediaFail
        /\ EndCall
  /\ UNCHANGED <<queue, timers, sent, env>>

\* acceptInvite.  When the pipeline does not start, the session has ended and
\* cleared the call before hangUp looks for its id.
AcceptInvite ==
  /\ Drained /\ manager.invite
  /\ \/ /\ AcceptOffer(manager.sdp)
        /\ manager' = [manager EXCEPT !.invite = FALSE, !.candidates = {}]
        /\ UNCHANGED sent
     \/ /\ isOnCall \/ MediaFail
        /\ HangUpCall
     \/ /\ ~isOnCall /\ MediaFail
        /\ EndCall
        /\ UNCHANGED sent
  /\ UNCHANGED <<queue, timers, heard, env>>

HangUp ==
  /\ Drained
  /\ manager.call # NoCall
  /\ HangUpCall
  /\ UNCHANGED <<queue, timers, heard, env>>

------------------------------------------------------------------------------
\* Events of /sync

\* handleEvent(CallInvite): a second call is refused while one is up, but an
\* invite that waits is replaced.
InviteReceived(c) ==
  /\ Drained /\ c \in Incoming
  /\ Begin("invite", c)
  /\ IF isOnCall
       THEN /\ sent' = sent \cup {Message("hangup", c, NoCall)}
            /\ UNCHANGED manager
       ELSE /\ manager' = [call |-> c, invite |-> TRUE, sdp |-> c, candidates |-> {}]
            /\ UNCHANGED sent
  /\ UNCHANGED <<session, queue, timers, env>>

\* The other side knows of call c.
Known(c) == Happened("invite", c) \/ \E m \in sent : m.kind = "invite" /\ m.call = c

\* handleEvent(CallCandidates); what comes during the call goes to the pipeline.
CandidatesReceived(c) ==
  /\ Drained /\ Known(c)
  /\ manager' = IF manager.call = c /\ ~isOnCall
                  THEN [manager EXCEPT !.candidates = @ \cup {c}]
                  ELSE manager
  /\ UNCHANGED <<session, queue, timers, sent, heard, env>>

\* handleEvent(CallAnswer) of the other side
AnswerReceived(c) ==
  /\ Drained /\ c \in Outgoing /\ Known(c)
  /\ Hear("answer", c)
  /\ \/ /\ ~isOnCall \/ manager.call # c
        /\ UNCHANGED <<manager, session, sent>>
     \/ /\ isOnCall /\ manager.call = c
        /\ AcceptAnswer
        /\ UNCHANGED <<manager, sent>>
     \/ /\ isOnCall /\ manager.call = c
        /\ session.state # "OFFERSENT"
        /\ HangUpCall
     \/ /\ isOnCall /\ manager.call = c
        /\ session.state = "OFFERSENT" /\ MediaFail
        /\ EndCall
        /\ UNCHANGED sent
  /\ UNCHANGED <<queue, timers, env>>

\* handleEvent(CallAnswer) of another device of ours
AnsweredElsewhere(c) ==
  /\ Drained /\ c \in Incoming /\ Known(c)
  /\ manager' = IF manager.call = c /\ ~isOnCall
                  THEN [manager EXCEPT !.invite = FALSE]
                  ELSE manager
  /\ UNCHANGED <<session, queue, timers, sent, heard, env>>

HangUpReceived(c) ==
  /\ Drained /\ Known(c)
  /\ Hear("hangup", c)
  /\ IF manager.call = c THEN EndCall ELSE UNCHANGED <<manager, session>>
  /\ UNCHANGED <<queue, timers, sent, env>>

\* Variant: the timer only reports.
TimeoutReported(c) ==
  /\ Drained /\ c \in timers
  /\ timers' = timers \ {c}
  /\ UNCHANGED <<manager, session, queue, sent, heard, env>>

\* The timer of offerCreated: OFFERSENT, queued just behind the signal that
\* started it two minutes ago, has been handled.
InviteTimeout(c) ==
  /\ Drained /\ c \in timers
  /\ \A i \in DOMAIN queue : queue[i] # SetState("OFFERSENT")
  /\ timers' = timers \ {c}
  /\ IF session.state = "OFFERSENT" /\ manager.call = c
       THEN HangUpCall
       ELSE UNCHANGED <<manager, session, sent>>
  /\ UNCHANGED <<queue, heard, env>>

------------------------------------------------------------------------------
\* GStreamer

Post(signals) ==
  /\ queue' = queue \o signals
  /\ UNCHANGED <<manager, timers, sent, heard, env>>

\* iceGatheringStateChanged
GatheringComplete ==
  /\ Drained /\ session.pipe # NoCall /\ ~session.gathered
  /\ session' = [session EXCEPT !.gathered = TRUE]
  /\ Post(<<Created([kind |-> IF session.offering THEN "invite" ELSE "answer",
                     sdp |-> session.pipe]),
            SetState(IF session.offering THEN "OFFERSENT" ELSE "ANSWERSENT")>>)

\* iceConnectionStateChanged and linkNewPad
Checking ==
  /\ Drained /\ session.ice = "new"
  /\ session' = [session EXCEPT !.ice = "checking"]
  /\ Post(<<SetState("CONNECTING")>>)

Connected ==
  /\ Drained /\ session.ice = "checking"
  /\ session' = [session EXCEPT !.ice = "connected"]
  /\ Post(<<SetState("CONNECTED")>>)

IceFailed ==
  /\ Drained /\ session.ice \in {"checking", "connected"}
  /\ session' = [session EXCEPT !.ice = "over"]
  /\ Post(<<SetState("ICEFAILED"), ConnectFailed>>)

\* newBusMessage, on the main thread: an error or the end of a stream
BusMessage ==
  /\ Drained /\ env.broken /\ session.pipe # NoCall
  /\ EndCall
  /\ UNCHANGED <<queue, timers, sent, heard, env>>

\* The main thread handles the next queued signal.
Handle ==
  /\ queue # <<>>
  /\ queue' = Tail(queue)
  /\ LET signal == Head(queue)
     IN  \/ /\ signal.does = "setState"
            /\ session' = [session EXCEPT !.state = signal.arg]
            /\ UNCHANGED <<manager, timers, sent>>
         \/ /\ signal.does = "send"
            /\ sent' = sent \cup {Message(signal.arg.kind, manager.call, signal.arg.sdp)}
            /\ timers' = IF signal.arg.kind = "invite" THEN timers \cup {manager.call} ELSE timers
            /\ UNCHANGED <<manager, session>>
         \/ /\ signal.does = "hangUp"
            /\ HangUpCall
            /\ UNCHANGED timers
  /\ UNCHANGED <<heard, env>>

------------------------------------------------------------------------------

Init ==
  /\ manager = Cleared
  /\ session = Idle
  /\ queue = <<>>
  /\ timers = {}
  /\ sent = {}
  /\ heard = {}
  /\ env \in [late : BOOLEAN, broken : BOOLEAN]

User == AcceptInvite \/ HangUp \/ \E c \in Calls : SendInvite(c)
Sync == \E c \in Calls :
          \/ InviteReceived(c) \/ CandidatesReceived(c) \/ AnswerReceived(c)
          \/ AnsweredElsewhere(c) \/ HangUpReceived(c)
Media == GatheringComplete \/ Checking \/ Connected \/ IceFailed \/ BusMessage

Next == User \/ Sync \/ Media \/ Handle \/ \E c \in Calls \cup {NoCall} : InviteTimeout(c)

Spec == Init /\ [][Next]_vars

\* The pipeline gathers its candidates, the event loop turns, timers expire.
FairSpec ==
  /\ Spec
  /\ WF_vars(GatheringComplete) /\ WF_vars(Handle)
  /\ \A c \in Calls : WF_vars(InviteTimeout(c))

------------------------------------------------------------------------------
\* Properties

\* Every variable stays in its range; ids that reach the manager are real.
TypeOK ==
  /\ manager \in [call : Calls \cup {NoCall}, invite : BOOLEAN, sdp : Incoming \cup {NoCall},
                  candidates : SUBSET Calls]
  /\ session \in [state : States, pipe : Calls \cup {NoCall}, offering : BOOLEAN,
                  gathered : BOOLEAN, ice : {"none", "new", "checking", "connected", "over"}]
  /\ timers \subseteq Calls \cup {NoCall}

\* A pipeline never outlives its call: neither a second invite, nor an answer
\* from elsewhere, nor a late signal puts another id beside a live pipeline.
PipelineIsCurrent ==
  session.pipe # NoCall => isOnCall /\ manager.call = session.pipe

\* The invite the user may accept is the current call, even if a call was
\* placed or a second invite came while it waited.
InviteIsCurrent ==
  manager.invite /\ ~isOnCall => manager.sdp # NoCall /\ manager.call = manager.sdp

\* Signals handled in time leave no call without an id: such a call could not
\* be hung up and would refuse every other call.
CallHasId == ~env.late /\ isOnCall => manager.call # NoCall

\* Signals handled in time send each description under the id of its call.
SdpOfCall ==
  ~env.late => \A m \in sent : m.kind \in {"invite", "answer"} => m.call = m.sdp

\* A call whose invite or answer was sent does not just vanish: this side
\* hangs up or the other one did, unless the media fail.
OtherSideTold ==
  ~env.late /\ ~env.broken =>
    \A m \in sent : m.kind \in {"invite", "answer"} /\ manager.call # m.call =>
      Happened("hangup", m.call) \/ Message("hangup", m.call, NoCall) \in sent

\* An offer nobody answers is withdrawn: its timer outlives every order of
\* signals and of earlier calls.
RingingEnds ==
  \A c \in Calls :
    session.pipe = c /\ session.state = "OFFERSENT"
      ~> ~(session.pipe = c /\ session.state = "OFFERSENT")

=============================================================================
