---------------------------- MODULE OlmChannels ----------------------------
(***************************************************************************)
(* The encrypted channels between this device and one device of a peer:    *)
(* Olm.cpp's handling of encrypted to-device messages, and its sending of  *)
(* events to devices, with the sessions Cache.cpp keeps.                   *)
(*                                                                         *)
(* A session is a number.  "ours" holds the sessions stored under the      *)
(* peer's key, by the time of their last stored message.  The session that *)
(* has just decrypted a message is stored under its own id instead         *)
(* (Olm.cpp:715), in "misfiled", where nothing looks for it: its time      *)
(* under the peer's key stays.  The peer is not assumed to repair anything.*)
(*                                                                         *)
(* Scenarios: "forget" the peer loses its sessions ("midway": also while   *)
(* something is on its way), "rollback" a power failure loses our newest   *)
(* ones (MDB_NOSYNC), "crash" the program ends anywhere, "reorder" the     *)
(* queries for the sender's keys are answered in any order, "error"        *)
(* queries and claims fail, "unlisted" the peer's device is not yet in     *)
(* our list.                                                               *)
(***************************************************************************)
EXTENDS Integers, SequencesExt, DeviceEnv

CONSTANTS MaxSessions,   \* bound: sessions opened
          MaxOnTheWay,   \* bound: messages on their way
          MaxBreaks      \* bound: losses, crashes and errors

VARIABLES ours, misfiled,
          spent,      \* the peer's sessions whose one-time key we used up
          limited,    \* rateLimit: a session was asked for in the last ten hours
          listed,     \* the peer's device is in the list of its keys
          asked,      \* messages that wait for query_keys
          claiming, querying,   \* requests of send_encrypted_to_device_messages
          fromPeer, toPeer, peer, sessions, breaks

channelsVars == <<ours, misfiled, spent, limited, listed, asked, claiming, querying,
                  fromPeer, toPeer, peer, sessions, breaks>>

NoSession == 0
Break == breaks < MaxBreaks /\ breaks' = breaks + 1

-----------------------------------------------------------------------------
(* The store.                                                              *)

\* saveOlmSession under the peer's key: the session becomes the latest.
Besides(s) == IF s \in Range(ours)
             THEN RemoveAt(ours, CHOOSE i \in DOMAIN ours : ours[i] = s) ELSE ours

SaveOlmSession(s) == Append(Besides(s), s)

GetOlmSessions == Range(ours)

\* Variant: the first of the store.
FirstOlmSession(store) == Head(store)

GetLatestOlmSession(store) == Last(store)

-----------------------------------------------------------------------------
(* send_encrypted_to_device_messages.                                      *)

\* A device that is not in the list is queried first.
QueryFirst ==
  /\ ~listed
  /\ querying' = TRUE
  /\ UNCHANGED <<ours, toPeer, claiming, limited>>

\* A new session, unless one was asked for within ten hours: then nothing is sent.
SendInNewSession ==
  /\ listed
  /\ claiming' = (claiming \/ ~limited)
  /\ limited' = TRUE
  /\ UNCHANGED <<ours, toPeer, querying>>

SendInLatestSession ==
  /\ listed
  /\ toPeer' = Append(toPeer, GetLatestOlmSession(ours))
  /\ ours' = SaveOlmSession(GetLatestOlmSession(ours))
  /\ UNCHANGED <<claiming, limited, querying>>

SendEncrypted(forceNewSession) ==
  \/ QueryFirst
  \/ (forceNewSession \/ ours = <<>>) /\ SendInNewSession
  \/ ~forceNewSession /\ ours # <<>> /\ SendInLatestSession

\* Any event for the peer.
Send ==
  /\ Len(toPeer) < MaxOnTheWay
  /\ SendEncrypted(FALSE)
  /\ UNCHANGED <<misfiled, spent, listed, asked, fromPeer, peer, sessions, breaks>>

\* The answer lists the device, and a session is opened whatever there is.
QueryAnswered ==
  /\ querying
  /\ querying' = FALSE
  /\ \/ /\ listed' = TRUE
        /\ claiming' = (claiming \/ ~limited)
        /\ limited' = TRUE
        /\ UNCHANGED breaks
     \/ May("error") /\ Break /\ UNCHANGED <<listed, claiming, limited>>
  /\ UNCHANGED <<ours, misfiled, spent, asked, fromPeer, toPeer, peer, sessions>>

\* BindPks: without a key nothing is sent, and the limit stays.
ClaimAnswered ==
  /\ claiming
  /\ claiming' = FALSE
  /\ \/ /\ sessions < MaxSessions
        /\ sessions' = sessions + 1
        /\ ours' = SaveOlmSession(sessions')
        /\ toPeer' = Append(toPeer, sessions')
        /\ peer' = [peer EXCEPT !.openable = @ \cup {sessions'}]
        /\ UNCHANGED breaks
     \/ May("error") /\ Break /\ UNCHANGED <<ours, toPeer, peer, sessions>>
  /\ UNCHANGED <<misfiled, spent, limited, listed, asked, querying, fromPeer>>

TenHours ==
  /\ limited /\ ~claiming
  /\ limited' = FALSE
  /\ UNCHANGED <<ours, misfiled, spent, listed, asked, claiming, querying,
                 fromPeer, toPeer, peer, sessions, breaks>>

-----------------------------------------------------------------------------
(* handle_to_device_messages and handle_olm_message.                       *)

HandleToDevice ==
  /\ fromPeer # <<>>
  /\ asked' = Append(asked, Head(fromPeer))
  /\ fromPeer' = Tail(fromPeer)
  /\ UNCHANGED <<ours, misfiled, spent, limited, listed, claiming, querying,
                 toPeer, peer, sessions, breaks>>

\* The message whose query is answered: the next one, or any.
Answered(i) == i \in DOMAIN asked /\ (i = 1 \/ May("reorder"))

\* try_olm_decryption: any stored session will do.
Decrypts(m) == m.session \in GetOlmSessions

\* handle_pre_key_olm_message: the one-time key is still here.
Opens(m) == ~Decrypts(m) /\ m.preKey /\ m.session \notin spent

HandleDecrypted(i) ==
  /\ Decrypts(asked[i])
  /\ misfiled' = misfiled \cup {asked[i].session}
  /\ UNCHANGED <<ours, spent, limited, claiming, querying, toPeer>>

HandlePreKeyMessage(i) ==
  /\ Opens(asked[i])
  /\ spent' = spent \cup {asked[i].session}
  /\ ours' = SaveOlmSession(asked[i].session)
  /\ UNCHANGED <<misfiled, limited, claiming, querying, toPeer>>

\* Variant: the dummy goes through the session that is there.
RecoverInLatest ==
  \/ ~listed /\ UNCHANGED <<ours, limited, claiming, querying, toPeer>>
  \/ listed /\ SendEncrypted(FALSE)

\* A dummy in a new session, to the devices of the list that have the sender's key.
Recover ==
  \/ ~listed /\ UNCHANGED <<ours, limited, claiming, querying, toPeer>>
  \/ listed /\ SendEncrypted(TRUE)

HandleUndecryptable(i) ==
  /\ ~Decrypts(asked[i]) /\ ~Opens(asked[i])
  /\ Recover
  /\ UNCHANGED <<misfiled, spent>>

HandleOlmMessage ==
  \E i \in 1..MaxOnTheWay :
    /\ Answered(i)
    /\ asked' = RemoveAt(asked, i)
    /\ HandleDecrypted(i) \/ HandlePreKeyMessage(i) \/ HandleUndecryptable(i)
    /\ UNCHANGED <<listed, fromPeer, peer, sessions, breaks>>

\* An error of query_keys drops the message.
DropMessage ==
  /\ May("error") /\ Break
  /\ asked # <<>> /\ asked' = Tail(asked)
  /\ UNCHANGED <<ours, misfiled, spent, limited, listed, claiming, querying,
                 fromPeer, toPeer, peer, sessions>>

-----------------------------------------------------------------------------
(* The end of the program.                                                 *)

Start == asked' = <<>> /\ claiming' = FALSE /\ querying' = FALSE /\ limited' = FALSE

\* Between the two transactions of handle_pre_key_olm_message, or anywhere else.
Crash ==
  /\ May("crash") /\ Break /\ Start
  /\ \/ UNCHANGED spent
     \/ asked # <<>> /\ Opens(asked[1]) /\ spent' = spent \cup {asked[1].session}
  /\ UNCHANGED <<ours, misfiled, listed, fromPeer, toPeer, peer, sessions>>

Rollback ==
  /\ May("rollback") /\ Break /\ Start
  /\ \E n \in 0..Len(ours) - 1 :
        ours' = SubSeq(ours, 1, n) /\ spent' = spent \cap Range(ours')
  /\ UNCHANGED <<misfiled, listed, fromPeer, toPeer, peer, sessions>>

-----------------------------------------------------------------------------
(* The peer, and the list of its devices.                                  *)

\* A peer without a session opens one; until it hears in it, it sends pre-key
\* messages.
PeerSends ==
  /\ Len(fromPeer) + Len(asked) < MaxOnTheWay
  /\ \/ /\ peer.current = NoSession /\ sessions < MaxSessions
        /\ sessions' = sessions + 1
        /\ peer' = [peer EXCEPT !.sessions = @ \cup {sessions'}, !.current = sessions']
     \/ peer.current # NoSession /\ UNCHANGED <<sessions, peer>>
  /\ fromPeer' = Append(fromPeer, [session |-> peer'.current,
                                   preKey |-> peer'.current \notin peer'.heard])
  /\ UNCHANGED <<ours, misfiled, spent, limited, listed, asked, claiming, querying,
                 toPeer, breaks>>

Readable == peer.sessions \cup peer.openable

PeerReceives ==
  /\ toPeer # <<>>
  /\ toPeer' = Tail(toPeer)
  /\ LET s == Head(toPeer)
     IN peer' = IF s \in Readable
                THEN [sessions |-> peer.sessions \cup {s}, current |-> s,
                      heard |-> peer.heard \cup {s}, openable |-> peer.openable \ {s}]
                ELSE peer
  /\ UNCHANGED <<ours, misfiled, spent, limited, listed, asked, claiming, querying,
                 fromPeer, sessions, breaks>>

Quiet == asked = <<>> /\ fromPeer = <<>> /\ toPeer = <<>> /\ ~claiming

PeerForgets ==
  /\ May("forget") /\ Break
  /\ peer.sessions # {}
  /\ May("midway") \/ (Quiet /\ peer.openable = {})
  /\ peer' = [peer EXCEPT !.sessions = {}, !.current = NoSession, !.heard = {}]
  /\ UNCHANGED <<ours, misfiled, spent, limited, listed, asked, claiming, querying,
                 fromPeer, toPeer, sessions>>

ListChanges ==
  /\ ~listed /\ listed' = TRUE
  /\ UNCHANGED <<ours, misfiled, spent, limited, asked, claiming, querying,
                 fromPeer, toPeer, peer, sessions, breaks>>

-----------------------------------------------------------------------------

ChannelsInit ==
  /\ ours = <<>> /\ misfiled = {} /\ spent = {}
  /\ limited = FALSE /\ listed = ~May("unlisted")
  /\ asked = <<>> /\ claiming = FALSE /\ querying = FALSE
  /\ fromPeer = <<>> /\ toPeer = <<>>
  /\ peer = [sessions |-> {}, current |-> NoSession, heard |-> {}, openable |-> {}]
  /\ sessions = 0 /\ breaks = 0

ChannelsNext ==
  \/ Send \/ QueryAnswered \/ ClaimAnswered \/ TenHours
  \/ HandleToDevice \/ HandleOlmMessage \/ DropMessage
  \/ Crash \/ Rollback
  \/ PeerSends \/ PeerReceives \/ PeerForgets \/ ListChanges

\* Requests are answered, messages arrive, time passes, and the peer goes on sending.
ChannelsFairness ==
  /\ WF_channelsVars(May("channels") /\ ClaimAnswered)
  /\ WF_channelsVars(May("channels") /\ TenHours)
  /\ WF_channelsVars(May("channels") /\ HandleToDevice)
  /\ WF_channelsVars(May("channels") /\ HandleOlmMessage)
  /\ WF_channelsVars(May("channels") /\ PeerSends)
  /\ WF_channelsVars(May("channels") /\ PeerReceives)
  /\ WF_channelsVars(May("channels") /\ ListChanges)

-----------------------------------------------------------------------------

\* Once the peer speaks in a session that we hold, the session that we would
\* send in is one that the peer can read or open.
LatestReadable ==
  ~May("midway") =>
    (peer.current \in Range(ours) => GetLatestOlmSession(ours) \in Readable)

\* A peer that speaks in a session we do not hold comes to speak in one we
\* hold, as long as there are sessions to open.
Heals ==
  May("channels") =>
    (peer.current \notin Range(ours) \cup {NoSession}) ~>
      (peer.current \in Range(ours) \cup {NoSession} \/ sessions = MaxSessions)
=============================================================================
