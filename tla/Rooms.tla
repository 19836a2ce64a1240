------------------------------- MODULE Rooms ---------------------------------
(***************************************************************************)
(* The rooms of an account, as the cache keeps them and the client shows   *)
(* them (src/src/Cache.cpp, Cache_p.h, Client.cpp): the lists of joined    *)
(* rooms and invites, a room's name and picture, the children of a space,  *)
(* the timelines, their connection to the call manager, and notifications. *)
(*                                                                         *)
(* The server's side is a snapshot; a sync answer brings what changed      *)
(* since the one before.  It is handled on the main thread.  Answers to    *)
(* joinRoom, leaveRoom and createRoom come on the network thread, at any   *)
(* time before or after the sync that brings their effect.                 *)
(***************************************************************************)
EXTENDS Integers, FiniteSets, Sequences

CONSTANTS
  Rooms,       \* rooms, one of them
  Space,       \* a space
  Others,      \* the other users, as numbers; this user is 0
  NoAnswer,    \* no answer to /sync is on its way
  MaxChanges,  \* bound: changes on the server
  MaxUses,     \* bound: what the user does, and restarts
  Scenarios    \* environment: what may happen in one behaviour

ASSUME RoomsOK ==
  /\ Space \in Rooms
  /\ Others \subseteq Nat \ {0} /\ IsFiniteSet(Others)
  /\ {MaxChanges, MaxUses} \subseteq Nat
  /\ Scenarios \subseteq SUBSET {"lists", "invites", "elsewhere", "create", "late", "reinvite",
                                 "gone", "restart", "space", "info", "redact", "notify",
                                 "overtake"}

VARIABLES
  \* the server
  here,        \* this user's membership,
  moved,       \*   and the rooms where it changed since the last answer
  state,       \* title and other members of a room
  child,       \* the space's events that name a room as its child
  parent,      \* a room's event that names the space as its parent
  power,       \* whether who wrote those may change the space's children
  \* GET /sync
  since,       \* the snapshot the last answer brought
  answer,      \* the snapshot of the one that is on its way
  \* databases
  joined,      \* roomsDb_
  invited,     \* invitesDb_
  members,     \* members of a room
  titles,      \* the name or alias in its state
  info,        \* RoomInfo: name and picture
  levels,      \* the space's power levels in its state
  kids,        \* child events with a server, in state_by_key of the space
  names,       \* rooms with a parent event with a server, in their state_by_key
  links,       \* spacesChildrenDb_ and spacesParentsDb_: children of the space
  \* Client
  timelines,   \* rooms with a Timeline
  heard,       \* timelines whose newCallEvent is connected to the call manager
  calls,       \* per room: what the server was asked for
  slots,       \* queued calls of removeRoom
  \* notifications of one event
  unread, marked, asks, notified,
  changes, uses,
  may          \* what may happen in this behaviour

server   == <<here, moved, state, child, parent, power>>
sync     == <<since, answer>>
roomsDb  == <<joined, invited, members, titles, info>>
spacesDb == <<levels, kids, names, links>>
client   == <<timelines, heard>>
notes    == <<unread, marked, asks, notified>>
bounds   == <<changes, uses, may>>
roomsVars == <<server, sync, roomsDb, spacesDb, client, calls, slots, notes, bounds>>

------------------------------------------------------------------------------

Me == 0
None == -1
May(what) == what \in may
Least(S) == CHOOSE u \in S : \A v \in S : u <= v

\* What the server may say of the rooms.
Memberships == {"none", "join", "invite", "leave"}
Titles      == {"none", "name", "alias"}
Marks       == {"never", "yes", "no"}
Snapshots   == [here : [Rooms -> Memberships], moved : SUBSET Rooms,
                state : [Rooms -> [title : Titles, people : SUBSET Others]],
                child : [Rooms -> Marks], parent : [Rooms -> Marks], power : {"enough", "short"}]

ASSUME NoAnswerOK == NoAnswer \notin Snapshots

Snapshot == [here |-> here, moved |-> moved, state |-> state, child |-> child, parent |-> parent,
             power |-> power]

(* A definition marked "Variant" is the one after it with a mistake in it; *)
(* RoomsNext does not use it.  It shows which mistake a property would     *)
(* reveal.                                                                 *)

\* getRoomName: the name, the alias, or a name made of the members.
RoomName(title, M) ==
  LET first == IF M \subseteq {Me} THEN Me ELSE Least(M \ {Me})
  IN  IF title # "none" THEN <<title, None>>
      ELSE IF M = {} THEN <<"empty", None>>
      ELSE IF Cardinality(M) = 1 THEN <<"member", Least(M)>>
      ELSE IF Cardinality(M) = 2 THEN <<"member", first>>
      ELSE <<"others", first>>

\* getRoomAvatarUrl of a room without a picture: the other's in a chat of two.
RoomAvatar(M) ==
  IF Cardinality(M) > 2 \/ M = {} THEN None
  ELSE IF M \ {Me} # {} THEN Least(M \ {Me}) ELSE Me

RoomInfo(title, M) == [name |-> RoomName(title, M), avatar |-> RoomAvatar(M)]

------------------------------------------------------------------------------
\* A sync answer: what is in it, given the answer before

\* The rooms whose membership the answer on its way brings.
OnTheWay == IF answer = NoAnswer THEN {} ELSE answer.moved

\* A room that was joined anew comes with its whole state.
Full(r) == r \in answer.moved

\* rooms.join, rooms.invite and rooms.leave: a room is in one of them.
Joins ==
  {r \in Rooms : answer.here[r] = "join"
                 /\ \/ Full(r)
                    \/ answer.state[r] # since.state[r]
                    \/ answer.parent[r] # since.parent[r]
                    \/ r = Space /\ <<answer.child, answer.power>> # <<since.child, since.power>>}
Invites == {r \in answer.moved : answer.here[r] = "invite"}
Leaves  == {r \in answer.moved : answer.here[r] = "leave"}

\* The rooms whose child or parent events are in the answer; with the whole
\* state come all there are.
ChildEvents ==
  {r \in Rooms : /\ Space \in Joins /\ answer.child[r] # "never"
                 /\ Full(Space) \/ answer.child[r] # since.child[r]}
ParentEvents ==
  {r \in Joins : /\ answer.parent[r] # "never"
                 /\ Full(r) \/ answer.parent[r] # since.parent[r]}

\* saveStateEvent for members: who joined is put, who left is deleted.  The
\* whole state has an event of each who was ever there.
MembersOf(r) ==
  LET people == answer.state[r].people
      before == since.state[r].people
  IN  IF Full(r) THEN {Me} \cup people
                 ELSE (members[r] \cup (people \ before)) \ (before \ people)

\* Variant: the child events decide alone.
SpaceUpdatesChildren(space, rooms) ==
  links' = IF space THEN kids' ELSE links \cup (rooms \cap names')

(***************************************************************************)
(* updateSpaces, after left rooms are removed: a space with updates starts *)
(* again from its child events, and every joined room that names it is     *)
(* looked at; a room with updates is added when its parent event counts.   *)
(***************************************************************************)
UpdateSpaces(space, rooms) ==
  LET looked == rooms \cup (IF space THEN joined' \cap names' ELSE {})
  IN  links' = (IF space THEN kids' ELSE links)
               \cup (IF levels' = "enough" THEN looked \cap names' ELSE {})

RemoveInvites(rooms, S) == S \ rooms

SaveInvites(S) == S \cup Invites

RemoveLeftRooms(S) == S \ Leaves

\* Variant: an invite stays when the room is joined.
SaveRoomsOnly ==
  /\ joined' = RemoveLeftRooms(joined \cup Joins)
  /\ invited' = RemoveLeftRooms(SaveInvites(invited))

\* saveState: "clean up non-valid invites", saveInvites, removeLeftRooms.
SaveRooms ==
  /\ joined' = RemoveLeftRooms(joined \cup Joins)
  /\ invited' = RemoveLeftRooms(SaveInvites(RemoveInvites(Joins, invited)))

\* saveStateEvents; removeRoom drops the state and the members of a left room.
SaveMembers ==
  members' = [r \in Rooms |-> IF r \in Joins THEN MembersOf(r)
                              ELSE IF r \in Leaves THEN {} ELSE members[r]]
SaveTitles ==
  titles' = [r \in Rooms |->
               IF r \in Joins /\ (Full(r) \/ answer.state[r].title # since.state[r].title)
                 THEN answer.state[r].title
               ELSE IF r \in Leaves THEN "none" ELSE titles[r]]

\* Variant: the RoomInfo is made before the state is saved.
SaveInfoFirst ==
  /\ SaveMembers /\ SaveTitles
  /\ info' = [r \in Rooms |-> IF r \in Joins THEN RoomInfo(titles[r], members[r]) ELSE info[r]]

\* saveState: the state, and the RoomInfo made of what is stored then.
SaveInfo ==
  /\ SaveMembers /\ SaveTitles
  /\ info' = [r \in Rooms |-> IF r \in Joins THEN RoomInfo(titles'[r], members'[r]) ELSE info[r]]

SaveSpaces ==
  /\ kids'  = {r \in Rooms : IF r \in ChildEvents THEN answer.child[r] = "yes" ELSE r \in kids}
  /\ names' = {r \in Rooms : IF r \in ParentEvents THEN answer.parent[r] = "yes" ELSE r \in names}
  /\ levels' = IF Space \in Leaves THEN "none"
               ELSE IF Space \in Joins /\ (Full(Space) \/ answer.power # since.power)
                 THEN answer.power ELSE levels
  /\ UpdateSpaces(\/ ChildEvents \cup ParentEvents # {}
                  \/ Space \in Joins /\ (Full(Space) \/ answer.power # since.power),
                  ParentEvents)

\* syncTimelines
SyncTimelines ==
  /\ timelines' = (timelines \cup Joins \cup Invites) \ Leaves
  /\ heard' = heard \ Leaves

News == moved # {} \/ [since EXCEPT !.moved = {}] # Snapshot

Serve ==
  /\ answer = NoAnswer /\ News
  /\ answer' = Snapshot /\ moved' = {}
  /\ UNCHANGED <<here, state, child, parent, power, since, roomsDb, spacesDb, client, calls, slots, notes, bounds>>

\* handleSyncResponse
HandleSync ==
  /\ answer # NoAnswer
  /\ SaveRooms /\ SaveInfo /\ SaveSpaces /\ SyncTimelines
  /\ since' = answer /\ answer' = NoAnswer
  /\ UNCHANGED <<server, calls, slots, notes, bounds>>

------------------------------------------------------------------------------
\* What the user asks for

Use == uses < MaxUses /\ uses' = uses + 1

\* joinRoomVia, leaveRoom and createRoom send a request.
Ask(r, what) ==
  /\ Use /\ calls[r] = "idle"
  /\ calls' = [calls EXCEPT ![r] = what]
  /\ UNCHANGED <<server, sync, roomsDb, spacesDb, client, slots, notes, changes, may>>

\* Unless it may be late, the user accepts the invite there is, not an older
\* one that is still shown.
Current(r) == r \notin moved \cup OnTheWay

JoinRoom(r)   == May("invites") /\ r \in invited /\ (May("late") \/ Current(r)) /\ Ask(r, "join")
LeaveRoom(r)  == (May("lists") \/ May("invites")) /\ r \in joined \cup invited /\ Ask(r, "leave")
CreateRoom(r) == May("create") /\ r # Space /\ here[r] = "none" /\ Ask(r, "create")

\* The server does what it was asked for, or refuses.
Accept(r) ==
  /\ \/ calls[r] = "join" /\ here[r] = "invite" /\ here' = [here EXCEPT ![r] = "join"]
     \/ calls[r] = "leave" /\ here[r] \in {"join", "invite"} /\ here' = [here EXCEPT ![r] = "leave"]
     \/ calls[r] = "create" /\ here[r] = "none" /\ here' = [here EXCEPT ![r] = "join"]
  /\ moved' = moved \cup {r}
  /\ calls' = [calls EXCEPT ![r] = CASE calls[r] = "join" -> "joinOk"
                                     [] calls[r] = "leave" -> "leaveOk"
                                     [] OTHER -> "createOk"]
  /\ UNCHANGED <<state, child, parent, power, sync, roomsDb, spacesDb, client, slots, notes, bounds>>

Refuse(r) ==
  /\ calls[r] \in {"join", "leave", "create"}
  /\ calls' = [calls EXCEPT ![r] = "idle"]
  /\ UNCHANGED <<server, sync, roomsDb, spacesDb, client, slots, notes, bounds>>

\* leaveRoom's callback when the server does not know the room any more: it is
\* removed at once, from the lists alone.  When the callback is late, an answer
\* made before that is still on its way and may bring the room back.
LeaveUnknown(r) ==
  /\ May("gone") /\ calls[r] = "leave"
  /\ calls' = [calls EXCEPT ![r] = "idle"]
  /\ here' = [here EXCEPT ![r] = "leave"] /\ moved' = moved \ {r}
  /\ since' = [since EXCEPT !.here[r] = "leave"]
  /\ May("late") \/ answer = NoAnswer
  /\ invited' = RemoveInvites({r}, invited) /\ joined' = joined \ {r}
  /\ UNCHANGED <<state, child, parent, power, answer, members, titles, info, spacesDb, client, slots,
                 notes, bounds>>

\* Variant: the timeline is not connected.
JoinAnsweredOnly(r) ==
  /\ calls[r] = "joinOk"
  /\ calls' = [calls EXCEPT ![r] = "idle"]
  /\ invited' = RemoveInvites({r}, invited)
  /\ UNCHANGED <<server, sync, joined, members, titles, info, spacesDb, client, slots, notes, bounds>>

\* joinRoomVia's callback connects the timeline, if there is one, and removes
\* the invite.
JoinAnswered(r) ==
  /\ calls[r] = "joinOk"
  /\ calls' = [calls EXCEPT ![r] = "idle"]
  /\ heard' = heard \cup ({r} \cap timelines)
  /\ invited' = RemoveInvites({r}, invited)
  /\ UNCHANGED <<server, sync, joined, members, titles, info, spacesDb, timelines, slots, notes,
                 bounds>>

\* createRoom's callback connects the timeline, if the sync was faster.
CreateAnswered(r) ==
  /\ calls[r] = "createOk"
  /\ calls' = [calls EXCEPT ![r] = "idle"]
  /\ heard' = heard \cup ({r} \cap timelines)
  /\ UNCHANGED <<server, sync, roomsDb, spacesDb, timelines, slots, notes, bounds>>

\* leaveRoom's callback emits leftRoom,
LeaveAnswered(r) ==
  /\ calls[r] = "leaveOk"
  /\ calls' = [calls EXCEPT ![r] = "idle"]
  /\ slots' = slots \cup {r}
  /\ UNCHANGED <<server, sync, roomsDb, spacesDb, client, notes, bounds>>

\* which removes the room from the lists on the main thread.
RemoveRoom(r) ==
  /\ r \in slots
  /\ slots' = slots \ {r}
  /\ joined' = joined \ {r} /\ invited' = RemoveInvites({r}, invited)
  /\ UNCHANGED <<server, sync, members, titles, info, spacesDb, client, calls, notes, bounds>>

------------------------------------------------------------------------------
\* The server

Change == changes < MaxChanges /\ changes' = changes + 1

\* Others and the user's other devices change the membership.  Unless it may,
\* nothing happens to a room whose answer or slot is still to come.
Moves(r, from, to) ==
  /\ Change
  /\ here[r] \in from /\ (r # Space \/ May("space"))
  /\ May("late") \/ (calls[r] = "idle" /\ r \notin slots)
  /\ here' = [here EXCEPT ![r] = to] /\ moved' = moved \cup {r}
  /\ UNCHANGED <<state, child, parent, power, sync, roomsDb, spacesDb, client, calls, slots, notes,
                 uses, may>>

Invite(r) ==
  /\ May("invites")
  /\ May("reinvite") \/ "join" \notin {since.here[r], (IF answer = NoAnswer THEN since ELSE answer).here[r]}
  /\ Moves(r, {"none", "leave"}, "invite")
Kick(r)          == may \cap {"lists", "invites", "elsewhere"} # {} /\ Moves(r, {"join", "invite"}, "leave")
JoinElsewhere(r) == May("elsewhere") /\ Moves(r, {"none", "leave", "invite"}, "join")

Tell == /\ Change
        /\ UNCHANGED <<here, moved, sync, roomsDb, spacesDb, client, calls, slots, notes, uses, may>>

NameChild(r, to) ==
  /\ May("space") /\ Tell /\ r # Space /\ child[r] # to
  /\ child' = [child EXCEPT ![r] = to]
  /\ UNCHANGED <<state, parent, power>>

NameParent(r, to) ==
  /\ May("space") /\ Tell /\ r # Space /\ parent[r] # to
  /\ parent' = [parent EXCEPT ![r] = to]
  /\ UNCHANGED <<state, child, power>>

SetPower ==
  /\ May("space") /\ Tell
  /\ power' = IF power = "enough" THEN "short" ELSE "enough"
  /\ UNCHANGED <<state, child, parent>>

SetTitle(r, title) ==
  /\ May("info") /\ r # Space /\ Tell /\ state[r].title # title
  /\ state' = [state EXCEPT ![r].title = title]
  /\ UNCHANGED <<child, parent, power>>

MemberMoves(r, u) ==
  /\ May("info") /\ r # Space /\ Tell
  /\ state' = [state EXCEPT ![r].people = IF u \in @ THEN @ \ {u} ELSE @ \cup {u}]
  /\ UNCHANGED <<child, parent, power>>

\* A redaction takes the content of a name event away.  It comes as an event
\* of the timeline, not as state.
RedactTitle(r) ==
  /\ May("redact") /\ Change /\ answer = NoAnswer
  /\ state[r].title # "none" /\ since.state[r].title = state[r].title
  /\ state' = [state EXCEPT ![r].title = "none"]
  /\ since' = [since EXCEPT !.state[r].title = "none"]
  /\ UNCHANGED <<here, moved, child, parent, power, answer, roomsDb, spacesDb, client, calls, slots, notes,
                 uses, may>>

\* The program ends and starts: loadStateFromCache and prepareTimelines, which
\* makes and connects the timelines of the joined rooms.
RestartRooms ==
  /\ May("restart") /\ Use
  /\ answer' = NoAnswer
  /\ moved' = moved \cup OnTheWay
  /\ calls' = [r \in Rooms |-> "idle"] /\ slots' = {}
  /\ timelines' = joined /\ heard' = joined
  /\ asks' = <<>>
  /\ UNCHANGED <<here, state, child, parent, power, since, roomsDb, spacesDb, unread, marked,
                 notified, changes, may>>

------------------------------------------------------------------------------
\* Notifications

Quiet == UNCHANGED <<server, sync, roomsDb, spacesDb, client, calls, slots, may>>

\* An event that notifies; it is read here or on another device.
Event ==
  /\ May("notify") /\ Change /\ unread # "read"
  /\ unread' = IF unread = "none" THEN "unread" ELSE "read"
  /\ UNCHANGED <<marked, asks, notified, uses>> /\ Quiet

\* newUpdate: a sync with unread events asks for the notifications.
AskNotifications ==
  /\ unread # "none" /\ Use
  /\ asks' = Append(asks, "asked")
  /\ UNCHANGED <<unread, marked, notified, changes>> /\ Quiet

Turn(i) == May("overtake") \/ \A j \in 1 .. i - 1 : asks[j] # asks[i]

ServeNotifications(i) ==
  /\ asks[i] = "asked" /\ Turn(i)
  /\ asks' = [asks EXCEPT ![i] = unread]
  /\ UNCHANGED <<unread, marked, notified, bounds>> /\ Quiet

RemoveReadNotification == marked' = FALSE /\ UNCHANGED notified

\* Variant: the event is not marked.
SendUnmarked ==
  IF marked THEN UNCHANGED <<marked, notified>>
  ELSE UNCHANGED marked /\ notified' = notified + 1

\* isNotificationSent and markSentNotification.
SendOnce ==
  IF marked THEN UNCHANGED <<marked, notified>>
  ELSE marked' = TRUE /\ notified' = notified + 1

\* sendNotifications: a read event is forgotten, an unread one is shown unless
\* it is marked as sent.
SendNotifications(i) ==
  /\ asks[i] # "asked" /\ (i = 1 \/ May("overtake"))
  /\ asks' = SubSeq(asks, 1, i - 1) \o SubSeq(asks, i + 1, Len(asks))
  /\ IF asks[i] = "read" THEN RemoveReadNotification ELSE SendOnce
  /\ UNCHANGED <<unread, bounds>> /\ Quiet

------------------------------------------------------------------------------

\* A program that has just started, with some rooms joined and in sync.
RoomsInit ==
  /\ may \in Scenarios
  /\ here \in [Rooms -> {"none", "join"}] /\ (May("space") \/ here[Space] = "none")
  /\ state = [r \in Rooms |-> [title |-> "none", people |-> {}]]
  /\ child = [r \in Rooms |-> "never"] /\ parent = [r \in Rooms |-> "never"]
  /\ power \in IF May("space") THEN {"enough", "short"} ELSE {"short"}
  /\ moved = {} /\ since = Snapshot /\ answer = NoAnswer
  /\ joined = {r \in Rooms : here[r] = "join"} /\ invited = {}
  /\ members = [r \in Rooms |-> IF r \in joined THEN {Me} ELSE {}]
  /\ titles = [r \in Rooms |-> "none"]
  /\ info = [r \in Rooms |-> RoomInfo("none", {Me})]
  /\ levels = IF Space \in joined THEN power ELSE "none"
  /\ kids = {} /\ names = {} /\ links = {}
  /\ timelines = joined /\ heard = joined
  /\ calls = [r \in Rooms |-> "idle"] /\ slots = {}
  /\ unread = "none" /\ marked = FALSE /\ asks = <<>> /\ notified = 0
  /\ changes = 0 /\ uses = 0

UserIn(r) == \/ JoinRoom(r) \/ LeaveRoom(r) \/ CreateRoom(r)
             \/ Accept(r) \/ Refuse(r) \/ LeaveUnknown(r)
             \/ JoinAnswered(r) \/ CreateAnswered(r) \/ LeaveAnswered(r) \/ RemoveRoom(r)

ServerIn(r) == \/ Invite(r) \/ Kick(r) \/ JoinElsewhere(r)
               \/ \E to \in {"yes", "no"} : NameChild(r, to) \/ NameParent(r, to)
               \/ \E title \in Titles : SetTitle(r, title)
               \/ \E u \in Others : MemberMoves(r, u)
               \/ RedactTitle(r)

Notify == \/ Event \/ AskNotifications
          \/ \E i \in DOMAIN asks : ServeNotifications(i) \/ SendNotifications(i)

RoomsNext == \/ Serve \/ HandleSync \/ SetPower \/ RestartRooms \/ Notify
             \/ \E r \in Rooms : UserIn(r) \/ ServerIn(r)

RoomsSpec == RoomsInit /\ [][RoomsNext]_roomsVars

------------------------------------------------------------------------------
\* Properties

\* Nothing is under way and the last answer brought all there is.
InSync ==
  /\ answer = NoAnswer /\ ~News
  /\ slots = {} /\ \A r \in Rooms : calls[r] = "idle"

(***************************************************************************)
(* The room list is the server's: whatever order answers, slots and syncs  *)
(* came in, rooms and invites are those of the account once all of them    *)
(* are handled, and rooms have timelines and timelines rooms.  It is not   *)
(* when a slot of an older leave comes after the room was joined again,    *)
(* when a room that was removed because the server had forgotten it is in  *)
(* an answer made before, or when a room that was left is an invite again  *)
(* in the same sync; and the timeline stays of a room the server forgot.   *)
(***************************************************************************)
ListsAreCurrent ==
  InSync /\ may \cap {"late", "reinvite"} = {} =>
    /\ joined  = {r \in Rooms : here[r] = "join"}
    /\ invited = {r \in Rooms : here[r] = "invite"}
    /\ joined \subseteq timelines
    /\ May("gone") \/ timelines \subseteq joined \cup invited

(***************************************************************************)
(* The call manager hears of calls in every room: except in those joined   *)
(* elsewhere, created when the answer was faster than the sync, or invited *)
(* to before the program started.                                          *)
(***************************************************************************)
CallsAreHeard ==
  InSync /\ may \cap {"late", "reinvite", "elsewhere", "create", "restart"} = {}
    => joined \subseteq heard

(***************************************************************************)
(* The children of a joined space are the rooms its child events name, and *)
(* the joined rooms that name it with the power to: updateSpaces looks at  *)
(* what changed only, and misses nothing.  A room that was left may stay.  *)
(***************************************************************************)
ChildrenAreNamed ==
  Space \in joined /\ may \cap {"late", "reinvite"} = {} =>
    LET allowed(S) == IF levels = "enough" THEN S \cap names ELSE {}
    IN  /\ kids \cup allowed(joined) \subseteq links
        /\ links \subseteq kids \cup allowed(Rooms)

(***************************************************************************)
(* Name and picture of a joined room are those its state and members on    *)
(* the server give, through whatever members come and go while it is left  *)
(* and joined again.  A name that is redacted stays, for the redaction is  *)
(* no state event.                                                         *)
(***************************************************************************)
InfoIsCurrent ==
  InSync /\ may \cap {"late", "reinvite", "redact"} = {} =>
    \A r \in joined : info[r] = RoomInfo(state[r].title, {Me} \cup state[r].people)

\* "We should only sent one notification per event" (Client.cpp:643), unless
\* an older answer overtakes the one that says the event was read.
NotifiedOnce == ~May("overtake") => notified <= 1
==============================================================================
