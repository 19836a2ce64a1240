---------------------------- MODULE TimelineWindow ----------------------------
(***************************************************************************)
(* The timeline of one room: the order databases of Cache (src/src/        *)
(* Cache.cpp) and the window of rows EventStore (src/src/timeline) shows.  *)
(*                                                                         *)
(* "order" numbers all events and carries pagination tokens, "msgs"        *)
(* numbers those that are shown.  /sync appends at the end, or drops both  *)
(* when it is limited; fetchMore prepends older pages, and deleteOldData   *)
(* cuts the front.  EventStore remembers the first and last number.  A     *)
(* page is checked on the HTTP thread and saved later by a queued slot.    *)
(*                                                                         *)
(* The server's log of the room is 1 .. MaxPos; a token is a position: a   *)
(* page asked with t holds the events up to t, newest first.               *)
(***************************************************************************)
EXTENDS Integers, Sequences, FiniteSets, FiniteSetsExt, Functions

CONSTANTS
  MaxPos,     \* bound: the last event of the room
  PageSize,   \* events per page of /messages
  Kept,       \* MAX_RESTORED_MESSAGES
  Kinds,      \* environment: what the events of the log may be
  WindowScenarios, \* environment: what may happen in one behaviour
  MaxErrors,  \* bound: pages that fail
  MaxRestarts \* bound: restarts of the program

ASSUME TimelineOK ==
  /\ {MaxPos, PageSize, Kept, MaxErrors, MaxRestarts} \subseteq Nat
  /\ PageSize > 0
  /\ Kinds \subseteq [1 .. MaxPos -> {"message", "hidden", "redaction", "unseen"}]
  /\ WindowScenarios \subseteq SUBSET {"limited", "race", "eager", "cleanup"}

VARIABLES
  kind,      \* what an event is
  pos,       \* the end of the server's log
  synced,    \* the last event /sync delivered
  \* on disk
  order,     \* order database: number -> event and pagination token
  known,     \* events with a number in order
  msgs,      \* order-to-message database: number -> event that is shown
  \* EventStore
  first, last, noMore,
  waiting,   \* a view waits for fetchedMore
  \* pages under way
  requests,  \* tokens of unanswered /messages requests
  answers,   \* pages queued to the oldMessagesRetrieved slot
  errors, restarts,
  happening  \* what may happen in this behaviour

orderDbs == <<order, known, msgs>>
window   == <<first, last, noMore, waiting>>
pages    == <<requests, answers>>
windowVars == <<kind, pos, synced, orderDbs, window, pages, errors, restarts, happening>>

------------------------------------------------------------------------------

LogEvents == 1 .. MaxPos
NoTok  == MaxPos + 1   \* no token: the server pages from the end of the log
NoEv   == 0            \* an entry of order whose event id is empty

\* The middle and the end of the numbers (UINT64_MAX / 2 and UINT64_MAX).
Mid == 2 * MaxPos
End == 4 * MaxPos

Happens(what) == what \in happening

Entry(e, tok) == [ev |-> e, tok |-> tok]
Lowest(f)  == IF DOMAIN f = {} THEN Mid ELSE Min(DOMAIN f)
Highest(f) == IF DOMAIN f = {} THEN Mid ELSE Max(DOMAIN f)
Empty      == [i \in {} |-> 0]

\* Member of S with n members up to it, and with n members from it on.
FromOldest(S, n) == CHOOSE e \in S : Cardinality({x \in S : x <= e}) = n
FromNewest(S, n) == CHOOSE e \in S : Cardinality({x \in S : x >= e}) = n

\* Numbers for the events of S behind the end and in front of the start of f.
Behind(f, S)  == [i \in Highest(f) + 1 .. Highest(f) + Cardinality(S) |->
                    FromOldest(S, i - Highest(f))]
Before(f, S)  == [i \in Lowest(f) - Cardinality(S) .. Lowest(f) - 1 |->
                    FromNewest(S, Lowest(f) - i)]
Join(f, g)    == [i \in DOMAIN f \cup DOMAIN g |-> IF i \in DOMAIN f THEN f[i] ELSE g[i]]

\* Shown; and the events of a .. b the server lets the user see.
IsRow(e)   == kind[e] = "message"
Seen(a, b) == {e \in a .. b : kind[e] # "unseen"}

\* previousBatchToken
Token(o) == IF DOMAIN o = {} THEN NoTok ELSE o[Min(DOMAIN o)].tok

(* A definition marked "Variant" is the one after it with a mistake in it;  *)
(* WindowNext does not use it.  It shows which mistake a property would    *)
(* reveal.                                                                 *)

\* The events of S that get a number: redactions and known ones do not.
New(S, old) == {e \in S : kind[e] # "redaction" /\ e \notin old}

\* getTimelineRange, none when nothing is shown.
SetRange(m) ==
  IF DOMAIN m = {} THEN first' = End /\ last' = End
                   ELSE first' = Min(DOMAIN m) /\ last' = Max(DOMAIN m)

------------------------------------------------------------------------------
\* Sync

\* Variant: a limited answer is appended.
RemainingAll(limited, f, none) == f

\* res.limited drops the order databases.
Remaining(limited, f, none) == IF limited THEN none ELSE f

\* EventStore::handleSync
Follow(limited, m) ==
  IF DOMAIN m = {} \/ limited
    THEN SetRange(m)
    ELSE /\ first' = first
         /\ last' = IF Max(DOMAIN m) > last THEN Max(DOMAIN m) ELSE last

(***************************************************************************)
(* saveTimelineMessages for the events a .. n, then the EventStore: its    *)
(* constructor for a room that is new, handleSync for the others.  The     *)
(* first event that is not a redaction carries prev_batch.                 *)
(***************************************************************************)
SyncWindow(limited, a, n) ==
  LET base  == Remaining(limited, order, Empty)
      rows  == Remaining(limited, msgs, Empty)
      old   == Remaining(limited, known, {})
      new   == New(Seen(a, n), old)
      added == Behind(base, new)
      head  == {e \in Seen(a, n) : kind[e] # "redaction"}
  IN  /\ a \in synced + 1 .. pos /\ n \in a .. pos
      /\ limited \/ a = synced + 1
      /\ limited \/ synced = 0 => head # {}   \* a full answer is not all redactions
      /\ limited /\ synced # 0 => /\ Happens("limited")
                                  /\ (requests = {} /\ answers = <<>>) \/ Happens("race")
      /\ synced' = n
      /\ order' = Join([i \in DOMAIN added |->
                          Entry(added[i], IF added[i] = Min(head) THEN a - 1 ELSE NoTok)], base)
      /\ known' = old \cup new
      /\ msgs' = Join(Behind(rows, {e \in new : IsRow(e)}), rows)
      /\ IF synced = 0 THEN SetRange(msgs') ELSE Follow(limited, msgs')
      /\ UNCHANGED <<kind, pos, noMore, waiting, pages, errors, restarts, happening>>

------------------------------------------------------------------------------
\* Older pages

\* A request; again marks the second of two equal ones.
Request(tok) == [tok |-> tok, again |-> \E r \in requests : r.tok = tok]

\* EventStore::fetchMore over the databases d.
Fetch(d) ==
  IF noMore
    THEN requests' = requests /\ waiting' = FALSE
    ELSE requests' = requests \cup {Request(Token(d))} /\ waiting' = TRUE

\* A view asks for older rows.
FetchMore ==
  /\ synced # 0
  /\ ~waiting \/ Happens("eager")
  /\ Cardinality(requests) + Len(answers) < 2
  /\ Fetch(order)
  /\ UNCHANGED <<kind, pos, synced, orderDbs, first, last, noMore, answers, errors, restarts, happening>>

\* The page the server has for a token: empty when the user sees none of it.
PageOf(r) ==
  LET top == IF r.tok = NoTok THEN pos ELSE r.tok
      low == Max({0, top - PageSize})
  IN  [events |-> Seen(low + 1, top), end |-> low]

\* "Cache cleared while fetching more messages, dropping /messages response"
TokenUnchanged(r) == Token(order) = r.tok

\* The callback of /messages, on the HTTP thread.  A dropped answer does not
\* emit fetchedMore, for opts.to is never set.
PageAnswered(r) ==
  /\ r \in requests
  /\ requests' = requests \ {r}
  /\ \/ /\ ~TokenUnchanged(r)
        /\ UNCHANGED <<answers, waiting, errors>>
     \/ /\ TokenUnchanged(r)
        /\ answers' = Append(answers, PageOf(r))
        /\ UNCHANGED <<waiting, errors>>
     \/ /\ TokenUnchanged(r) /\ errors < MaxErrors
        /\ errors' = errors + 1
        /\ waiting' = FALSE
        /\ UNCHANGED answers
  /\ UNCHANGED <<kind, pos, synced, orderDbs, first, last, noMore, restarts, happening>>

\* saveOldMessages: the entry with the lowest number gets the token and the
\* id of the last event of the page; a page without events changes a token.
SavePage(p) ==
  LET new   == New(p.events, known)
      rest  == {e \in p.events : kind[e] # "redaction"}
      low   == Lowest(order) - Cardinality(new)
      added == Before(order, new)
  IN  IF p.events = {}
        THEN /\ order' = [i \in DOMAIN order |->
                            IF i = low THEN Entry(order[i].ev, p.end) ELSE order[i]]
             /\ UNCHANGED <<known, msgs>>
        ELSE /\ order' = Join([i \in {low} |->
                                 Entry(IF rest = {} THEN NoEv ELSE Min(rest), p.end)],
                              Join([i \in DOMAIN added |-> Entry(added[i], NoTok)], order))
             /\ known' = known \cup new
             /\ msgs' = Join(Before(msgs, {e \in new : IsRow(e)}), msgs)

\* The number saveOldMessages returns: of the first row, but of the first
\* entry when the page has no events.
NewFirst(p) == IF p.events = {} THEN Lowest(order) ELSE Lowest(msgs')

\* The rows are inserted in front.
ShowFrom(n) == first' = n /\ last' = last /\ waiting' = FALSE

AtStartNever(p)   == FALSE

\* res.end is empty at the start of the room, or the token is the page's.
AtStart(p) == Token(order) = p.end

(***************************************************************************)
(* The oldMessagesRetrieved slot: at the start of the room, or when the    *)
(* token is already the page's, there is no more; a page without new rows  *)
(* is followed by the next one; otherwise the window grows.                *)
(***************************************************************************)
OldMessagesRetrieved(p) ==
  /\ answers' = Tail(answers)
  /\ IF AtStart(p)
       THEN /\ noMore' = TRUE /\ waiting' = FALSE
            /\ UNCHANGED <<orderDbs, first, last, requests>>
       ELSE /\ SavePage(p)
            /\ noMore' = noMore
            /\ LET range == DOMAIN msgs'
               IN  IF NewFirst(p) = first \/ (last = End /\ Cardinality(range) < 2)
                     THEN Fetch(order') /\ UNCHANGED <<first, last>>
                     ELSE /\ requests' = requests
                          /\ IF last # End THEN ShowFrom(NewFirst(p))
                                           ELSE SetRange(msgs') /\ waiting' = FALSE
  /\ UNCHANGED <<kind, pos, synced, errors, restarts, happening>>

Slot == answers # <<>> /\ OldMessagesRetrieved(Head(answers))

------------------------------------------------------------------------------

\* deleteOldMessages: entries go from the front, with the row of the event an
\* entry names.  EventStore does not hear of it.
Cleanup ==
  LET cut  == {i \in DOMAIN order : i < Max(DOMAIN order) - Kept}
      gone == {order[i].ev : i \in cut}
  IN  /\ Happens("cleanup") /\ cut # {}
      /\ order' = Restrict(order, DOMAIN order \ cut)
      /\ known' = known \ gone
      /\ msgs' = Restrict(msgs, {i \in DOMAIN msgs : msgs[i] \notin gone})
      /\ UNCHANGED <<kind, pos, synced, window, pages, errors, restarts, happening>>

\* The timelines are created again from the databases.
RestartWindow ==
  /\ restarts < MaxRestarts
  /\ restarts' = restarts + 1
  /\ SetRange(msgs)
  /\ noMore' = FALSE /\ waiting' = FALSE
  /\ requests' = {} /\ answers' = <<>>
  /\ UNCHANGED <<kind, pos, synced, orderDbs, errors, happening>>

Send ==
  /\ pos < MaxPos
  /\ pos' = pos + 1
  /\ UNCHANGED <<kind, synced, orderDbs, window, pages, errors, restarts, happening>>

WindowInit ==
  /\ kind \in Kinds
  /\ pos = 0 /\ synced = 0
  /\ order = Empty /\ known = {} /\ msgs = Empty
  /\ first = End /\ last = End /\ noMore = FALSE /\ waiting = FALSE
  /\ requests = {} /\ answers = <<>>
  /\ errors = 0 /\ restarts = 0
  /\ happening \in WindowScenarios

WindowNext == \/ Send
              \/ \E limited \in BOOLEAN, a, n \in LogEvents : SyncWindow(limited, a, n)
              \/ FetchMore
              \/ \E r \in requests : PageAnswered(r)
              \/ Slot
              \/ Cleanup \/ RestartWindow

WindowSpec == WindowInit /\ [][WindowNext]_windowVars

\* /messages is answered and the slot is run.
Fairness ==
  /\ WF_windowVars(\E r \in requests : PageAnswered(r))
  /\ WF_windowVars(Slot)

FairWindowSpec == WindowSpec /\ Fairness

------------------------------------------------------------------------------
\* Properties

Undisturbed(by) == happening \cap by = {}

\* Every variable stays in its range.
TypeOK ==
  /\ pos \in 0 .. MaxPos /\ synced \in 0 .. pos
  /\ \A i \in DOMAIN order : i \in 1 .. End /\ order[i] \in [ev : 0 .. MaxPos, tok : 0 .. NoTok]
  /\ known \subseteq LogEvents
  /\ \A i \in DOMAIN msgs : i \in 1 .. End /\ msgs[i] \in LogEvents
  /\ first \in 1 .. End /\ last \in 1 .. End
  /\ (first = End) = (last = End)
  /\ noMore \in BOOLEAN /\ waiting \in BOOLEAN
  /\ requests \subseteq [tok : 0 .. NoTok, again : BOOLEAN]
  /\ answers \in Seq([events : SUBSET LogEvents, end : 0 .. MaxPos])
  /\ errors \in 0 .. MaxErrors /\ restarts \in 0 .. MaxRestarts
  /\ happening \in WindowScenarios

(***************************************************************************)
(* EventStore.cpp:903-908 drops a page when a limited sync has cleared the *)
(* cache meanwhile.  So the rows have no gap: an event between two rows is *)
(* a row.                                                                  *)
(***************************************************************************)
NoGap ==
  \A i, j \in DOMAIN msgs : \A e \in LogEvents :
    msgs[i] < e /\ e < msgs[j] /\ IsRow(e) => \E k \in DOMAIN msgs : msgs[k] = e

\* The same while neither a limited sync nor a deletion comes between the
\* check and the slot.
NoGapUndisturbed == Undisturbed({"race", "cleanup"}) => NoGap

\* A view that waits for older rows hears of them, of an error or of the
\* start, through pages without anything to show.
FetchEnds ==
  (waiting /\ Undisturbed({"race", "cleanup"})) ~> ~waiting
==============================================================================
