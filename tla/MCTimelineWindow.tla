--------------------------- MODULE MCTimelineWindow ---------------------------
(* An instance of TimelineWindow for TLC. *)
EXTENDS TimelineWindow

\* Rooms of messages only, with hidden events, with a redaction, and with
\* events the user must not see.
SomeRooms ==
  {[e \in LogEvents |-> "message"],
   [e \in LogEvents |-> IF e \in {1, 3} THEN "hidden" ELSE "message"],
   [e \in LogEvents |-> IF e = 2 THEN "hidden" ELSE IF e = 3 THEN "redaction" ELSE "message"],
   [e \in LogEvents |-> IF e \in {2, 3} THEN "unseen" ELSE "message"],
   [e \in LogEvents |-> IF e \in {2, 3} THEN "unseen" ELSE IF e = 4 THEN "hidden" ELSE "message"]}

SomeScenarios ==
  {{}, {"limited"}, {"limited", "race"}, {"eager"}, {"eager", "limited", "race"},
   {"cleanup"}}
================================================================================
