------------------------------ MODULE MCRooms --------------------------------
(* An instance of Rooms for TLC. *)
EXTENDS Rooms

SomeScenarios ==
  {{"lists", "invites"}, {"lists", "invites", "gone", "restart"},
   {"lists", "invites", "gone", "late"}, {"invites", "late", "reinvite"}, {"elsewhere", "create", "lists"},
   {"space", "elsewhere"}, {"info", "redact"}, {"info", "elsewhere", "lists"},
   {"notify", "restart"}, {"notify", "overtake"}}
==============================================================================
