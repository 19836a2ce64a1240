----------------------------- MODULE MCRoomKeys -----------------------------
(* An instance of RoomKeys for TLC: this user, another one, two devices each. *)
EXTENDS RoomKeys, TLC

CONSTANTS me, you, own, mine, yours1, yours2

Owners == own :> me @@ mine :> me @@ yours1 :> you @@ yours2 :> you

SomeScenarios ==
  {{"ask"}, {"crash"}, {"lost", "ask"}, {"slow"}, {"race"}, {"unknown"}, {"verified"},
   {"reply", "ask"}, {"reply", "crash"}}
=============================================================================
