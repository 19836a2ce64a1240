----------------------------- MODULE MCUserKeys -----------------------------
(* An instance of UserKeys for TLC. *)
EXTENDS UserKeys

CONSTANTS d1, d2, k1, k2, c1, c2

Lists(a, b, c) == <<[d \in Devices |-> a], [d \in Devices |-> b], [d \in Devices |-> c]>>

\* A device is logged out and its id comes back with another key.
SomeHistories == {Lists(k1, NoKey, k2)}

SomeScenarios ==
  {{"call", "error"}, {"call", "overlap"}, {"call", "untracked"},
   {"status", "send"}, {"send", "race"}}
=============================================================================
