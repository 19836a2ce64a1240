------------------------ MODULE MCDeviceVerification ------------------------
(* Instances of DeviceVerification for TLC. *)
EXTENDS DeviceVerification, TLC

CONSTANTS alice, bob, carol, f1

OneFlow == {f1}
Trio    == {alice, bob, carol}
Ranks   == (alice :> 2 @@ bob :> 1 @@ carol :> 3)

\* Two devices, either may ask: start messages cross with either rank.
Pair(disturbed, offers) ==
  [disturbed |-> disturbed, offers |-> offers, otherClients |-> {alice, bob},
   asks |-> (alice :> {{bob}} @@ bob :> {{alice}})]

\* One user asks both her other devices.
AskBoth == [disturbed |-> TRUE, offers |-> {}, otherClients |-> {},
            asks |-> (alice :> {{bob, carol}})]

SomeScenarios  == {Pair(TRUE, {"both", "unsupported"}), Pair(FALSE, {"both", "decimal"}),
                   AskBoth}
\* The other program may know decimals only.
GlareScenarios == {Pair(TRUE, {"both", "decimal"})}
=============================================================================
