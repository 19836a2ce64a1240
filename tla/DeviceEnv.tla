------------------------------ MODULE DeviceEnv ------------------------------
(***************************************************************************)
(* What a behaviour of Device moves, and which adverse things its          *)
(* environment does: the scenario is chosen once and for all at the start. *)
(***************************************************************************)
CONSTANT DeviceScenarios

VARIABLE env

May(x) == x \in env

EnvInit == env \in DeviceScenarios
=============================================================================
