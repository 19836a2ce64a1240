-------------------------------- MODULE Device --------------------------------
(***************************************************************************)
(* What a device keeps of its encryption, in one specification: its start  *)
(* and its Olm account (Startup), the keys it offers to others             *)
(* (OneTimeKeys), its channels to their devices (OlmChannels) and the      *)
(* user's own secrets (Secrets).  A scenario names the part that moves and *)
(* what goes wrong; the parts share no state, so that their interleavings  *)
(* add nothing.                                                            *)
(***************************************************************************)
EXTENDS Startup, OneTimeKeys, OlmChannels, Secrets

vars == <<env, startVars, keysVars, channelsVars, secretVars>>

Init == EnvInit /\ StartInit /\ KeysInit /\ ChannelsInit /\ SecretsInit

Next ==
  \/ May("start") /\ StartNext
     /\ UNCHANGED <<env, keysVars, channelsVars, secretVars>>
  \/ May("keys") /\ KeysNext
     /\ UNCHANGED <<env, startVars, channelsVars, secretVars>>
  \/ May("channels") /\ ChannelsNext
     /\ UNCHANGED <<env, startVars, keysVars, secretVars>>
  \/ May("secrets") /\ SecretsNext
     /\ UNCHANGED <<env, startVars, keysVars, channelsVars>>

Spec == Init /\ [][Next]_vars

FairSpec == Spec /\ KeysFairness /\ ChannelsFairness
=============================================================================
