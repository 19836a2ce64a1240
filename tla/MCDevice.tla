------------------------------ MODULE MCDevice ------------------------------
(* An instance of Device for TLC. *)
EXTENDS Device

CONSTANTS s1, s2

StartScenarios ==
  {{"start"}, {"start", "newer"}, {"start", "fresh"}, {"start", "crash"},
   {"start", "fresh", "crash"}, {"start", "fail"}, {"start", "fresh", "fail"}}

KeyScenarios ==
  {{"keys", "restart"}, {"keys", "crash"}, {"keys", "lost"}, {"keys", "error"},
   {"keys", "timer", "restart"}, {"keys", "overlap"}, {"keys", "many"}, {"keys", "hoard"},
   {"keys", "long", "restart"}, {"keys", "behind"}, {"keys", "silent"}}

ChannelScenarios ==
  {{"channels", "rollback", "forget"}, {"channels", "unlisted"},
   {"channels", "error", "crash"}, {"channels", "midway", "forget"},
   {"channels", "reorder", "forget"}}

SecretScenarios ==
  {{"secrets", "unlock", "restart"}, {"secrets", "setup"}, {"secrets", "setup", "fail"},
   {"secrets", "again"}, {"secrets", "reset"}, {"secrets", "revoke"}, {"secrets", "late"}}

AllScenarios == StartScenarios \cup KeyScenarios \cup ChannelScenarios \cup SecretScenarios
=============================================================================
