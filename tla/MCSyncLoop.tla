----------------------------- MODULE MCSyncLoop -----------------------------
(* An instance of SyncLoop for TLC. *)
EXTENDS SyncLoop

\* The faults that are explored together.
FaultsTogether ==
  {{"restart"}, {"read"}, {"write", "restart"}, {"write", "crash"}, {"crash"}, {"relogin"}}
=============================================================================
