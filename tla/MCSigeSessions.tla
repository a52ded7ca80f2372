--------------------------- MODULE MCSigeSessions ---------------------------
(* Instances of SigeSessions for TLC. *)
EXTENDS SigeSessions
=============================================================================
