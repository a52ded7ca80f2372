-------------------------- MODULE MCSocialMonitor --------------------------
(* Instances of SocialMonitor for TLC. *)
EXTENDS SocialMonitor

CONSTANTS a, b

MCStarters == {a, b}
MCOnce     == {b}
=============================================================================
