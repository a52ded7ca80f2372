---------------------------- MODULE MCHealthAlerts ----------------------------
(* Instances of HealthAlerts for TLC. *)
EXTENDS HealthAlerts

\* The crash-loop check has one title, that of the disk one per percentage.
MCReadings == [crashloop |-> 1, disk |-> 2]
=============================================================================
