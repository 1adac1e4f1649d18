-------------------------- MODULE MCIncidentTracker --------------------------
(***************************************************************************)
(* A small instance of IncidentTracker.  One unit of time is 30 seconds,   *)
(* the default scan interval, so that both one-minute constants of         *)
(* incident.py are 2.  The busy values lie below the recovery threshold    *)
(* (70), between it and the critical threshold (90), and on the latter.    *)
(***************************************************************************)
EXTENDS IncidentTracker

BusySamples == {69, 70, 90}
UptimeSamples == {0, 4}
=============================================================================
