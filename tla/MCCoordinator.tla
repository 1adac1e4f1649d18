---------------------------- MODULE MCCoordinator ----------------------------
(***************************************************************************)
(* Small instances of Coordinator.  One unit of time is the minute after   *)
(* which high utilisation is reported.                                     *)
(***************************************************************************)
EXTENDS Coordinator

\* A congested snapshot, and a quiet one of a router that has just rebooted.
SnapshotSamples == {[busy |-> 95, uptime |-> 9], [busy |-> 50, uptime |-> 0]}
=============================================================================
