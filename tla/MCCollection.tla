---------------------------- MODULE MCCollection ----------------------------
(***************************************************************************)
(* Small instances of Collection: one host with two radios, and another    *)
(* with one.                                                               *)
(***************************************************************************)
EXTENDS Collection

PhysicalNodes == {"controller", "node"}
TwoHosts == <<"controller", "controller", "node">>
=============================================================================
