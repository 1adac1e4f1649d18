--------------------------- MODULE IncidentPromise ---------------------------
(***************************************************************************)
(* What the incident entity of one radio promises its readers (the         *)
(* recorder, the diagnostic report, automations): the order in which its   *)
(* five event types can follow one another.  Neither times nor utilisation *)
(* values appear here.                                                     *)
(*                                                                         *)
(*   - the radio is lost at most once before it is seen again, and a       *)
(*     recovery is reported exactly when a radio known to be down is seen; *)
(*   - an episode of high utilisation is opened by one report and closed   *)
(*     by one report, or silently by the loss of the radio;                *)
(*   - a reboot is only ever reported between two answers of the radio.    *)
(***************************************************************************)
VARIABLES reach,    \* "unknown" before the first observation, then "up" or "down"
          episode,  \* a high_utilization report is not yet followed by its end
          raised    \* the events of the latest observation

vars == <<reach, episode, raised>>

Init == reach = "unknown" /\ episode = FALSE /\ raised = {}

Lose == /\ reach' = "down"
        /\ episode' = FALSE
        /\ raised' = IF reach = "up" THEN {"node_unreachable"} ELSE {}

See == /\ reach' = "up"
       /\ episode' \in BOOLEAN
       /\ raised' \in SUBSET {"high_utilization", "utilization_recovered",
                              "node_recovered", "router_reboot"}
       /\ "node_recovered" \in raised' <=> reach = "down"
       /\ "high_utilization" \in raised' <=> ~episode /\ episode'
       /\ "utilization_recovered" \in raised' <=> episode /\ ~episode'
       /\ "router_reboot" \in raised' => reach = "up"

Next == Lose \/ See

Spec == Init /\ [][Next]_vars

\* A reload of the entity forgets everything, an open episode included.
Restart == reach' = "unknown" /\ episode' = FALSE /\ raised' = {}

SpecAcrossReloads == Init /\ [][Next \/ Restart]_vars
=============================================================================
