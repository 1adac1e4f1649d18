---------------------------- MODULE IncidentRules ----------------------------
(***************************************************************************)
(* The incident detector of one radio (incident.py, class IncidentTracker) *)
(* as operators on the tracker's four fields.  A snapshot is cut down to   *)
(* the two values the detector reads: the channel's busy percentage and    *)
(* the router's uptime.  Time and uptime are in one common unit.           *)
(*                                                                         *)
(* Operators whose comment starts with "Slip:" are deliberately wrong      *)
(* variants of the definition that follows them.  Nothing uses them; they  *)
(* serve to confirm that the properties notice the mistake.                *)
(***************************************************************************)
EXTENDS Integers

CONSTANTS Threshold,        \* critical channel utilisation, in percent
          HighDuration,     \* how long utilisation must be high
          UptimeTolerance,  \* uptime may go back this far without a reboot
          None              \* Python's None

\* The config flow accepts thresholds 70..100.
ASSUME ThresholdAssumption == Threshold \in 70..100
ASSUME DurationAssumption == HighDuration \in Nat \ {0} /\ UptimeTolerance \in Nat
ASSUME NoneAssumption == /\ None \notin Int
                         /\ None \notin [busy : Int, uptime : Int \union {None}]

RecoveryThreshold == IF Threshold - 1 < 70 THEN Threshold - 1 ELSE 70

EventTypes == {"high_utilization", "utilization_recovered",
               "node_unreachable", "node_recovered", "router_reboot"}

\* What a new tracker knows: nothing, not even whether the radio answers.
NewTracker == [wasReachable   |-> "unknown",
               previousUptime |-> None,
               highStartedAt  |-> None,
               highEmitted    |-> FALSE]

\* Between Calm and Critical lies a band in which the tracker keeps waiting.
Critical(snap) == snap.busy >= Threshold
Calm(snap) == snap.busy < RecoveryThreshold

\* Slip: the sign of the tolerance is wrong.
UptimeResetWrongSign(t, snap) ==
    /\ snap.uptime # None
    /\ t.previousUptime # None
    /\ snap.uptime < t.previousUptime + UptimeTolerance

UptimeReset(t, snap) ==
    /\ snap.uptime # None
    /\ t.previousUptime # None
    /\ snap.uptime + UptimeTolerance < t.previousUptime

\* Slip: any second critical snapshot counts as sustained.
SustainedAtOnce(t, snap, now) == Critical(snap) /\ t.highStartedAt # None
\* Slip: strictly more than the duration is required.
SustainedStrictly(t, snap, now) ==
    /\ Critical(snap)
    /\ t.highStartedAt # None
    /\ now - t.highStartedAt > HighDuration

\* A critical snapshot at the end of a long enough episode.
Sustained(t, snap, now) ==
    /\ Critical(snap)
    /\ t.highStartedAt # None
    /\ now - t.highStartedAt >= HighDuration

\* Slip: forgets to clear the episode when the radio is lost.
LostKeepsEpisode(t) == [t EXCEPT !.wasReachable = "down", !.previousUptime = None]

\* update(None, now): the radio is missing from the coordinator's data.
Lost(t) == [wasReachable   |-> "down",
            previousUptime |-> None,
            highStartedAt  |-> None,
            highEmitted    |-> FALSE]

\* Slip: a type that is not in the EVENT_TYPES of event.py.
LostEventsMisspelt(t) == IF t.wasReachable = "up" THEN {"node_lost"} ELSE {}

LostEvents(t) == IF t.wasReachable = "up" THEN {"node_unreachable"} ELSE {}

\* When the current episode began; only a calm snapshot ends it.
StartedAt(t, snap, now) ==
    IF Critical(snap) /\ t.highStartedAt = None THEN now
    ELSE IF Calm(snap) THEN None ELSE t.highStartedAt

\* Slip: the report of a sustained episode is not remembered.
EmittedForgotten(t, snap, now) == ~Calm(snap) /\ t.highEmitted

Emitted(t, snap, now) == ~Calm(snap) /\ (t.highEmitted \/ Sustained(t, snap, now))

\* update(snapshot, now) for a radio that answered.
Seen(t, snap, now) == [wasReachable   |-> "up",
                       previousUptime |-> snap.uptime,
                       highStartedAt  |-> StartedAt(t, snap, now),
                       highEmitted    |-> Emitted(t, snap, now)]

SeenEvents(t, snap, now) ==
    {e \in EventTypes :
        \/ e = "node_recovered"        /\ t.wasReachable = "down"
        \/ e = "router_reboot"         /\ UptimeReset(t, snap)
        \/ e = "high_utilization"      /\ Sustained(t, snap, now) /\ ~t.highEmitted
        \/ e = "utilization_recovered" /\ Calm(snap) /\ t.highEmitted}

\* IncidentTracker.update: the tracker's next state, and the events it returns.
Update(t, snap, now) == IF snap = None THEN Lost(t) ELSE Seen(t, snap, now)
Events(t, snap, now) == IF snap = None THEN LostEvents(t) ELSE SeenEvents(t, snap, now)
=============================================================================
