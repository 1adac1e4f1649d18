--------------------------- MODULE IncidentTracker ---------------------------
(***************************************************************************)
(* The incident entity of one radio (event.py) through time.  The entity   *)
(* feeds its tracker on every notification of the coordinator, whatever    *)
(* caused it: a poll that brought new data (Poll), or a probe report or a  *)
(* failed poll, after which the coordinator still holds the snapshot of an *)
(* earlier poll (Renotify).  Around it, time passes and the router may     *)
(* reboot.  The wall clock is taken to be monotonic.                       *)
(*                                                                         *)
(* `history` and `rebooted` are ghosts: the code keeps neither.  They say  *)
(* what really happened, for the properties to compare the events with.    *)
(***************************************************************************)
EXTENDS IncidentRules, Sequences

CONSTANTS Busy,       \* the utilisation values a snapshot may report
          FirstUptimes, \* router uptimes at the start
          MaxTime,    \* bound on the clock
          MaxObs      \* bound on the number of observations

ASSUME SamplesAssumption ==
    /\ Busy \subseteq 0..100
    /\ FirstUptimes \subseteq Nat
    /\ MaxTime \in Nat
    /\ MaxObs \in Nat

VARIABLES now,       \* the wall clock, dt_util.utcnow()
          uptime,    \* the router's real uptime
          current,   \* this radio in coordinator.data: a snapshot, or None
          tracker,   \* the entity's IncidentTracker
          rebooted,  \* the router rebooted since the current snapshot was taken
          history    \* what the tracker was shown and what it raised

vars == <<now, uptime, current, tracker, rebooted, history>>

\* /proc/uptime is read with every snapshot, but may be unreadable.
SnapshotsAt(u) == [busy : Busy, uptime : {u, None}]
Snapshots == [busy : Busy, uptime : Nat \union {None}]

Class(snap) == IF snap = None THEN "lost"
               ELSE IF Critical(snap) THEN "critical"
               ELSE IF Calm(snap) THEN "calm" ELSE "between"

High == {"critical", "between"}

(***************************************************************************)
(* Entities are created after the first successful refresh, so the         *)
(* coordinator already holds data that the new tracker has not been shown. *)
(***************************************************************************)
Init == /\ now = 0
        /\ uptime \in FirstUptimes
        /\ current \in SnapshotsAt(uptime) \union {None}
        /\ tracker = NewTracker
        /\ rebooted = FALSE
        /\ history = <<>>

Tick == /\ now < MaxTime
        /\ now' = now + 1
        /\ uptime' = uptime + 1
        /\ UNCHANGED <<current, tracker, rebooted, history>>

Reboot == /\ uptime' = 0
          /\ rebooted' = TRUE
          /\ UNCHANGED <<now, current, tracker, history>>

(***************************************************************************)
(* _handle_coordinator_update : show the tracker the coordinator's         *)
(* snapshot of the radio and publish every incident it returns.            *)
(***************************************************************************)
Handle(snap, polled) ==
    /\ Len(history) < MaxObs
    /\ tracker' = Update(tracker, snap, now)
    /\ history' = Append(history, [at     |-> now,
                                   polled |-> polled,
                                   class  |-> Class(snap),
                                   raised |-> Events(tracker, snap, now)])

Poll(snap) == /\ current' = snap
              /\ rebooted' = FALSE
              /\ Handle(snap, TRUE)
              /\ UNCHANGED <<now, uptime>>

Renotify == /\ Handle(current, FALSE)
            /\ UNCHANGED <<now, uptime, current, rebooted>>

Next == \/ Tick
        \/ Reboot
        \/ \E snap \in SnapshotsAt(uptime) \union {None} : Poll(snap)
        \/ Renotify

Spec == Init /\ [][Next]_vars
-----------------------------------------------------------------------------
(* Type invariant: the tracker's fields and the log have their Python      *)
(* types (incident.py, IncidentTracker.__init__).                          *)
Trackers == [wasReachable   : {"unknown", "up", "down"},
             previousUptime : Nat \union {None},
             highStartedAt  : Nat \union {None},
             highEmitted    : BOOLEAN]

Observations == [at     : Nat,
                 polled : BOOLEAN,
                 class  : {"lost", "calm", "between", "critical"},
                 raised : SUBSET EventTypes]

TypeOK == /\ now \in Nat
          /\ uptime \in Nat
          /\ current \in Snapshots \union {None}
          /\ tracker \in Trackers
          /\ rebooted \in BOOLEAN
          /\ history \in Seq(Observations)

(* The tracker's fields agree with each other: an episode exists only while *)
(* the radio answers, never starts in the future, and is only marked as     *)
(* reported once it lasted long enough.  The update has three early exits   *)
(* and two resets that each have to keep this (incident.py:93-153).         *)
TrackerConsistent ==
    /\ tracker.previousUptime # None => tracker.wasReachable = "up"
    /\ tracker.highStartedAt # None =>
          /\ tracker.wasReachable = "up"
          /\ tracker.highStartedAt <= now
    /\ tracker.highEmitted =>
          /\ tracker.highStartedAt # None
          /\ now - tracker.highStartedAt >= HighDuration

HighThrough(i, j) == \A k \in i..j : history[k].class \in High
RaisedAt(e, i) == e \in history[i].raised

(* A high_utilization event is backed by evidence: an observation at least *)
(* HighDuration earlier was critical, the radio was neither calm nor lost  *)
(* in between, and nobody was told of this episode before                  *)
(* (incident.py:130-143).                                                  *)
HighHasEvidence ==
    \A i \in DOMAIN history : RaisedAt("high_utilization", i) =>
        /\ history[i].class = "critical"
        /\ \E j \in 1..(i - 1) :
              /\ history[j].class = "critical"
              /\ history[i].at - history[j].at >= HighDuration
              /\ HighThrough(j, i)
              /\ \A k \in j..(i - 1) : ~RaisedAt("high_utilization", k)

CriticalThrough(i, j) == \A k \in i..j : history[k].class = "critical"

(* Conversely no sustained episode goes unreported: when utilization was    *)
(* critical in every observation of HighDuration or longer, and the last of *)
(* them was polled, the episode they belong to has been reported by then.   *)
(* It may have been reported before, but not before an end by calm or loss  *)
(* (incident.py:130-151).                                                   *)
SustainedIsReported ==
    \A i \in DOMAIN history : \A j \in 1..(i - 1) :
        (/\ CriticalThrough(j, i)
         /\ history[i].polled
         /\ history[i].at - history[j].at >= HighDuration)
        => \E k \in 1..i : RaisedAt("high_utilization", k) /\ HighThrough(k, i)

(* "high utilization must remain above the configured critical threshold    *)
(* for one minute before it is recorded" (README.md:78-79).                 *)
RemainsCritical ==
    \A i \in DOMAIN history : RaisedAt("high_utilization", i) =>
        \E j \in 1..(i - 1) : /\ history[i].at - history[j].at >= HighDuration
                              /\ CriticalThrough(j, i)

(* A router_reboot event means that the router rebooted since the snapshot *)
(* before it, and a replayed snapshot raises none: uptimes read by         *)
(* different polls are only compared in the order in which they were read  *)
(* (incident.py:116-128, event.py:64-68).                                  *)
RebootIsReal ==
    [][history' # history /\ "router_reboot" \in history'[Len(history')].raised
       => rebooted /\ ~rebooted']_vars

(* The entity keeps the promise of IncidentPromise: its events only occur  *)
(* in the order the abstract specification allows (incident.py:93-153).    *)
LatestRaised == IF history = <<>> THEN {} ELSE history[Len(history)].raised

Promise == INSTANCE IncidentPromise
               WITH reach   <- tracker.wasReachable,
                    episode <- tracker.highEmitted,
                    raised  <- LatestRaised

KeepsPromise == Promise!Spec
=============================================================================
