------------------------ MODULE IncidentTrackerProofs ------------------------
(***************************************************************************)
(* Proofs about IncidentTracker: for every threshold, duration, tolerance, *)
(* sample of busy values and bound, not only those of the checked instance.*)
(***************************************************************************)
EXTENDS IncidentTracker, TLAPS

(***************************************************************************)
(* What one update does to the tracker's fields, and what it returns.      *)
(***************************************************************************)
LEMMA UpdateTypes ==
    ASSUME NEW t \in Trackers, NEW snap \in Snapshots \union {None}, NEW n \in Nat
    PROVE  /\ Update(t, snap, n) \in Trackers
           /\ Events(t, snap, n) \in SUBSET EventTypes
<1>1. CASE snap = None
  BY <1>1 DEF Update, Events, Lost, LostEvents, Trackers, EventTypes
<1>2. CASE snap # None
  <2>1. snap \in Snapshots
    BY <1>2
  <2>2. StartedAt(t, snap, n) \in Nat \union {None}
    BY DEF StartedAt, Trackers
  <2>3. Emitted(t, snap, n) \in BOOLEAN
    BY DEF Emitted
  <2>4. Seen(t, snap, n) \in Trackers
    BY <2>1, <2>2, <2>3 DEF Seen, Trackers, Snapshots
  <2> QED
    BY <1>2, <2>4 DEF Update, Events, SeenEvents
<1> QED
  BY <1>1, <1>2

(***************************************************************************)
(* Every step that shows the tracker a snapshot does so through Handle.    *)
(***************************************************************************)
LEMMA PolledSnapshots ==
    ASSUME NEW u \in Nat, NEW snap \in SnapshotsAt(u) \union {None}
    PROVE  snap \in Snapshots \union {None}
BY DEF SnapshotsAt, Snapshots

LEMMA HandleTypes ==
    ASSUME TypeOK, NEW snap \in Snapshots \union {None}, NEW polled \in BOOLEAN,
           Handle(snap, polled)
    PROVE  tracker' \in Trackers /\ history' \in Seq(Observations)
<1>1. /\ Update(tracker, snap, now) \in Trackers
      /\ Events(tracker, snap, now) \in SUBSET EventTypes
  BY UpdateTypes DEF TypeOK
<1>2. Class(snap) \in {"lost", "calm", "between", "critical"}
  BY DEF Class
<1>3. [at |-> now, polled |-> polled, class |-> Class(snap),
       raised |-> Events(tracker, snap, now)] \in Observations
  BY <1>1, <1>2 DEF Observations, TypeOK
<1> QED
  BY <1>1, <1>3 DEF Handle, TypeOK

(***************************************************************************)
(* Type correctness.                                                       *)
(***************************************************************************)
THEOREM TypeCorrect == Spec => []TypeOK
<1>1. Init => TypeOK
  <2> SUFFICES ASSUME Init PROVE TypeOK
    OBVIOUS
  <2>1. uptime \in Nat
    BY SamplesAssumption DEF Init
  <2>2. current \in Snapshots \union {None}
    BY <2>1, PolledSnapshots DEF Init
  <2>3. tracker \in Trackers
    BY DEF Init, NewTracker, Trackers
  <2>4. history \in Seq(Observations)
    BY DEF Init
  <2> QED
    BY <2>1, <2>2, <2>3, <2>4 DEF Init, TypeOK
<1>2. TypeOK /\ [Next]_vars => TypeOK'
  <2> SUFFICES ASSUME TypeOK, [Next]_vars PROVE TypeOK'
    OBVIOUS
  <2>1. CASE Tick
    BY <2>1 DEF Tick, TypeOK
  <2>2. CASE Reboot
    BY <2>2 DEF Reboot, TypeOK
  <2>3. ASSUME NEW snap \in SnapshotsAt(uptime) \union {None}, Poll(snap)
        PROVE  TypeOK'
    <3>1. snap \in Snapshots \union {None}
      BY PolledSnapshots DEF TypeOK
    <3>2. tracker' \in Trackers /\ history' \in Seq(Observations)
      BY <2>3, <3>1, HandleTypes DEF Poll
    <3> QED
      BY <2>3, <3>1, <3>2 DEF Poll, TypeOK
  <2>4. CASE Renotify
    <3>1. tracker' \in Trackers /\ history' \in Seq(Observations)
      BY <2>4, HandleTypes DEF Renotify, TypeOK
    <3> QED
      BY <2>4, <3>1 DEF Renotify, TypeOK
  <2>5. CASE UNCHANGED vars
    BY <2>5 DEF vars, TypeOK
  <2> QED
    BY <2>1, <2>2, <2>3, <2>4, <2>5 DEF Next
<1> QED
  BY <1>1, <1>2, PTL DEF Spec
-----------------------------------------------------------------------------
(***************************************************************************)
(* The fields of the tracker agree.  TrackerConsistent is inductive next   *)
(* to TypeOK: showing the tracker a snapshot is the only step that touches *)
(* it, and the clock only moves forward.                                   *)
(***************************************************************************)
LEMMA HandleConsistent ==
    ASSUME TypeOK, TrackerConsistent, NEW snap \in Snapshots \union {None},
           NEW polled \in BOOLEAN, Handle(snap, polled), now' = now
    PROVE  TrackerConsistent'
<1>1. CASE snap = None
  BY <1>1 DEF Handle, Update, Lost, TrackerConsistent
<1>2. CASE snap # None
  <2>1. /\ tracker'.wasReachable = "up"
        /\ tracker'.highStartedAt = StartedAt(tracker, snap, now)
        /\ tracker'.highEmitted = Emitted(tracker, snap, now)
    BY <1>2 DEF Handle, Update, Seen
  <2>2. tracker'.highStartedAt # None => tracker'.highStartedAt <= now
    BY <2>1, NoneAssumption DEF StartedAt, TrackerConsistent, TypeOK, Trackers
  <2>3. ASSUME tracker'.highEmitted
        PROVE  /\ tracker'.highStartedAt # None
               /\ now - tracker'.highStartedAt >= HighDuration
    <3>1. ~Calm(snap) /\ (tracker.highEmitted \/ Sustained(tracker, snap, now))
      BY <2>1, <2>3 DEF Emitted
    <3>2. tracker.highStartedAt # None /\ now - tracker.highStartedAt >= HighDuration
      BY <3>1 DEF Sustained, TrackerConsistent
    <3> QED
      BY <2>1, <3>1, <3>2 DEF StartedAt
  <2> QED
    BY <2>1, <2>2, <2>3 DEF TrackerConsistent
<1> QED
  BY <1>1, <1>2

(* Every reachable tracker is consistent (incident.py:93-153), whatever    *)
(* the threshold and the durations.                                        *)
THEOREM TrackerStaysConsistent == Spec => []TrackerConsistent
<1>1. Init => TrackerConsistent
  BY DEF Init, NewTracker, TrackerConsistent
<1>2. TypeOK /\ TrackerConsistent /\ [Next]_vars => TrackerConsistent'
  <2> SUFFICES ASSUME TypeOK, TrackerConsistent, [Next]_vars
               PROVE  TrackerConsistent'
    OBVIOUS
  <2>1. CASE Tick
    BY <2>1, NoneAssumption, DurationAssumption
    DEF Tick, TrackerConsistent, TypeOK, Trackers
  <2>2. CASE Reboot
    BY <2>2 DEF Reboot, TrackerConsistent
  <2>3. ASSUME NEW snap \in SnapshotsAt(uptime) \union {None}, Poll(snap)
        PROVE  TrackerConsistent'
    BY <2>3, PolledSnapshots, HandleConsistent DEF Poll, TypeOK
  <2>4. CASE Renotify
    BY <2>4, HandleConsistent DEF Renotify, TypeOK
  <2>5. CASE UNCHANGED vars
    BY <2>5 DEF vars, TrackerConsistent
  <2> QED
    BY <2>1, <2>2, <2>3, <2>4, <2>5 DEF Next
<1> QED
  BY <1>1, <1>2, TypeCorrect, PTL DEF Spec
-----------------------------------------------------------------------------
(***************************************************************************)
(* The order of events.  A step that shows the tracker a snapshot is a     *)
(* Lose or a See of the promise; every other step leaves it alone.         *)
(***************************************************************************)
LEMMA CriticalIsNotCalm ==
    ASSUME NEW snap \in Snapshots
    PROVE  Critical(snap) => ~Calm(snap)
<1>1. snap.busy \in Busy
  BY DEF Snapshots
<1>2. snap.busy \in 0..100
  BY <1>1, SamplesAssumption
<1>3. RecoveryThreshold \in Int /\ RecoveryThreshold < Threshold
  BY ThresholdAssumption DEF RecoveryThreshold
<1> QED
  BY <1>2, <1>3, ThresholdAssumption DEF Critical, Calm

LEMMA HandleRaises ==
    ASSUME TypeOK, NEW snap, NEW polled, Handle(snap, polled)
    PROVE  history' # <<>> /\ LatestRaised' = Events(tracker, snap, now)
<1>1. /\ history' # <<>>
      /\ history'[Len(history')].raised = Events(tracker, snap, now)
  BY DEF Handle, TypeOK
<1> QED
  BY <1>1 DEF LatestRaised

LEMMA HandleKeepsPromise ==
    ASSUME TypeOK, TrackerConsistent, NEW snap \in Snapshots \union {None},
           NEW polled \in BOOLEAN, Handle(snap, polled)
    PROVE  Promise!Next
<1>1. LatestRaised' = Events(tracker, snap, now)
  BY HandleRaises
<1>2. CASE snap = None
  <2>1. Promise!Lose
    BY <1>1, <1>2 DEF Handle, Update, Lost, Events, LostEvents, Promise!Lose
  <2> QED
    BY <2>1 DEF Promise!Next
<1>3. CASE snap # None
  <2>1. /\ tracker'.wasReachable = "up"
        /\ tracker'.highEmitted = Emitted(tracker, snap, now)
        /\ LatestRaised' = SeenEvents(tracker, snap, now)
    BY <1>1, <1>3 DEF Handle, Update, Seen, Events
  <2>2. tracker'.highEmitted \in BOOLEAN
    BY <2>1 DEF Emitted
  <2>3. LatestRaised' \in SUBSET {"high_utilization", "utilization_recovered",
                                  "node_recovered", "router_reboot"}
    BY <2>1 DEF SeenEvents, EventTypes
  <2>4. "node_recovered" \in LatestRaised' <=> tracker.wasReachable = "down"
    BY <2>1 DEF SeenEvents, EventTypes
  <2>5. "high_utilization" \in LatestRaised'
           <=> ~tracker.highEmitted /\ tracker'.highEmitted
    <3>1. Critical(snap) => ~Calm(snap)
      BY <1>3, CriticalIsNotCalm
    <3>2. "high_utilization" \in LatestRaised'
             <=> Sustained(tracker, snap, now) /\ ~tracker.highEmitted
      BY <2>1 DEF SeenEvents, EventTypes
    <3>3. Sustained(tracker, snap, now) => Critical(snap)
      BY DEF Sustained
    <3>4. tracker'.highEmitted
             <=> ~Calm(snap) /\ (tracker.highEmitted \/ Sustained(tracker, snap, now))
      BY <2>1 DEF Emitted
    <3> QED
      BY <3>1, <3>2, <3>3, <3>4
  <2>6. "utilization_recovered" \in LatestRaised'
           <=> tracker.highEmitted /\ ~tracker'.highEmitted
    <3>1. "utilization_recovered" \in LatestRaised'
             <=> Calm(snap) /\ tracker.highEmitted
      BY <2>1 DEF SeenEvents, EventTypes
    <3> QED
      BY <2>1, <3>1 DEF Emitted
  <2>7. "router_reboot" \in LatestRaised' => tracker.wasReachable = "up"
    BY <2>1 DEF SeenEvents, EventTypes, UptimeReset, TrackerConsistent
  <2>8. Promise!See
    BY <2>1, <2>2, <2>3, <2>4, <2>5, <2>6, <2>7 DEF Promise!See
  <2> QED
    BY <2>8 DEF Promise!Next
<1> QED
  BY <1>2, <1>3

(* IncidentTracker implements IncidentPromise: whatever polls, replays and *)
(* reboots happen, the events of incident.py:93-153 come in promised order.*)
THEOREM TrackerKeepsPromise == Spec => KeepsPromise
<1>1. Init => Promise!Init
  BY DEF Init, NewTracker, LatestRaised, Promise!Init
<1>2. TypeOK /\ TrackerConsistent /\ [Next]_vars => [Promise!Next]_(Promise!vars)
  <2> SUFFICES ASSUME TypeOK, TrackerConsistent, [Next]_vars
               PROVE  Promise!Next \/ UNCHANGED Promise!vars
    OBVIOUS
  <2>1. CASE Tick
    BY <2>1 DEF Tick, Promise!vars, LatestRaised
  <2>2. CASE Reboot
    BY <2>2 DEF Reboot, Promise!vars, LatestRaised
  <2>3. ASSUME NEW snap \in SnapshotsAt(uptime) \union {None}, Poll(snap)
        PROVE  Promise!Next
    BY <2>3, PolledSnapshots, HandleKeepsPromise DEF Poll, TypeOK
  <2>4. CASE Renotify
    BY <2>4, HandleKeepsPromise DEF Renotify, TypeOK
  <2>5. CASE UNCHANGED vars
    BY <2>5 DEF vars, Promise!vars, LatestRaised
  <2> QED
    BY <2>1, <2>2, <2>3, <2>4, <2>5 DEF Next
<1> QED
  BY <1>1, <1>2, TypeCorrect, TrackerStaysConsistent, PTL
  DEF Spec, KeepsPromise, Promise!Spec
-----------------------------------------------------------------------------
(***************************************************************************)
(* Evidence.  HighHasEvidence only speaks of observations that raised the  *)
(* event, which is too little to be inductive: EvidenceInv adds that an    *)
(* open episode began at a critical observation that is still in the log.  *)
(***************************************************************************)
EpisodeInLog ==
    tracker.highStartedAt # None =>
        \E j \in 1..Len(history) :
            /\ history[j].class = "critical"
            /\ history[j].at = tracker.highStartedAt
            /\ HighThrough(j, Len(history))
            /\ ~tracker.highEmitted =>
                  \A k \in j..Len(history) : ~RaisedAt("high_utilization", k)

EvidenceInv == HighHasEvidence /\ EpisodeInLog

LEMMA HistoryGrows ==
    ASSUME TypeOK, NEW snap \in Snapshots \union {None}, NEW polled \in BOOLEAN,
           Handle(snap, polled)
    PROVE  /\ Len(history) \in Nat
           /\ DOMAIN history = 1..Len(history)
           /\ DOMAIN history' = 1..(Len(history) + 1)
           /\ Len(history') = Len(history) + 1
           /\ \A i \in 1..Len(history) : history'[i] = history[i]
           /\ history'[Len(history) + 1] =
                 [at |-> now, polled |-> polled, class |-> Class(snap),
                  raised |-> Events(tracker, snap, now)]
<1>1. history \in Seq(Observations)
  BY DEF TypeOK
<1>2. history' = Append(history, [at |-> now, polled |-> polled, class |-> Class(snap),
                                  raised |-> Events(tracker, snap, now)])
  BY DEF Handle
<1> QED
  BY <1>1, <1>2

LEMMA ClassesOf ==
    ASSUME NEW snap \in Snapshots \union {None}
    PROVE  /\ Class(snap) = "lost" <=> snap = None
           /\ snap # None => /\ Class(snap) = "critical" <=> Critical(snap)
                             /\ Class(snap) \in High <=> ~Calm(snap)
<1>1. CASE snap = None
  BY <1>1 DEF Class
<1>2. CASE snap # None
  <2>1. Critical(snap) => ~Calm(snap)
    BY <1>2, CriticalIsNotCalm
  <2>2. CASE Critical(snap)
    BY <1>2, <2>1, <2>2 DEF Class, High
  <2>3. CASE ~Critical(snap) /\ Calm(snap)
    BY <1>2, <2>3 DEF Class, High
  <2>4. CASE ~Critical(snap) /\ ~Calm(snap)
    BY <1>2, <2>4 DEF Class, High
  <2> QED
    BY <2>2, <2>3, <2>4
<1> QED
  BY <1>1, <1>2

LEMMA HighEvents ==
    ASSUME NEW snap \in Snapshots \union {None}
    PROVE  "high_utilization" \in Events(tracker, snap, now)
              <=> snap # None /\ Sustained(tracker, snap, now) /\ ~tracker.highEmitted
BY DEF Events, LostEvents, SeenEvents, EventTypes

LEMMA HandleKeepsEvidence ==
    ASSUME TypeOK, TrackerConsistent, EvidenceInv,
           NEW snap \in Snapshots \union {None}, NEW polled \in BOOLEAN,
           Handle(snap, polled)
    PROVE  EvidenceInv'
<1> DEFINE n == Len(history)
           new == history'[n + 1]
<1>1. /\ n \in Nat
      /\ DOMAIN history = 1..n
      /\ DOMAIN history' = 1..(n + 1)
      /\ Len(history') = n + 1
      /\ \A i \in 1..n : history'[i] = history[i]
      /\ new = [at |-> now, polled |-> polled, class |-> Class(snap),
                raised |-> Events(tracker, snap, now)]
  BY HistoryGrows
<1> HIDE DEF n, new
<1>2. EpisodeInLog'
  <2> SUFFICES ASSUME tracker'.highStartedAt # None
               PROVE  \E j \in 1..(n + 1) :
                         /\ history'[j].class = "critical"
                         /\ history'[j].at = tracker'.highStartedAt
                         /\ \A k \in j..(n + 1) : history'[k].class \in High
                         /\ ~tracker'.highEmitted =>
                               \A k \in j..(n + 1) :
                                  "high_utilization" \notin history'[k].raised
    BY <1>1 DEF EpisodeInLog, HighThrough, RaisedAt
  <2>1. /\ snap # None
        /\ tracker'.highStartedAt = StartedAt(tracker, snap, now)
        /\ tracker'.highEmitted = Emitted(tracker, snap, now)
    BY DEF Handle, Update, Seen, Lost
  <2>2. ~Calm(snap) /\ new.class \in High
    BY <1>1, <2>1, ClassesOf, CriticalIsNotCalm DEF StartedAt
  <2>3. ~tracker'.highEmitted =>
           /\ ~tracker.highEmitted
           /\ "high_utilization" \notin new.raised
    BY <1>1, <2>1, <2>2, HighEvents DEF Emitted
  <2>4. CASE tracker.highStartedAt = None
    <3>1. Critical(snap) /\ tracker'.highStartedAt = now
      BY <2>1, <2>4 DEF StartedAt
    <3>2. new.class = "critical" /\ new.at = now
      BY <1>1, <2>1, <3>1, ClassesOf
    <3>3. n + 1 \in 1..(n + 1) /\ (n + 1)..(n + 1) = {n + 1}
      BY <1>1
    <3> QED
      BY <2>2, <2>3, <3>1, <3>2, <3>3 DEF new
  <2>5. CASE tracker.highStartedAt # None
    <3>1. tracker'.highStartedAt = tracker.highStartedAt
      BY <2>1, <2>2, <2>5 DEF StartedAt
    <3>2. PICK j \in 1..n :
             /\ history[j].class = "critical"
             /\ history[j].at = tracker.highStartedAt
             /\ \A k \in j..n : history[k].class \in High
             /\ ~tracker.highEmitted =>
                   \A k \in j..n : "high_utilization" \notin history[k].raised
      BY <2>5 DEF EvidenceInv, EpisodeInLog, HighThrough, RaisedAt, n
    <3>3. j \in 1..(n + 1) /\ \A k \in j..(n + 1) : k \in j..n \/ k = n + 1
      BY <1>1
    <3>4. \A k \in j..n : k \in 1..n
      BY <1>1
    <3>5. \A k \in j..(n + 1) : history'[k].class \in High
      BY <1>1, <2>2, <3>2, <3>3, <3>4 DEF new
    <3>6. ~tracker'.highEmitted =>
             \A k \in j..(n + 1) : "high_utilization" \notin history'[k].raised
      BY <1>1, <2>3, <3>2, <3>3, <3>4 DEF new
    <3>7. history'[j] = history[j]
      BY <1>1
    <3> QED
      BY <3>1, <3>2, <3>3, <3>5, <3>6, <3>7
  <2> QED
    BY <2>4, <2>5
<1>3. HighHasEvidence'
  <2> SUFFICES ASSUME NEW i \in 1..(n + 1), "high_utilization" \in history'[i].raised
               PROVE  /\ history'[i].class = "critical"
                      /\ \E j \in 1..(i - 1) :
                            /\ history'[j].class = "critical"
                            /\ history'[i].at - history'[j].at >= HighDuration
                            /\ \A k \in j..i : history'[k].class \in High
                            /\ \A k \in j..(i - 1) :
                                  "high_utilization" \notin history'[k].raised
    BY <1>1 DEF HighHasEvidence, HighThrough, RaisedAt
  <2>1. CASE i \in 1..n
    <3>1. /\ history[i].class = "critical"
          /\ \E j \in 1..(i - 1) :
                /\ history[j].class = "critical"
                /\ history[i].at - history[j].at >= HighDuration
                /\ \A k \in j..i : history[k].class \in High
                /\ \A k \in j..(i - 1) : "high_utilization" \notin history[k].raised
      BY <1>1, <2>1 DEF EvidenceInv, HighHasEvidence, HighThrough, RaisedAt
    <3>2. \A k \in 1..i : history'[k] = history[k]
      BY <1>1, <2>1
    <3>3. \A j \in 1..(i - 1) : j \in 1..i /\ j..i \subseteq 1..i /\ j..(i - 1) \subseteq 1..i
      BY <2>1
    <3>4. i \in 1..i
      BY <2>1
    <3> QED
      BY <3>1, <3>2, <3>3, <3>4
  <2>2. CASE i = n + 1
    <3>1. /\ snap # None
          /\ Sustained(tracker, snap, now)
          /\ ~tracker.highEmitted
          /\ new.class = "critical"
          /\ new.at = now
      BY <1>1, <2>2, HighEvents, ClassesOf DEF Sustained, new
    <3>2. PICK j \in 1..n :
             /\ history[j].class = "critical"
             /\ history[j].at = tracker.highStartedAt
             /\ \A k \in j..n : history[k].class \in High
             /\ \A k \in j..n : "high_utilization" \notin history[k].raised
      BY <3>1 DEF Sustained, EvidenceInv, EpisodeInLog, HighThrough, RaisedAt, n
    <3>3. now - history[j].at >= HighDuration
      BY <3>1, <3>2 DEF Sustained
    <3>4. /\ \A k \in j..i : k \in j..n \/ k = n + 1
          /\ \A k \in j..n : k \in 1..n
          /\ i - 1 = n
      BY <1>1, <2>2
    <3>5. \A k \in j..i : history'[k].class \in High
      BY <1>1, <3>1, <3>2, <3>4 DEF new, High
    <3>6. \A k \in j..(i - 1) : "high_utilization" \notin history'[k].raised
      BY <1>1, <3>2, <3>4
    <3>7. history'[j] = history[j] /\ history'[i] = new
      BY <1>1, <2>2 DEF new
    <3> QED
      BY <3>1, <3>2, <3>3, <3>4, <3>5, <3>6, <3>7
  <2> QED
    BY <1>1, <2>1, <2>2
<1> QED
  BY <1>2, <1>3 DEF EvidenceInv

(* Every high_utilization event rests on a sustained episode that nobody   *)
(* was told of before (incident.py:130-143), whatever the threshold and    *)
(* the interleaving of polls with replays of old data.                     *)
THEOREM HighAlwaysHasEvidence == Spec => []HighHasEvidence
<1>1. Init => EvidenceInv
  BY DEF Init, NewTracker, EvidenceInv, HighHasEvidence, EpisodeInLog
<1>2. TypeOK /\ TrackerConsistent /\ EvidenceInv /\ [Next]_vars => EvidenceInv'
  <2> SUFFICES ASSUME TypeOK, TrackerConsistent, EvidenceInv, [Next]_vars
               PROVE  EvidenceInv'
    OBVIOUS
  <2>1. ASSUME UNCHANGED <<tracker, history>> PROVE EvidenceInv'
    BY <2>1 DEF EvidenceInv, HighHasEvidence, EpisodeInLog, HighThrough, RaisedAt
  <2>2. CASE Tick
    BY <2>1, <2>2 DEF Tick
  <2>3. CASE Reboot
    BY <2>1, <2>3 DEF Reboot
  <2>4. ASSUME NEW snap \in SnapshotsAt(uptime) \union {None}, Poll(snap)
        PROVE  EvidenceInv'
    BY <2>4, PolledSnapshots, HandleKeepsEvidence DEF Poll, TypeOK
  <2>5. CASE Renotify
    BY <2>5, HandleKeepsEvidence DEF Renotify, TypeOK
  <2>6. CASE UNCHANGED vars
    BY <2>1, <2>6 DEF vars
  <2> QED
    BY <2>2, <2>3, <2>4, <2>5, <2>6 DEF Next
<1>3. EvidenceInv => HighHasEvidence
  BY DEF EvidenceInv
<1> QED
  BY <1>1, <1>2, <1>3, TypeCorrect, TrackerStaysConsistent, PTL DEF Spec
-----------------------------------------------------------------------------
(***************************************************************************)
(* Completeness.  What the code does is more than SustainedIsReported asks: *)
(* two critical observations with neither calm nor loss between them are   *)
(* enough, polled or not, which is OpenIsReported.  It needs what the      *)
(* tracker knows about the episode at the end of the log: it has not       *)
(* started later than any critical observation of it, and is marked as     *)
(* reported only if a report is in the log.                                *)
(***************************************************************************)
OpenIsReported ==
    \A i \in DOMAIN history : \A j \in 1..(i - 1) :
        (/\ history[j].class = "critical"
         /\ history[i].class = "critical"
         /\ history[i].at - history[j].at >= HighDuration
         /\ HighThrough(j, i))
        => \E k \in 1..i : RaisedAt("high_utilization", k) /\ HighThrough(k, i)

EpisodeIsOldest ==
    \A j \in 1..Len(history) :
        history[j].class = "critical" /\ HighThrough(j, Len(history)) =>
            tracker.highStartedAt # None /\ tracker.highStartedAt <= history[j].at

ReportInLog ==
    tracker.highEmitted =>
        \E k \in 1..Len(history) :
            RaisedAt("high_utilization", k) /\ HighThrough(k, Len(history))

ReportInv == OpenIsReported /\ EpisodeIsOldest /\ ReportInLog

LEMMA HandleKeepsReports ==
    ASSUME TypeOK, TrackerConsistent, ReportInv,
           NEW snap \in Snapshots \union {None}, NEW polled \in BOOLEAN,
           Handle(snap, polled)
    PROVE  ReportInv'
<1> DEFINE n == Len(history)
           new == history'[n + 1]
<1>1. /\ n \in Nat
      /\ DOMAIN history = 1..n
      /\ DOMAIN history' = 1..(n + 1)
      /\ Len(history') = n + 1
      /\ \A i \in 1..n : history'[i] = history[i]
      /\ new = [at |-> now, polled |-> polled, class |-> Class(snap),
                raised |-> Events(tracker, snap, now)]
  BY HistoryGrows
<1>2. \A j \in 1..n : history[j].at \in Nat
  <2>1. \A j \in 1..n : history[j] \in Observations
    BY DEF TypeOK, n
  <2> QED
    BY <2>1 DEF Observations
<1> HIDE DEF n, new
<1>3. ASSUME NEW j \in 1..n, \A k \in j..(n + 1) : history'[k].class \in High
      PROVE  \A k \in j..n : history[k].class \in High
  <2>1. \A k \in j..n : k \in 1..n /\ k \in j..(n + 1)
    BY <1>1
  <2> QED
    BY <1>1, <1>3, <2>1
<1>4. ASSUME NEW j \in 1..n, \A k \in j..n : history[k].class \in High,
             new.class \in High
      PROVE  \A k \in j..(n + 1) : history'[k].class \in High
  <2>1. \A k \in j..(n + 1) : k = n + 1 \/ (k \in 1..n /\ k \in j..n)
    BY <1>1
  <2> QED
    BY <1>1, <1>4, <2>1 DEF new
<1>5. ASSUME snap # None
      PROVE  /\ tracker'.highStartedAt = StartedAt(tracker, snap, now)
             /\ tracker'.highEmitted = Emitted(tracker, snap, now)
  BY <1>5 DEF Handle, Update, Seen
<1>6. EpisodeIsOldest'
  <2> SUFFICES ASSUME NEW j \in 1..(n + 1), history'[j].class = "critical",
                      \A k \in j..(n + 1) : history'[k].class \in High
               PROVE  /\ tracker'.highStartedAt # None
                      /\ tracker'.highStartedAt <= history'[j].at
    BY <1>1 DEF EpisodeIsOldest, HighThrough
  <2>1. n + 1 \in j..(n + 1)
    BY <1>1
  <2>2. new.class \in High
    BY <2>1 DEF new
  <2>3. snap # None /\ ~Calm(snap)
    BY <1>1, <2>2, ClassesOf DEF High
  <2>4. CASE j = n + 1
    <3>1. Critical(snap) /\ history'[j].at = now
      BY <1>1, <2>3, <2>4, ClassesOf DEF new
    <3> QED
      BY <1>5, <2>3, <3>1, NoneAssumption
      DEF StartedAt, TrackerConsistent, TypeOK, Trackers
  <2>5. CASE j \in 1..n
    <3>1. history'[j] = history[j]
      BY <1>1, <2>5
    <3>2. tracker.highStartedAt # None /\ tracker.highStartedAt <= history[j].at
      BY <1>3, <2>5, <3>1 DEF ReportInv, EpisodeIsOldest, HighThrough, n
    <3> QED
      BY <1>5, <2>3, <3>1, <3>2 DEF StartedAt
  <2> QED
    BY <1>1, <2>4, <2>5
<1>7. ReportInLog'
  <2> SUFFICES ASSUME tracker'.highEmitted
               PROVE  \E k \in 1..(n + 1) :
                         /\ "high_utilization" \in history'[k].raised
                         /\ \A m \in k..(n + 1) : history'[m].class \in High
    BY <1>1 DEF ReportInLog, HighThrough, RaisedAt
  <2>1. snap # None
    BY DEF Handle, Update, Lost
  <2>2. ~Calm(snap) /\ (tracker.highEmitted \/ Sustained(tracker, snap, now))
    BY <1>5, <2>1 DEF Emitted
  <2>3. new.class \in High
    BY <1>1, <2>1, <2>2, ClassesOf
  <2>4. CASE tracker.highEmitted
    <3>1. PICK k \in 1..n : /\ "high_utilization" \in history[k].raised
                            /\ \A m \in k..n : history[m].class \in High
      BY <2>4 DEF ReportInv, ReportInLog, HighThrough, RaisedAt, n
    <3>2. k \in 1..(n + 1) /\ history'[k] = history[k]
      BY <1>1
    <3> QED
      BY <1>4, <2>3, <3>1, <3>2
  <2>5. CASE ~tracker.highEmitted
    <3>1. "high_utilization" \in new.raised
      BY <1>1, <2>1, <2>2, <2>5, HighEvents
    <3>2. n + 1 \in 1..(n + 1) /\ (n + 1)..(n + 1) = {n + 1}
      BY <1>1
    <3> QED
      BY <2>3, <3>1, <3>2 DEF new
  <2> QED
    BY <2>4, <2>5
<1>8. OpenIsReported'
  <2> SUFFICES ASSUME NEW i \in 1..(n + 1), NEW j \in 1..(i - 1),
                      history'[j].class = "critical",
                      history'[i].class = "critical",
                      history'[i].at - history'[j].at >= HighDuration,
                      \A k \in j..i : history'[k].class \in High
               PROVE  \E k \in 1..i : /\ "high_utilization" \in history'[k].raised
                                      /\ \A m \in k..i : history'[m].class \in High
    BY <1>1 DEF OpenIsReported, HighThrough, RaisedAt
  <2>1. CASE i \in 1..n
    <3>1. \A k \in 1..i : history'[k] = history[k]
      BY <1>1, <2>1
    <3>2. i \in 1..i /\ j \in 1..i /\ \A k \in 1..i : k..i \subseteq 1..i
      BY <2>1
    <3>3. \E k \in 1..i : /\ "high_utilization" \in history[k].raised
                          /\ \A m \in k..i : history[m].class \in High
      BY <1>1, <2>1, <3>1, <3>2
      DEF ReportInv, OpenIsReported, HighThrough, RaisedAt
    <3> QED
      BY <3>1, <3>2, <3>3
  <2>2. CASE i = n + 1
    <3>1. j \in 1..n /\ history'[j] = history[j] /\ history'[i] = new
      BY <1>1, <2>2 DEF new
    <3>2. snap # None /\ Critical(snap) /\ new.at = now
      BY <1>1, <3>1, ClassesOf
    <3>3. tracker.highStartedAt # None /\ tracker.highStartedAt <= history[j].at
      BY <1>3, <2>2, <3>1 DEF ReportInv, EpisodeIsOldest, HighThrough, n
    <3>4. now - tracker.highStartedAt >= HighDuration
      BY <1>2, <3>1, <3>2, <3>3, DurationAssumption, NoneAssumption
      DEF TypeOK, Trackers
    <3>5. Sustained(tracker, snap, now)
      BY <3>2, <3>3, <3>4 DEF Sustained
    <3>6. tracker'.highEmitted
      BY <1>5, <3>2, <3>5, CriticalIsNotCalm DEF Emitted
    <3> QED
      BY <1>1, <1>7, <2>2, <3>6 DEF ReportInLog, HighThrough, RaisedAt
  <2> QED
    BY <1>1, <2>1, <2>2
<1> QED
  BY <1>6, <1>7, <1>8 DEF ReportInv

(* No sustained episode goes unreported (incident.py:130-151), however the *)
(* observations are spaced.                                                *)
THEOREM SustainedAlwaysReported == Spec => []SustainedIsReported
<1>1. Init => ReportInv
  BY DEF Init, NewTracker, ReportInv, OpenIsReported, EpisodeIsOldest, ReportInLog
<1>2. TypeOK /\ TrackerConsistent /\ ReportInv /\ [Next]_vars => ReportInv'
  <2> SUFFICES ASSUME TypeOK, TrackerConsistent, ReportInv, [Next]_vars
               PROVE  ReportInv'
    OBVIOUS
  <2>1. ASSUME UNCHANGED <<tracker, history>> PROVE ReportInv'
    BY <2>1
    DEF ReportInv, OpenIsReported, EpisodeIsOldest, ReportInLog,
        HighThrough, RaisedAt
  <2>2. CASE Tick
    BY <2>1, <2>2 DEF Tick
  <2>3. CASE Reboot
    BY <2>1, <2>3 DEF Reboot
  <2>4. ASSUME NEW snap \in SnapshotsAt(uptime) \union {None}, Poll(snap)
        PROVE  ReportInv'
    BY <2>4, PolledSnapshots, HandleKeepsReports DEF Poll, TypeOK
  <2>5. CASE Renotify
    BY <2>5, HandleKeepsReports DEF Renotify, TypeOK
  <2>6. CASE UNCHANGED vars
    BY <2>1, <2>6 DEF vars
  <2> QED
    BY <2>2, <2>3, <2>4, <2>5, <2>6 DEF Next
<1>3. TypeOK /\ ReportInv => SustainedIsReported
  <2> SUFFICES ASSUME TypeOK, ReportInv,
                      NEW i \in DOMAIN history, NEW j \in 1..(i - 1),
                      CriticalThrough(j, i),
                      history[i].at - history[j].at >= HighDuration
               PROVE  \E k \in 1..i : RaisedAt("high_utilization", k) /\ HighThrough(k, i)
    BY DEF SustainedIsReported
  <2>1. i \in Nat
    BY DEF TypeOK
  <2>2. i \in j..i /\ j \in j..i
    BY <2>1
  <2>3. /\ history[j].class = "critical"
        /\ history[i].class = "critical"
        /\ HighThrough(j, i)
    BY <2>2 DEF CriticalThrough, HighThrough, High
  <2> QED
    BY <2>3 DEF ReportInv, OpenIsReported
<1> QED
  BY <1>1, <1>2, <1>3, TypeCorrect, TrackerStaysConsistent, PTL DEF Spec
-----------------------------------------------------------------------------
(***************************************************************************)
(* Reboots.  The tracker remembers the uptime of the current snapshot, and *)
(* unless the router rebooted since, its real uptime has only grown.       *)
(***************************************************************************)
UptimeInv ==
    /\ tracker.previousUptime # None =>
          current # None /\ current.uptime = tracker.previousUptime
    /\ ~rebooted /\ current # None =>
          (current.uptime # None => current.uptime <= uptime)

LEMMA PollKeepsUptime ==
    ASSUME TypeOK, NEW snap \in SnapshotsAt(uptime) \union {None}, Poll(snap)
    PROVE  UptimeInv'
<1>1. current' = snap /\ uptime' = uptime /\ tracker' = Update(tracker, snap, now)
  BY DEF Poll, Handle
<1>2. snap # None => snap.uptime \in {uptime, None}
  BY DEF SnapshotsAt
<1> QED
  BY <1>1, <1>2 DEF UptimeInv, Update, Lost, Seen, TypeOK

LEMMA RenotifyKeepsUptime ==
    ASSUME TypeOK, UptimeInv, Renotify
    PROVE  UptimeInv'
<1>1. /\ current' = current /\ uptime' = uptime /\ rebooted' = rebooted
      /\ tracker' = Update(tracker, current, now)
  BY DEF Renotify, Handle
<1> QED
  BY <1>1 DEF UptimeInv, Update, Lost, Seen

(* router_reboot is raised only for a reboot between two polls, and never  *)
(* when a snapshot is replayed (incident.py:116-128, event.py:64-68).      *)
THEOREM RebootAlwaysReal == Spec => RebootIsReal
<1>1. Init => UptimeInv
  <2> SUFFICES ASSUME Init PROVE UptimeInv
    OBVIOUS
  <2>1. current # None => current.uptime \in {uptime, None}
    BY DEF Init, SnapshotsAt
  <2>2. uptime \in Nat
    BY SamplesAssumption DEF Init
  <2> QED
    BY <2>1, <2>2 DEF Init, NewTracker, UptimeInv
<1>2. TypeOK /\ UptimeInv /\ [Next]_vars => UptimeInv'
  <2> SUFFICES ASSUME TypeOK, UptimeInv, [Next]_vars PROVE UptimeInv'
    OBVIOUS
  <2>1. CASE Tick
    BY <2>1 DEF Tick, UptimeInv, TypeOK, Snapshots
  <2>2. CASE Reboot
    BY <2>2 DEF Reboot, UptimeInv
  <2>3. ASSUME NEW snap \in SnapshotsAt(uptime) \union {None}, Poll(snap)
        PROVE  UptimeInv'
    BY <2>3, PollKeepsUptime
  <2>4. CASE Renotify
    BY <2>4, RenotifyKeepsUptime
  <2>5. CASE UNCHANGED vars
    BY <2>5 DEF vars, UptimeInv
  <2> QED
    BY <2>1, <2>2, <2>3, <2>4, <2>5 DEF Next
<1>3. TypeOK /\ UptimeInv /\ [Next]_vars =>
        [history' # history /\ "router_reboot" \in history'[Len(history')].raised
         => rebooted /\ ~rebooted']_vars
  <2> SUFFICES ASSUME TypeOK, UptimeInv, Next, history' # history,
                      "router_reboot" \in history'[Len(history')].raised
               PROVE  rebooted /\ ~rebooted'
    BY DEF vars
  <2>1. ASSUME NEW snap \in Snapshots \union {None}, NEW polled \in BOOLEAN,
               Handle(snap, polled)
        PROVE  snap # None /\ UptimeReset(tracker, snap)
    <3>1. LatestRaised' = Events(tracker, snap, now) /\ history' # <<>>
      BY <2>1, HandleRaises
    <3>2. "router_reboot" \in Events(tracker, snap, now)
      BY <3>1 DEF LatestRaised
    <3> QED
      BY <3>2 DEF Events, LostEvents, SeenEvents, EventTypes
  <2>2. ASSUME NEW snap \in SnapshotsAt(uptime) \union {None}, Poll(snap)
        PROVE  rebooted /\ ~rebooted'
    <3>1. snap # None /\ UptimeReset(tracker, snap)
      BY <2>1, <2>2, PolledSnapshots DEF Poll, TypeOK
    <3>2. snap.uptime = uptime
      BY <3>1 DEF SnapshotsAt, UptimeReset
    <3>3. /\ tracker.previousUptime \in Nat
          /\ uptime + UptimeTolerance < tracker.previousUptime
          /\ current # None /\ current.uptime = tracker.previousUptime
      BY <3>1, <3>2 DEF UptimeReset, UptimeInv, TypeOK, Trackers
    <3>4. rebooted
      BY <3>3, NoneAssumption, DurationAssumption DEF UptimeInv, TypeOK
    <3> QED
      BY <2>2, <3>4 DEF Poll
  <2>3. CASE Renotify
    <3>1. current # None /\ UptimeReset(tracker, current)
      BY <2>1, <2>3 DEF Renotify, TypeOK
    <3>2. /\ tracker.previousUptime \in Nat
          /\ tracker.previousUptime + UptimeTolerance < tracker.previousUptime
      BY <3>1 DEF UptimeReset, UptimeInv, TypeOK, Trackers
    <3> QED
      BY <3>2, DurationAssumption
  <2>4. CASE Tick \/ Reboot
    BY <2>4 DEF Tick, Reboot
  <2> QED
    BY <2>2, <2>3, <2>4 DEF Next
<1> QED
  BY <1>1, <1>2, <1>3, TypeCorrect, PTL DEF Spec, RebootIsReal
=============================================================================
