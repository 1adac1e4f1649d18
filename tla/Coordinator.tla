----------------------------- MODULE Coordinator -----------------------------
(***************************************************************************)
(* The update coordinator (coordinator.py) with everything that calls it   *)
(* or listens to it: the refresh timer of Home Assistant, the router       *)
(* behind the API, the probe webhook (__init__.py) and the incident        *)
(* entities (event.py) with their trackers.                                *)
(*                                                                         *)
(* _async_update_data awaits the router twice, for the discovery and for   *)
(* the collection, so a poll is three steps and everything else may happen *)
(* between them.  Home Assistant runs at most one refresh at a time.       *)
(*                                                                         *)
(* The model has no clock: a stored time is an age, and Tick, the passing  *)
(* of one unit, makes all of them older.  An age stops growing where no    *)
(* comparison of the code can tell it from a greater one (or at MaxAge, for*)
(* the last-success times, which the code only displays), so the model is  *)
(* finite although it runs forever.                                        *)
(***************************************************************************)
EXTENDS IncidentRules

CONSTANTS Radios,            \* the radios the controller may ever report
          Samples,           \* the snapshots a radio may answer with
          ProbeIds, Reports, \* Wi-Fi probes, and what they may report
          Interval,          \* scan_interval of the config entry
          DiscoveryInterval, \* DISCOVERY_INTERVAL
          ReportGap,         \* probes report at most once in this time
          MaxAge             \* bound on the ages of last successes

\* What a poll may answer: snapshots of some of the radios.
Answers == UNION {[S -> Samples] : S \in SUBSET Radios}

\* NetworkSnapshot, and its failures as the set of the radios that failed.
Data == [nodes    : Answers,
         failures : SUBSET Radios,
         probes   : [ProbeIds -> Reports \union {None}]]

ASSUME CoordinatorAssumption ==
    /\ Samples \subseteq [busy : 0..100, uptime : Nat \union {None}]
    /\ None \notin Reports \union Data
    /\ {Interval, DiscoveryInterval, MaxAge} \subseteq Nat \ {0}
    /\ ReportGap \in Nat

VARIABLES loaded,      \* the entry is set up: the first refresh succeeded
          phase,       \* the running refresh: "idle", "discovering", "collecting"
          due,         \* time until the refresh timer fires, None without one
          queued,      \* the timer fired while a refresh was running
          nodes,       \* self.nodes
          discovered,  \* age of self._last_discovery, or None
          data,        \* self.data, or None
          success,     \* self.last_update_success
          lastSuccess, \* ages of self.last_node_success, None where absent
          entities,    \* the radios that got entities at setup
          trackers,    \* the trackers of their incident entities
          raised,      \* what each entity published when last notified
          pollAge,     \* age of `now` in the running refresh, otherwise 0
          sinceReport, \* time since the latest probe report
          ghost        \* what really happened, for the properties only:
                       \* probes (every report the webhook accepted), dataAge
                       \* (age of the poll behind data), answered (the radios
                       \* that answered the latest poll, or None if it failed)

entry == <<loaded, nodes, discovered, entities>>
timer == <<due, queued>>
incidents == <<trackers, raised>>
vars == <<entry, timer, incidents, phase, data, success, lastSuccess,
          pollAge, sinceReport, ghost>>

Older(age, bound) == IF age = None THEN None
                     ELSE IF age < bound THEN age + 1 ELSE bound

NoProbes == [i \in ProbeIds |-> None]

(***************************************************************************)
(* A config entry that is being set up: a coordinator that has not polled. *)
(***************************************************************************)
Init == /\ loaded = FALSE
        /\ phase = "idle"
        /\ due = None
        /\ queued = FALSE
        /\ nodes = {}
        /\ discovered = None
        /\ data = None
        /\ success = TRUE
        /\ lastSuccess = [r \in Radios |-> None]
        /\ entities = {}
        /\ trackers = [r \in Radios |-> NewTracker]
        /\ raised = [r \in Radios |-> {}]
        /\ pollAge = 0
        /\ ghost = [probes |-> NoProbes, dataAge |-> 0, answered |-> None]
        /\ sinceReport = ReportGap

\* Setup fails, or the entry is reloaded: the next setup builds a new one.
Discard == /\ loaded' = FALSE
           /\ phase' = "idle"
           /\ due' = None
           /\ queued' = FALSE
           /\ nodes' = {}
           /\ discovered' = None
           /\ data' = None
           /\ success' = TRUE
           /\ lastSuccess' = [r \in Radios |-> None]
           /\ entities' = {}
           /\ trackers' = [r \in Radios |-> NewTracker]
           /\ raised' = [r \in Radios |-> {}]
           /\ pollAge' = 0
           /\ ghost' = [probes |-> NoProbes, dataAge |-> 0, answered |-> None]
           /\ UNCHANGED sinceReport

SnapshotIn(d, r) == IF r \in DOMAIN d.nodes THEN d.nodes[r] ELSE None

\* snapshot_for: the coordinator's snapshot of one radio.
SnapshotFor(r) == IF data = None THEN None ELSE SnapshotIn(data, r)

\* AsusWifiReachabilitySensor: it is available, and on.
Available == success
IsOn(r) == SnapshotFor(r) # None

\* Slip: only entities whose radio answered are told.
NotifyAnswered(d) ==
    /\ trackers' = [r \in Radios |->
          IF r \in entities /\ SnapshotIn(d, r) # None
          THEN Update(trackers[r], SnapshotIn(d, r), 0) ELSE trackers[r]]
    /\ raised' = [r \in Radios |->
          IF r \in entities /\ SnapshotIn(d, r) # None
          THEN Events(trackers[r], SnapshotIn(d, r), 0) ELSE raised[r]]

(***************************************************************************)
(* async_update_listeners: every incident entity shows its tracker its     *)
(* radio's snapshot in d.  The present is time 0.                          *)
(***************************************************************************)
Notify(d) ==
    /\ trackers' = [r \in Radios |->
          IF r \in entities THEN Update(trackers[r], SnapshotIn(d, r), 0)
                            ELSE trackers[r]]
    /\ raised' = [r \in Radios |->
          IF r \in entities THEN Events(trackers[r], SnapshotIn(d, r), 0)
                            ELSE raised[r]]
-----------------------------------------------------------------------------
(* The refresh.                                                            *)

\* Slip: the node set is looked up only once.
NeedsDiscoveryOnce == nodes = {} \/ discovered = None

NeedsDiscovery == \/ nodes = {}
                  \/ discovered = None
                  \/ discovered >= DiscoveryInterval

RefreshDue == phase = "idle" /\ (~loaded \/ due = 0 \/ queued)

\* The timer fires, or setup starts the first refresh; up to the first await.
StartPoll ==
    /\ RefreshDue
    /\ phase' = IF NeedsDiscovery THEN "discovering" ELSE "collecting"
    /\ pollAge' = 0
    /\ due' = None
    /\ queued' = FALSE
    /\ UNCHANGED <<entry, incidents, data, success, lastSuccess, sinceReport, ghost>>

\* api.discover_nodes answered; it may find no supported radio at all.
DiscoverOk(found) ==
    /\ phase = "discovering"
    /\ nodes' = found
    /\ discovered' = pollAge
    /\ phase' = "collecting"
    /\ UNCHANGED <<loaded, entities, timer, incidents, data, success, lastSuccess,
                   pollAge, sinceReport, ghost>>

\* Slip: a failed refresh does not set the timer again, or backs off.
DueAfterFailureNever == None
DueAfterFailureBacksOff == 2 * Interval
\* The timer after a refresh that failed.  (One that succeeded sets it too:
\* the sensor of the Wi-Fi probe always listens, even when no radio is known.)
DueAfterFailure == Interval

\* Slip: a failed refresh drops the data.
DataAfterFailureDropped == [data EXCEPT !.nodes = <<>>]
\* A refresh that fails leaves the data of the latest one that did not.
DataAfterFailure == data

(***************************************************************************)
(* The refresh raises.  During setup Home Assistant discards the           *)
(* coordinator and sets the entry up again.  Later the data stay, and only *)
(* the first failure in a row is announced to the listeners.               *)
(***************************************************************************)
FailRefresh ==
    \/ ~loaded /\ Discard
    \/ /\ loaded
       /\ phase' = "idle"
       /\ due' = DueAfterFailure
       /\ data' = DataAfterFailure
       /\ success' = FALSE
       /\ IF success THEN Notify(data') ELSE UNCHANGED incidents
       /\ pollAge' = 0
       /\ ghost' = [ghost EXCEPT !.answered = None]
       /\ UNCHANGED <<entry, queued, lastSuccess, sinceReport>>

\* discover_nodes raised an error of the integration: known nodes are kept.
DiscoverFail ==
    /\ phase = "discovering"
    /\ nodes # {}
    /\ discovered' = pollAge
    /\ phase' = "collecting"
    /\ UNCHANGED <<loaded, nodes, entities, timer, incidents, data, success,
                   lastSuccess, pollAge, sinceReport, ghost>>

\* It raised and no node is known, or some other exception escaped the API
\* (an address that does not parse, an OSError of a running command).
PollFails ==
    /\ phase \in {"discovering", "collecting"}
    /\ FailRefresh

\* Slip: a poll starts from scratch.
MergedProbesNone == NoProbes
\* The probes kept by a poll: read from self.data after the last await.
MergedProbes == IF data = None THEN NoProbes ELSE data.probes

\* Slip: every polled radio counts as successful.
LastSuccessOfAll(answers) ==
    [r \in Radios |-> IF r \in nodes THEN pollAge ELSE lastSuccess[r]]
\* last_node_success after a poll that these radios answered.
LastSuccessOf(answers) ==
    [r \in Radios |-> IF r \in DOMAIN answers THEN pollAge ELSE lastSuccess[r]]

\* async_setup_entry of the platforms: an entity for every radio known now.
SetupEntities == nodes

(***************************************************************************)
(* api.collect answered for some of the known radios.  The first refresh   *)
(* ends the setup: entities are created for the radios known now, and      *)
(* their trackers have not been shown anything yet.                        *)
(***************************************************************************)
CollectDone(answers) ==
    /\ phase = "collecting"
    /\ DOMAIN answers \subseteq nodes
    /\ phase' = "idle"
    /\ due' = Interval
    /\ data' = [nodes    |-> answers,
                failures |-> nodes \ DOMAIN answers,
                probes   |-> MergedProbes]
    /\ success' = TRUE
    /\ lastSuccess' = LastSuccessOf(answers)
    /\ ghost' = [ghost EXCEPT !.dataAge = pollAge, !.answered = DOMAIN answers]
    /\ loaded' = TRUE
    /\ IF loaded
       THEN Notify(data') /\ UNCHANGED entities
       ELSE entities' = SetupEntities /\ UNCHANGED incidents
    /\ pollAge' = 0
    /\ UNCHANGED <<nodes, discovered, queued, sinceReport>>
-----------------------------------------------------------------------------
(* Everybody else.                                                         *)

\* async_update_probe: stores the report, restarts the timer and notifies.
UpdateProbe(id, report) ==
    /\ data # None
    /\ data' = [data EXCEPT !.probes[id] = report]
    /\ success' = TRUE
    /\ due' = Interval
    /\ Notify(data')

\* The webhook accepts a report, also while a poll is running.  It exists only
\* while the entry is loaded.
Report(id, report) ==
    /\ loaded
    /\ sinceReport >= ReportGap
    /\ UpdateProbe(id, report)
    /\ sinceReport' = 0
    /\ ghost' = [ghost EXCEPT !.probes[id] = report]
    /\ UNCHANGED <<entry, phase, queued, lastSuccess, pollAge>>

\* The options flow or the user reloads the entry; a running poll is dropped.
Reload == loaded /\ Discard

\* The timer fires on time, unless a refresh is running: then it waits.
Tick ==
    /\ ~RefreshDue
    /\ IF due = 1 /\ phase # "idle"
       THEN due' = None /\ queued' = TRUE
       ELSE due' = (IF due = None THEN None ELSE due - 1) /\ UNCHANGED queued
    /\ discovered' = Older(discovered, DiscoveryInterval)
    /\ lastSuccess' = [r \in Radios |-> Older(lastSuccess[r], MaxAge)]
    /\ trackers' = [r \in Radios |->
          IF trackers[r].highStartedAt \notin {None, -HighDuration}
          THEN [trackers[r] EXCEPT !.highStartedAt = @ - 1]
          ELSE trackers[r]]
    /\ pollAge' = IF phase = "idle" THEN 0 ELSE Older(pollAge, MaxAge)
    /\ sinceReport' = Older(sinceReport, ReportGap)
    /\ ghost' = [ghost EXCEPT !.dataAge = Older(@, MaxAge)]
    /\ UNCHANGED <<loaded, nodes, entities, phase, data, success, raised>>

Next == \/ StartPoll
        \/ \E found \in SUBSET Radios : DiscoverOk(found)
        \/ DiscoverFail
        \/ PollFails
        \/ \E answers \in Answers : CollectDone(answers)
        \/ \E id \in ProbeIds, report \in Reports : Report(id, report)
        \/ Reload
        \/ Tick

Spec == Init /\ [][Next]_vars

\* Every command has a timeout, so the two awaits of a poll end; the timer
\* and the passing of time are Home Assistant's and the world's.
Fairness == /\ WF_vars(StartPoll)
            /\ WF_vars(\/ \E found \in SUBSET Radios : DiscoverOk(found)
                       \/ DiscoverFail
                       \/ phase = "discovering" /\ PollFails)
            /\ WF_vars(\/ \E answers \in Answers : CollectDone(answers)
                       \/ phase = "collecting" /\ PollFails)
            /\ WF_vars(Tick)

FairSpec == Spec /\ Fairness
-----------------------------------------------------------------------------
(* Type invariant: the fields of the coordinator and of the trackers.      *)
Ages(bound) == 0..bound \union {None}

Trackers == [wasReachable   : {"unknown", "up", "down"},
             previousUptime : Nat \union {None},
             highStartedAt  : (-HighDuration)..0 \union {None},
             highEmitted    : BOOLEAN]

TypeOK == /\ loaded \in BOOLEAN
          /\ phase \in {"idle", "discovering", "collecting"}
          /\ due \in Ages(Interval)
          /\ queued \in BOOLEAN
          /\ nodes \subseteq Radios
          /\ discovered \in Ages(IF MaxAge > DiscoveryInterval THEN MaxAge
                                                              ELSE DiscoveryInterval)
          /\ data \in Data \union {None}
          /\ success \in BOOLEAN
          /\ lastSuccess \in [Radios -> Ages(MaxAge)]
          /\ entities \subseteq Radios
          /\ trackers \in [Radios -> Trackers]
          /\ raised \in [Radios -> SUBSET EventTypes]
          /\ pollAge \in 0..MaxAge
          /\ sinceReport \in 0..ReportGap
          /\ ghost \in [probes   : [ProbeIds -> Reports \union {None}],
                       dataAge  : 0..MaxAge,
                       answered : (SUBSET Radios) \union {None}]

(* No accepted probe report is lost: the coordinator always holds, of      *)
(* every probe, the latest report that the webhook accepted, also when it  *)
(* arrives while a poll is in flight or between failed polls               *)
(* (coordinator.py:66-71, 124-129).                                        *)
ProbesKept == loaded => data # None /\ data.probes = ghost.probes

(* The last successful poll a reachability sensor displays is the poll its *)
(* state comes from when it is on, and an earlier one (or none) when it is *)
(* off because the radio failed: last_node_success and data are written    *)
(* apart from each other, and replaced at different times                  *)
(* (coordinator.py:67-71, binary_sensor.py:89-106).                        *)
LastSuccessMatches ==
    data # None =>
        /\ \A r \in DOMAIN data.nodes : lastSuccess[r] = ghost.dataAge
        /\ \A r \in data.failures :
              \/ lastSuccess[r] = None
              \/ lastSuccess[r] > ghost.dataAge
              \/ ghost.dataAge = MaxAge

(* Every incident entity that was notified at all has been shown exactly   *)
(* what the coordinator holds now; data never changes behind the back of a *)
(* tracker, whoever changes them (event.py:64-68, coordinator.py:124-129). *)
TrackersFollowData ==
    \A r \in entities :
        LET snap == SnapshotFor(r)
        IN  CASE trackers[r].wasReachable = "up" ->
                     snap # None /\ trackers[r].previousUptime = snap.uptime
              [] trackers[r].wasReachable = "down" -> snap = None
              [] OTHER -> raised[r] = {}

(* Notifications that bring no new poll never make an entity report a loss,*)
(* a recovery or a reboot: replayed data can only complete the minute of a *)
(* high utilisation (event.py:64-68, incident.py:93-153).                  *)
ReplayOnlyRaisesHigh ==
    [][\/ \E id \in ProbeIds, report \in Reports : Report(id, report)
       \/ PollFails /\ success
       => \A r \in entities : raised'[r] \subseteq {"high_utilization"}]_vars

(* The events of every incident entity come in the order that              *)
(* IncidentPromise allows, over polls, failures, replays and reloads.      *)
PromiseOf(r) == INSTANCE IncidentPromise
                    WITH reach   <- trackers[r].wasReachable,
                         episode <- trackers[r].highEmitted,
                         raised  <- raised[r]

EntitiesKeepPromise ==
    /\ \A r \in Radios : PromiseOf(r)!Init
    /\ [][\A r \in Radios : \/ PromiseOf(r)!Next
                            \/ PromiseOf(r)!Restart
                            \/ UNCHANGED PromiseOf(r)!vars]_vars

(* Polling never stops: neither failing polls nor probe reports that       *)
(* restart the timer, nor a timer that fires during a poll, keep the next  *)
(* poll from starting (coordinator.py:46, 124-129).                        *)
PollsRecur == []<>(phase # "idle") /\ []<>(phase = "idle")

(* The node set is looked up again and again, so that a changed mesh is    *)
(* noticed: a failed discovery postpones the next one but does not prevent *)
(* it (coordinator.py:50-65).                                              *)
DiscoveryRecurs == []<>(phase = "discovering")

(* binary_sensor.py:81 : "Record whether an AiMesh node answered the latest*)
(* bounded poll."  A sensor that is available and on stands for a radio    *)
(* that answered the latest poll.                                          *)
OnMeansAnsweredLatest ==
    loaded /\ Available =>
        \A r \in entities : IsOn(r) =>
            ghost.answered # None /\ r \in ghost.answered
=============================================================================
