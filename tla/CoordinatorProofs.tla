-------------------------- MODULE CoordinatorProofs --------------------------
(***************************************************************************)
(* Theorems about Coordinator, for any set of radios, probes, reports and  *)
(* snapshots, and any intervals.                                           *)
(***************************************************************************)
EXTENDS Coordinator, TLAPS

\* A timer that has run out waits for the end of setup or of the refresh.
DueInv == due = 0 => phase = "idle"

\* Before setup is complete there is nothing to lose; after it, there are data.
Holding == IF loaded THEN data # None /\ data.probes = ghost.probes
                     ELSE data = None /\ ghost.probes = NoProbes

CoordInv == TypeOK /\ DueInv /\ Holding
-----------------------------------------------------------------------------
(* Lemmas about the operators.                                             *)

(* One observation keeps the type of a tracker and raises only event types *)
(* (incident.py:93-153); the present is time 0.                            *)
LEMMA UpdateTyped ==
  ASSUME NEW t \in Trackers, NEW snap \in Samples \union {None}
  PROVE  /\ Update(t, snap, 0) \in Trackers
         /\ Events(t, snap, 0) \in SUBSET EventTypes
<1>0. HighDuration \in Nat
  BY DurationAssumption
<1>1. CASE snap = None
  BY <1>1 DEF Update, Events, Lost, LostEvents, Trackers, EventTypes
<1>2. CASE snap # None
  <2>1. snap \in [busy : 0..100, uptime : Nat \union {None}]
    BY <1>2, CoordinatorAssumption
  <2>2. StartedAt(t, snap, 0) \in (-HighDuration)..0 \union {None}
    BY <1>0 DEF StartedAt, Trackers
  <2>3. Emitted(t, snap, 0) \in BOOLEAN
    BY DEF Emitted
  <2>4. Seen(t, snap, 0) \in Trackers
    BY <2>1, <2>2, <2>3 DEF Seen, Trackers
  <2>5. SeenEvents(t, snap, 0) \subseteq EventTypes
    BY DEF SeenEvents
  <2>6. QED
    BY <1>2, <2>4, <2>5 DEF Update, Events
<1>3. QED
  BY <1>1, <1>2

LEMMA SnapshotTyped ==
  ASSUME NEW d \in Data, NEW r \in Radios
  PROVE  SnapshotIn(d, r) \in Samples \union {None}
  BY DEF SnapshotIn, Data, Answers

(* A notification keeps the incident entities typed (event.py:64-68). *)
LEMMA NotifyTyped ==
  ASSUME TypeOK, NEW d \in Data, Notify(d)
  PROVE  /\ trackers' \in [Radios -> Trackers]
         /\ raised' \in [Radios -> SUBSET EventTypes]
<1>1. ASSUME NEW r \in Radios
      PROVE  /\ Update(trackers[r], SnapshotIn(d, r), 0) \in Trackers
             /\ Events(trackers[r], SnapshotIn(d, r), 0) \in SUBSET EventTypes
  BY SnapshotTyped, UpdateTyped DEF TypeOK
<1>2. QED
  BY <1>1 DEF Notify, TypeOK

LEMMA NewTrackerTyped == NewTracker \in Trackers
  BY DEF NewTracker, Trackers

(* Ageing stays within its bound. *)
LEMMA OlderTyped ==
  ASSUME NEW bound \in Nat, NEW age \in Nat \union {None}
  PROVE  /\ Older(age, bound) \in 0..bound \union {None}
         /\ age # None => Older(age, bound) \in 0..bound
  BY NoneAssumption DEF Older
-----------------------------------------------------------------------------
LEMMA ConstantsTyped ==
  /\ Interval \in Nat \ {0} /\ DiscoveryInterval \in Nat \ {0} /\ MaxAge \in Nat \ {0}
  /\ ReportGap \in Nat /\ HighDuration \in Nat
  /\ None \notin Int /\ None \notin Data
  BY CoordinatorAssumption, DurationAssumption, NoneAssumption

LEMMA NoProbesTyped == NoProbes \in [ProbeIds -> Reports \union {None}]
  BY DEF NoProbes

\* The state of a coordinator that has not polled has the right types.
LEMMA FreshTyped ==
  /\ None \in Ages(Interval)
  /\ None \in Ages(IF MaxAge > DiscoveryInterval THEN MaxAge ELSE DiscoveryInterval)
  /\ [r \in Radios |-> None] \in [Radios -> Ages(MaxAge)]
  /\ [r \in Radios |-> NewTracker] \in [Radios -> Trackers]
  /\ [r \in Radios |-> {}] \in [Radios -> SUBSET EventTypes]
  /\ [probes |-> NoProbes, dataAge |-> 0, answered |-> None]
        \in [probes   : [ProbeIds -> Reports \union {None}],
            dataAge  : 0..MaxAge,
            answered : (SUBSET Radios) \union {None}]
<1>1. None \in Ages(Interval)
  BY DEF Ages
<1>2. None \in Ages(IF MaxAge > DiscoveryInterval THEN MaxAge ELSE DiscoveryInterval)
  BY DEF Ages
<1>3. [r \in Radios |-> None] \in [Radios -> Ages(MaxAge)]
  BY DEF Ages
<1>4. [r \in Radios |-> NewTracker] \in [Radios -> Trackers]
  BY NewTrackerTyped
<1>5. [r \in Radios |-> {}] \in [Radios -> SUBSET EventTypes]
  OBVIOUS
<1>6. 0 \in 0..MaxAge
  BY ConstantsTyped
<1>7. QED
  BY <1>1, <1>2, <1>3, <1>4, <1>5, <1>6, NoProbesTyped

LEMMA CoordInit == Init => CoordInv
<1> SUFFICES ASSUME Init PROVE CoordInv
  OBVIOUS
<1>1. 0 \in 0..MaxAge /\ ReportGap \in 0..ReportGap
  BY ConstantsTyped
<1>2. TypeOK
  BY <1>1, FreshTyped DEF Init, TypeOK
<1>3. DueInv /\ Holding
  BY ConstantsTyped DEF Init, DueInv, Holding
<1>4. QED
  BY <1>2, <1>3 DEF CoordInv

LEMMA DiscardKeeps == TypeOK /\ Discard => CoordInv'
<1> SUFFICES ASSUME TypeOK, Discard PROVE CoordInv'
  OBVIOUS
<1>1. TypeOK'
  BY ConstantsTyped, FreshTyped DEF Discard, TypeOK
<1>2. DueInv' /\ Holding'
  BY ConstantsTyped DEF Discard, DueInv, Holding
<1>3. QED
  BY <1>1, <1>2 DEF CoordInv

LEMMA StartPollKeeps == CoordInv /\ StartPoll => CoordInv'
<1> SUFFICES ASSUME CoordInv, StartPoll PROVE CoordInv'
  OBVIOUS
<1>1. phase' \in {"discovering", "collecting"} /\ due' = None /\ queued' = FALSE
  BY DEF StartPoll
<1>2. TypeOK'
  BY <1>1, ConstantsTyped, FreshTyped
     DEF StartPoll, CoordInv, TypeOK, entry, incidents
<1>3. DueInv' /\ Holding'
  BY <1>1, ConstantsTyped DEF StartPoll, CoordInv, DueInv, Holding, entry
<1>4. QED
  BY <1>2, <1>3 DEF CoordInv

LEMMA DiscoveryKeeps ==
  ASSUME CoordInv, \/ \E found \in SUBSET Radios : DiscoverOk(found)
                   \/ DiscoverFail
  PROVE  CoordInv'
<1>1. /\ nodes' \subseteq Radios
      /\ discovered' = pollAge
      /\ phase' = "collecting"
      /\ due # 0
      /\ UNCHANGED <<loaded, entities, timer, incidents, data, success, lastSuccess,
                     pollAge, sinceReport, ghost>>
  BY DEF DiscoverOk, DiscoverFail, CoordInv, TypeOK, DueInv
<1>2. TypeOK'
  BY <1>1, ConstantsTyped DEF CoordInv, TypeOK, Ages, timer, incidents
<1>3. DueInv' /\ Holding'
  BY <1>1 DEF CoordInv, DueInv, Holding, timer
<1>4. QED
  BY <1>2, <1>3 DEF CoordInv

LEMMA PollFailsKeeps == CoordInv /\ PollFails => CoordInv'
<1> SUFFICES ASSUME CoordInv, PollFails PROVE CoordInv'
  OBVIOUS
<1>1. CASE ~loaded /\ Discard
  BY <1>1, DiscardKeeps DEF CoordInv
<1>2. CASE loaded /\ ~Discard
  <2>1. /\ phase' = "idle" /\ due' = Interval /\ data' = data /\ success' = FALSE
        /\ IF success THEN Notify(data') ELSE UNCHANGED incidents
        /\ pollAge' = 0
        /\ ghost' = [ghost EXCEPT !.answered = None]
        /\ UNCHANGED <<entry, queued, lastSuccess, sinceReport>>
    BY <1>2 DEF PollFails, FailRefresh, DueAfterFailure, DataAfterFailure
  <2>2. data \in Data
    BY <1>2 DEF CoordInv, Holding, TypeOK
  <2>3. /\ trackers' \in [Radios -> Trackers]
        /\ raised' \in [Radios -> SUBSET EventTypes]
    <3>1. CASE success
      BY <3>1, <2>1, <2>2, NotifyTyped DEF CoordInv
    <3>2. CASE ~success
      BY <3>2, <2>1 DEF CoordInv, TypeOK, incidents
    <3>3. QED
      BY <3>1, <3>2
  <2>4. ghost' \in [probes   : [ProbeIds -> Reports \union {None}],
                    dataAge  : 0..MaxAge,
                    answered : (SUBSET Radios) \union {None}]
        /\ ghost'.probes = ghost.probes
    BY <2>1 DEF CoordInv, TypeOK
  <2>5. TypeOK'
    <3>1. Interval \in Ages(Interval) /\ 0 \in 0..MaxAge
      BY ConstantsTyped DEF Ages
    <3>2. QED
      BY <3>1, <2>1, <2>2, <2>3, <2>4 DEF CoordInv, TypeOK, entry
  <2>6. DueInv' /\ Holding'
    BY <2>1, <2>4 DEF CoordInv, DueInv, Holding, entry
  <2>7. QED
    BY <2>5, <2>6 DEF CoordInv
<1>3. CASE loaded /\ Discard
  BY <1>3, DiscardKeeps DEF CoordInv
<1>4. QED
  BY <1>1, <1>2, <1>3 DEF PollFails, FailRefresh

(* A poll that succeeds keeps the probes held when it ends. *)
LEMMA CollectDoneKeeps ==
  ASSUME CoordInv, NEW answers \in Answers, CollectDone(answers)
  PROVE  CoordInv'
<1>1. /\ DOMAIN answers \subseteq nodes /\ nodes \subseteq Radios
      /\ phase' = "idle" /\ due' = Interval /\ success' = TRUE /\ loaded' = TRUE
      /\ data' = [nodes |-> answers, failures |-> nodes \ DOMAIN answers,
                  probes |-> MergedProbes]
      /\ pollAge' = 0
      /\ UNCHANGED <<nodes, discovered, queued, sinceReport>>
  BY DEF CollectDone, CoordInv, TypeOK
<1>2. MergedProbes \in [ProbeIds -> Reports \union {None}]
  BY NoProbesTyped DEF MergedProbes, CoordInv, TypeOK, Data
<1>3. MergedProbes = ghost.probes
  BY ConstantsTyped DEF MergedProbes, CoordInv, Holding
<1>4. data' \in Data
  BY <1>1, <1>2 DEF Data
<1>5. lastSuccess' \in [Radios -> Ages(MaxAge)]
  BY DEF CollectDone, LastSuccessOf, CoordInv, TypeOK, Ages
<1>6. ghost' \in [probes   : [ProbeIds -> Reports \union {None}],
                  dataAge  : 0..MaxAge,
                  answered : (SUBSET Radios) \union {None}]
      /\ ghost'.probes = ghost.probes
  BY <1>1 DEF CollectDone, CoordInv, TypeOK
<1>7. /\ trackers' \in [Radios -> Trackers]
      /\ raised' \in [Radios -> SUBSET EventTypes]
      /\ entities' \subseteq Radios
  <2>1. CASE loaded
    BY <2>1, <1>4, NotifyTyped DEF CollectDone, CoordInv, TypeOK
  <2>2. CASE ~loaded
    BY <2>2 DEF CollectDone, SetupEntities, incidents, CoordInv, TypeOK
  <2>3. QED
    BY <2>1, <2>2
<1>8. TypeOK'
  BY <1>1, <1>4, <1>5, <1>6, <1>7, ConstantsTyped DEF CoordInv, TypeOK, Ages
<1>9. DueInv' /\ Holding'
  <2>1. data' # None /\ data'.probes = MergedProbes
    BY <1>1, <1>4, ConstantsTyped
  <2>2. QED
    BY <2>1, <1>1, <1>3, <1>6 DEF DueInv, Holding
<1>10. QED
  BY <1>8, <1>9 DEF CoordInv

(* An accepted report replaces the held one of its probe, and no other. *)
LEMMA ReportKeeps ==
  ASSUME CoordInv, NEW id \in ProbeIds, NEW report \in Reports, Report(id, report)
  PROVE  CoordInv'
<1>1. data \in Data
  BY DEF Report, UpdateProbe, CoordInv, TypeOK
<1>2. /\ data' = [data EXCEPT !.probes = [data.probes EXCEPT ![id] = report]]
      /\ ghost' = [ghost EXCEPT !.probes = [ghost.probes EXCEPT ![id] = report]]
  BY DEF Report, UpdateProbe
<1>3. data' \in Data /\ data'.probes = [data.probes EXCEPT ![id] = report]
  BY <1>1, <1>2 DEF Data
<1>4. ghost' \in [probes   : [ProbeIds -> Reports \union {None}],
                  dataAge  : 0..MaxAge,
                  answered : (SUBSET Radios) \union {None}]
      /\ ghost'.probes = [ghost.probes EXCEPT ![id] = report]
  BY <1>2 DEF CoordInv, TypeOK
<1>5. /\ trackers' \in [Radios -> Trackers]
      /\ raised' \in [Radios -> SUBSET EventTypes]
  BY <1>3, NotifyTyped DEF Report, UpdateProbe, CoordInv
<1>6. TypeOK'
  BY <1>3, <1>4, <1>5, ConstantsTyped DEF Report, UpdateProbe, CoordInv, TypeOK, Ages, entry
<1>7. DueInv'
  BY ConstantsTyped DEF Report, UpdateProbe, DueInv
<1>8. Holding'
  BY <1>3, <1>4, ConstantsTyped DEF Report, UpdateProbe, CoordInv, Holding, entry
<1>9. QED
  BY <1>6, <1>7, <1>8 DEF CoordInv

(* Time never runs past a timer that has run out. *)
LEMMA TickKeeps == CoordInv /\ Tick => CoordInv'
<1> SUFFICES ASSUME CoordInv, Tick PROVE CoordInv'
  OBVIOUS
<1>1. due # 0
  BY DEF Tick, RefreshDue, CoordInv, DueInv
<1>2. /\ due' \in Ages(Interval) /\ queued' \in BOOLEAN
      /\ DueInv'
  <2>1. CASE due = None
    BY <2>1, ConstantsTyped DEF Tick, CoordInv, TypeOK, Ages, DueInv
  <2>2. CASE due # None
    <3>1. due \in 1..Interval
      BY <2>2, <1>1, ConstantsTyped DEF CoordInv, TypeOK, Ages
    <3>2. CASE due = 1 /\ phase # "idle"
      BY <3>2, ConstantsTyped DEF Tick, CoordInv, TypeOK, Ages, DueInv
    <3>3. CASE ~(due = 1 /\ phase # "idle")
      <4>1. due' = due - 1 /\ queued' = queued /\ phase' = phase
        BY <2>2, <3>3 DEF Tick
      <4>2. QED
        BY <4>1, <3>1, <3>3, ConstantsTyped DEF CoordInv, TypeOK, Ages, DueInv
    <3>4. QED
      BY <3>2, <3>3
  <2>3. QED
    BY <2>1, <2>2
<1>3. discovered' \in Ages(IF MaxAge > DiscoveryInterval THEN MaxAge
                                                         ELSE DiscoveryInterval)
  BY ConstantsTyped, OlderTyped DEF Tick, CoordInv, TypeOK, Ages
<1>4. lastSuccess' \in [Radios -> Ages(MaxAge)]
  BY ConstantsTyped, OlderTyped DEF Tick, CoordInv, TypeOK, Ages
<1>5. trackers' \in [Radios -> Trackers]
  <2>1. ASSUME NEW r \in Radios, trackers[r].highStartedAt \notin {None, -HighDuration}
        PROVE  [trackers[r] EXCEPT !.highStartedAt = trackers[r].highStartedAt - 1] \in Trackers
    <3>1. trackers[r] \in Trackers
      BY <2>1 DEF CoordInv, TypeOK
    <3>2. trackers[r].highStartedAt - 1 \in (-HighDuration)..0
      BY <2>1, <3>1, ConstantsTyped DEF Trackers
    <3>3. QED
      BY <3>1, <3>2 DEF Trackers
  <2>2. trackers' = [r \in Radios |->
          IF trackers[r].highStartedAt \notin {None, -HighDuration}
          THEN [trackers[r] EXCEPT !.highStartedAt = trackers[r].highStartedAt - 1]
          ELSE trackers[r]]
    BY DEF Tick
  <2>3. ASSUME NEW r \in Radios PROVE trackers[r] \in Trackers
    BY DEF CoordInv, TypeOK
  <2>4. QED
    BY <2>1, <2>2, <2>3
<1>6. pollAge' \in 0..MaxAge /\ sinceReport' \in 0..ReportGap
  BY ConstantsTyped, OlderTyped DEF Tick, CoordInv, TypeOK
<1>7. ghost' \in [probes   : [ProbeIds -> Reports \union {None}],
                  dataAge  : 0..MaxAge,
                  answered : (SUBSET Radios) \union {None}]
      /\ ghost'.probes = ghost.probes
  <2>1. ghost' = [ghost EXCEPT !.dataAge = Older(ghost.dataAge, MaxAge)]
    BY DEF Tick
  <2>2. Older(ghost.dataAge, MaxAge) \in 0..MaxAge
    BY ConstantsTyped, OlderTyped DEF CoordInv, TypeOK
  <2>3. QED
    BY <2>1, <2>2 DEF CoordInv, TypeOK
<1>8. TypeOK'
  BY <1>2, <1>3, <1>4, <1>5, <1>6, <1>7 DEF Tick, CoordInv, TypeOK
<1>9. Holding'
  BY <1>7 DEF Tick, CoordInv, Holding
<1>10. QED
  BY <1>2, <1>8, <1>9 DEF CoordInv
-----------------------------------------------------------------------------
LEMMA CoordNext == CoordInv /\ [Next]_vars => CoordInv'
<1> SUFFICES ASSUME CoordInv, [Next]_vars PROVE CoordInv'
  OBVIOUS
<1>1. CASE StartPoll
  BY <1>1, StartPollKeeps
<1>2. CASE (\E found \in SUBSET Radios : DiscoverOk(found)) \/ DiscoverFail
  BY <1>2, DiscoveryKeeps
<1>3. CASE PollFails
  BY <1>3, PollFailsKeeps
<1>4. CASE \E answers \in Answers : CollectDone(answers)
  BY <1>4, CollectDoneKeeps
<1>5. CASE \E id \in ProbeIds, report \in Reports : Report(id, report)
  BY <1>5, ReportKeeps
<1>6. CASE Reload
  BY <1>6, DiscardKeeps DEF Reload, CoordInv
<1>7. CASE Tick
  BY <1>7, TickKeeps
<1>8. CASE UNCHANGED vars
  BY <1>8 DEF vars, entry, timer, incidents, CoordInv, TypeOK, DueInv, Holding
<1>9. QED
  BY <1>1, <1>2, <1>3, <1>4, <1>5, <1>6, <1>7, <1>8 DEF Next

(* The fields of the coordinator and of every tracker keep their types      *)
(* over polls, failures, reports, reloads and the passing of time.          *)
THEOREM CoordinatorTyped == Spec => []TypeOK
<1>1. CoordInv => TypeOK
  BY DEF CoordInv
<1>2. QED
  BY CoordInit, CoordNext, <1>1, PTL DEF Spec

(* No probe report the webhook accepted is ever lost while the entry is     *)
(* loaded, whatever is in flight when it arrives (coordinator.py:66-71,     *)
(* 124-129).                                                                *)
THEOREM ProbesAlwaysKept == Spec => []ProbesKept
<1>1. CoordInv => ProbesKept
  BY DEF CoordInv, Holding, ProbesKept
<1>2. QED
  BY CoordInit, CoordNext, <1>1, PTL DEF Spec
-----------------------------------------------------------------------------
(* Times of last successes.                                                *)

(***************************************************************************)
(* What LastSuccessMatches needs to be inductive: while a poll runs, every *)
(* last success is older than its start, because between two polls of a    *)
(* loaded entry time passes; and there are none before the first data.     *)
(***************************************************************************)
Earlier(age) == \A r \in Radios : \/ lastSuccess[r] = None
                                  \/ lastSuccess[r] > age
                                  \/ lastSuccess[r] = MaxAge

SuccessInv ==
    /\ LastSuccessMatches
    /\ ~loaded => lastSuccess = [r \in Radios |-> None]
    /\ phase # "idle" => Earlier(pollAge) /\ (queued => pollAge > 0)
    /\ phase = "idle" /\ (queued \/ due # Interval) => Earlier(0)

\* A refresh of a loaded entry begins some time after the latest one ended.
LEMMA StartPollIsLater ==
  ASSUME CoordInv, SuccessInv, StartPoll
  PROVE  SuccessInv'
<1>1. /\ phase = "idle" /\ (~loaded \/ due = 0 \/ queued)
      /\ phase' # "idle" /\ pollAge' = 0 /\ queued' = FALSE
      /\ UNCHANGED <<loaded, data, lastSuccess, ghost>>
  BY DEF StartPoll, RefreshDue, entry
<1>2. Earlier(0)
  <2>1. CASE ~loaded
    BY <2>1 DEF SuccessInv, Earlier
  <2>2. CASE loaded
    BY <2>2, <1>1, ConstantsTyped DEF SuccessInv
  <2>3. QED
    BY <2>1, <2>2
<1>3. QED
  BY <1>1, <1>2 DEF SuccessInv, LastSuccessMatches, Earlier

\* A success is recorded together with the data, a failure leaves the older one.
LEMMA CollectDoneMatches ==
  ASSUME CoordInv, SuccessInv, NEW answers \in Answers, CollectDone(answers)
  PROVE  SuccessInv'
<1>1. /\ phase = "collecting" /\ phase' = "idle" /\ loaded' = TRUE /\ due' = Interval
      /\ data'.nodes = answers /\ data'.failures = nodes \ DOMAIN answers
      /\ lastSuccess' = [r \in Radios |-> IF r \in DOMAIN answers THEN pollAge
                                                               ELSE lastSuccess[r]]
      /\ queued' = queued
      /\ DOMAIN answers \subseteq nodes /\ nodes \subseteq Radios
  BY DEF CollectDone, LastSuccessOf, CoordInv, TypeOK
<1>2. ghost'.dataAge = pollAge
  BY DEF CollectDone, CoordInv, TypeOK
<1>3. pollAge \in 0..MaxAge
  BY DEF CoordInv, TypeOK
<1>4. Earlier(pollAge) /\ (queued => pollAge > 0)
  BY <1>1 DEF SuccessInv
<1>5. \A r \in Radios : lastSuccess[r] \in 0..MaxAge \union {None}
  BY DEF CoordInv, TypeOK, Ages
<1>6. LastSuccessMatches'
  <2>1. ASSUME NEW r \in nodes, r \notin DOMAIN answers
        PROVE  \/ lastSuccess'[r] = None
               \/ lastSuccess'[r] > pollAge
               \/ pollAge = MaxAge
    BY <2>1, <1>1, <1>3, <1>4, <1>5, ConstantsTyped DEF Earlier
  <2>2. QED
    BY <2>1, <1>1, <1>2 DEF LastSuccessMatches
<1>7. queued => Earlier(0)'
  <2>1. SUFFICES ASSUME queued, NEW r \in Radios
                 PROVE  lastSuccess'[r] = None \/ lastSuccess'[r] > 0
    BY DEF Earlier
  <2>2. QED
    BY <2>1, <1>1, <1>3, <1>4, <1>5, ConstantsTyped DEF Earlier
<1>8. QED
  BY <1>1, <1>6, <1>7 DEF SuccessInv

\* All ages grow together.
LEMMA TickMatches ==
  ASSUME CoordInv, SuccessInv, Tick
  PROVE  SuccessInv'
<1>1. /\ lastSuccess' = [r \in Radios |-> Older(lastSuccess[r], MaxAge)]
      /\ UNCHANGED <<loaded, phase, data>>
      /\ phase # "idle" => pollAge' = Older(pollAge, MaxAge)
      /\ ghost'.dataAge = Older(ghost.dataAge, MaxAge)
  BY DEF Tick, CoordInv, TypeOK
<1>2. /\ pollAge \in 0..MaxAge /\ ghost.dataAge \in 0..MaxAge
      /\ \A r \in Radios : lastSuccess[r] \in 0..MaxAge \union {None}
  BY DEF CoordInv, TypeOK, Ages
<1>3. ASSUME NEW age \in 0..MaxAge, NEW r \in Radios
      PROVE  /\ Older(age, MaxAge) \in 1..MaxAge
             /\ lastSuccess'[r] = None <=> lastSuccess[r] = None
             /\ lastSuccess[r] = age => lastSuccess'[r] = Older(age, MaxAge)
             /\ lastSuccess[r] # None => lastSuccess'[r] \in 1..MaxAge
             /\ lastSuccess[r] > age /\ lastSuccess[r] # None =>
                   lastSuccess'[r] > Older(age, MaxAge) \/ lastSuccess'[r] = MaxAge
             /\ lastSuccess[r] = MaxAge => lastSuccess'[r] = MaxAge
             /\ age = MaxAge => Older(age, MaxAge) = MaxAge
  BY <1>1, <1>2, ConstantsTyped DEF Older
<1>4. LastSuccessMatches'
  <2>1. ASSUME data # None, NEW r \in DOMAIN data.nodes
        PROVE  lastSuccess'[r] = ghost'.dataAge
    <3>1. r \in Radios /\ lastSuccess[r] = ghost.dataAge
      BY <2>1 DEF SuccessInv, LastSuccessMatches, CoordInv, TypeOK, Data, Answers
    <3>2. QED
      BY <3>1, <1>1, <1>2, <1>3
  <2>2. ASSUME data # None, NEW r \in data.failures
        PROVE  \/ lastSuccess'[r] = None
               \/ lastSuccess'[r] > ghost'.dataAge
               \/ ghost'.dataAge = MaxAge
    <3>1. /\ r \in Radios
          /\ \/ lastSuccess[r] = None
             \/ lastSuccess[r] > ghost.dataAge
             \/ ghost.dataAge = MaxAge
      BY <2>2 DEF SuccessInv, LastSuccessMatches, CoordInv, TypeOK, Data
    <3>2. QED
      BY <3>1, <1>1, <1>2, <1>3, ConstantsTyped
  <2>3. QED
    BY <2>1, <2>2, <1>1 DEF LastSuccessMatches
<1>5. ~loaded => lastSuccess' = [r \in Radios |-> None]
  BY <1>1, ConstantsTyped DEF SuccessInv, Older
<1>6. ASSUME phase # "idle" PROVE Earlier(pollAge)' /\ pollAge' > 0
  <2>1. pollAge' = Older(pollAge, MaxAge) /\ Earlier(pollAge)
    BY <1>6, <1>1 DEF SuccessInv
  <2>2. pollAge' > 0
    BY <2>1, <1>2, ConstantsTyped DEF Older
  <2>3. ASSUME NEW r \in Radios
        PROVE  \/ lastSuccess'[r] = None
               \/ lastSuccess'[r] > pollAge'
               \/ lastSuccess'[r] = MaxAge
    <3>1. \/ lastSuccess[r] = None
          \/ lastSuccess[r] > pollAge
          \/ lastSuccess[r] = MaxAge
      BY <2>1 DEF Earlier
    <3>2. QED
      BY <3>1, <2>1, <1>2, <1>3
  <2>4. QED
    BY <2>2, <2>3 DEF Earlier
<1>7. Earlier(0)'
  BY <1>2, <1>3, ConstantsTyped DEF Earlier
<1>8. QED
  BY <1>1, <1>4, <1>5, <1>6, <1>7 DEF SuccessInv

LEMMA SuccessNext == CoordInv /\ SuccessInv /\ [Next]_vars => SuccessInv'
<1> SUFFICES ASSUME CoordInv, SuccessInv, [Next]_vars PROVE SuccessInv'
  OBVIOUS
<1>1. CASE StartPoll
  BY <1>1, StartPollIsLater
<1>2. CASE (\E found \in SUBSET Radios : DiscoverOk(found)) \/ DiscoverFail
  <2>1. /\ phase # "idle" /\ phase' # "idle"
        /\ UNCHANGED <<loaded, queued, data, lastSuccess, pollAge, ghost>>
    BY <1>2 DEF DiscoverOk, DiscoverFail, timer
  <2>2. QED
    BY <2>1 DEF SuccessInv, LastSuccessMatches, Earlier
<1>3. CASE Discard
  BY <1>3, ConstantsTyped DEF Discard, SuccessInv, LastSuccessMatches, Earlier
<1>4. CASE PollFails /\ ~Discard
  <2>1. /\ phase # "idle" /\ phase' = "idle" /\ due' = Interval
        /\ UNCHANGED <<loaded, queued, data, lastSuccess>>
    BY <1>4 DEF PollFails, FailRefresh, DueAfterFailure, DataAfterFailure, entry
  <2>2. ghost'.dataAge = ghost.dataAge
    BY <1>4 DEF PollFails, FailRefresh, CoordInv, TypeOK
  <2>3. queued => Earlier(0)'
    BY <2>1, ConstantsTyped DEF SuccessInv, Earlier, CoordInv, TypeOK, Ages
  <2>4. QED
    BY <2>1, <2>2, <2>3 DEF SuccessInv, LastSuccessMatches
<1>5. CASE \E answers \in Answers : CollectDone(answers)
  BY <1>5, CollectDoneMatches
<1>6. ASSUME NEW id \in ProbeIds, NEW report \in Reports, Report(id, report)
      PROVE  SuccessInv'
  <2>1. /\ loaded /\ data # None /\ due' = Interval
        /\ UNCHANGED <<loaded, phase, queued, lastSuccess, pollAge>>
        /\ data' = [data EXCEPT !.probes[id] = report]
    BY <1>6 DEF Report, UpdateProbe, entry
  <2>2. data'.nodes = data.nodes /\ data'.failures = data.failures
    BY <2>1 DEF CoordInv, TypeOK, Data
  <2>3. ghost'.dataAge = ghost.dataAge
    BY <1>6 DEF Report, CoordInv, TypeOK
  <2>4. QED
    BY <2>1, <2>2, <2>3 DEF SuccessInv, LastSuccessMatches, Earlier
<1>7. CASE Tick
  BY <1>7, TickMatches
<1>8. CASE UNCHANGED vars
  BY <1>8 DEF vars, entry, timer, SuccessInv, LastSuccessMatches, Earlier
<1>9. QED
  BY <1>1, <1>2, <1>3, <1>4, <1>5, <1>6, <1>7, <1>8 DEF Next, Reload

(* The last success an entity displays is that of the poll its state comes  *)
(* from when it is on, and an earlier one when its radio failed, however    *)
(* polls, reports, failures and reloads follow one another                  *)
(* (coordinator.py:67-71, binary_sensor.py:89-106).                         *)
THEOREM LastSuccessAlwaysMatches == Spec => []LastSuccessMatches
<1>1. Init => SuccessInv
  BY ConstantsTyped DEF Init, SuccessInv, LastSuccessMatches, Earlier
<1>2. SuccessInv => LastSuccessMatches
  BY DEF SuccessInv
<1>3. QED
  BY CoordInit, CoordNext, SuccessNext, <1>1, <1>2, PTL DEF Spec
-----------------------------------------------------------------------------
(* Incident entities.                                                      *)

(***************************************************************************)
(* How a tracker stands to the snapshot of its radio the coordinator holds.*)
(* It has either been shown nothing, or exactly that snapshot; and an      *)
(* episode that was reported is not left open by a calm snapshot.          *)
(***************************************************************************)
Follows(t, events, snap) ==
    CASE t.wasReachable = "up"   -> /\ snap # None
                                    /\ t.previousUptime = snap.uptime
                                    /\ Calm(snap) => ~t.highEmitted
      [] t.wasReachable = "down" -> /\ snap = None
                                    /\ t.previousUptime = None
                                    /\ ~t.highEmitted
      [] OTHER                   -> t = NewTracker /\ events = {}

FollowInv ==
    /\ ~loaded => entities = {}
    /\ \A r \in Radios :
          /\ Follows(trackers[r], raised[r], SnapshotFor(r))
          /\ r \notin entities => trackers[r] = NewTracker /\ raised[r] = {}

\* Only entities are notified, so what holds of all radios may leave out the others.
LEMMA NewFollows == ASSUME NEW snap PROVE Follows(NewTracker, {}, snap)
  BY DEF NewTracker, Follows

LEMMA ShownFollows ==
  ASSUME NEW t \in Trackers, NEW snap \in Samples \union {None}
  PROVE  Follows(Update(t, snap, 0), Events(t, snap, 0), snap)
<1>1. CASE snap = None
  BY <1>1 DEF Update, Lost, Follows
<1>2. CASE snap # None
  BY <1>2 DEF Update, Seen, Emitted, Follows
<1>3. QED
  BY <1>1, <1>2

LEMMA NotifyFollows ==
  ASSUME CoordInv, FollowInv, NEW d \in Data, Notify(d), data' = d,
         loaded, UNCHANGED <<loaded, entities>>
  PROVE  FollowInv'
<1>1. ASSUME NEW r \in Radios
      PROVE  /\ Follows(trackers'[r], raised'[r], SnapshotFor(r)')
             /\ r \notin entities' => trackers'[r] = NewTracker /\ raised'[r] = {}
  <2>1. SnapshotFor(r)' = SnapshotIn(d, r)
    BY ConstantsTyped DEF SnapshotFor, SnapshotIn
  <2>2. CASE r \in entities
    <3>1. /\ trackers'[r] = Update(trackers[r], SnapshotIn(d, r), 0)
          /\ raised'[r] = Events(trackers[r], SnapshotIn(d, r), 0)
      BY <2>2 DEF Notify
    <3>2. QED
      BY <2>1, <2>2, <3>1, SnapshotTyped, ShownFollows DEF CoordInv, TypeOK
  <2>3. CASE r \notin entities
    BY <2>3, NewFollows DEF Notify, FollowInv
  <2>4. QED
    BY <2>2, <2>3
<1>2. QED
  BY <1>1 DEF FollowInv

LEMMA DiscardFollows == Discard => FollowInv'
  BY NewFollows DEF Discard, FollowInv

LEMMA UndisturbedFollows ==
  ASSUME FollowInv, UNCHANGED <<loaded, entities, data, incidents>>
  PROVE  FollowInv'
  BY DEF FollowInv, SnapshotFor, incidents

\* The first refresh makes entities, which it does not notify.
LEMMA CollectDoneFollows ==
  ASSUME CoordInv, FollowInv, CoordInv', NEW answers \in Answers, CollectDone(answers)
  PROVE  FollowInv'
<1>1. data' \in Data /\ loaded'
  BY DEF CollectDone, CoordInv, Holding, TypeOK
<1>2. CASE loaded
  <2>1. Notify(data') /\ UNCHANGED <<loaded, entities>>
    BY <1>2 DEF CollectDone, CoordInv, TypeOK
  <2>2. QED
    BY <1>1, <1>2, <2>1, NotifyFollows
<1>3. CASE ~loaded
  <2>1. UNCHANGED incidents /\ entities = {}
    BY <1>3 DEF CollectDone, FollowInv
  <2>2. \A r \in Radios : trackers'[r] = NewTracker /\ raised'[r] = {}
    BY <2>1 DEF FollowInv, incidents
  <2>3. QED
    BY <1>1, <2>2, NewFollows DEF FollowInv
<1>4. QED
  BY <1>2, <1>3

\* Growing older changes nothing but the age of an episode.
LEMMA TickFollows ==
  ASSUME CoordInv, FollowInv, Tick
  PROVE  FollowInv'
<1>1. UNCHANGED <<loaded, entities, data, raised>>
  BY DEF Tick
<1>2. ASSUME NEW r \in Radios
      PROVE  /\ trackers'[r].wasReachable = trackers[r].wasReachable
             /\ trackers'[r].previousUptime = trackers[r].previousUptime
             /\ trackers'[r].highEmitted = trackers[r].highEmitted
             /\ trackers[r] = NewTracker => trackers'[r] = NewTracker
  <2>1. trackers'[r] = IF trackers[r].highStartedAt \notin {None, -HighDuration}
                       THEN [trackers[r] EXCEPT !.highStartedAt = trackers[r].highStartedAt - 1]
                       ELSE trackers[r]
    BY DEF Tick
  <2>2. trackers[r] \in Trackers
    BY DEF CoordInv, TypeOK
  <2>3. QED
    BY <2>1, <2>2 DEF Trackers, NewTracker
<1>3. ASSUME NEW r \in Radios
      PROVE  /\ Follows(trackers'[r], raised'[r], SnapshotFor(r)')
             /\ r \notin entities' => trackers'[r] = NewTracker /\ raised'[r] = {}
  <2>1. Follows(trackers[r], raised[r], SnapshotFor(r)) /\ SnapshotFor(r)' = SnapshotFor(r)
    BY <1>1 DEF FollowInv, SnapshotFor
  <2>2. QED
    BY <1>1, <1>2, <2>1 DEF FollowInv, Follows
<1>4. QED
  BY <1>1, <1>3 DEF FollowInv

LEMMA FollowNext == CoordInv /\ FollowInv /\ [Next]_vars => FollowInv'
<1> SUFFICES ASSUME CoordInv, FollowInv, [Next]_vars PROVE FollowInv'
  OBVIOUS
<1>1. CoordInv'
  BY CoordNext
<1>2. CASE StartPoll \/ (\E found \in SUBSET Radios : DiscoverOk(found)) \/ DiscoverFail
  <2>1. UNCHANGED <<loaded, entities, data, incidents>>
    BY <1>2 DEF StartPoll, DiscoverOk, DiscoverFail, entry
  <2>2. QED
    BY <2>1, UndisturbedFollows
<1>3. CASE Discard
  BY <1>3, DiscardFollows
<1>4. CASE PollFails /\ ~Discard
  <2>1. /\ loaded /\ UNCHANGED <<loaded, entities, data>>
        /\ IF success THEN Notify(data') ELSE UNCHANGED incidents
    BY <1>4 DEF PollFails, FailRefresh, DataAfterFailure, entry
  <2>2. data' \in Data
    BY <2>1, <1>1 DEF CoordInv, Holding, TypeOK
  <2>3. QED
    BY <2>1, <2>2, NotifyFollows, UndisturbedFollows
<1>5. ASSUME NEW answers \in Answers, CollectDone(answers) PROVE FollowInv'
  BY <1>1, <1>5, CollectDoneFollows
<1>6. ASSUME NEW id \in ProbeIds, NEW report \in Reports, Report(id, report)
      PROVE  FollowInv'
  <2>1. /\ loaded /\ UNCHANGED <<loaded, entities>> /\ Notify(data')
    BY <1>6 DEF Report, UpdateProbe, entry
  <2>2. data' \in Data
    BY <2>1, <1>1 DEF CoordInv, Holding, TypeOK
  <2>3. QED
    BY <2>1, <2>2, NotifyFollows
<1>7. CASE Tick
  BY <1>7, TickFollows
<1>8. CASE UNCHANGED vars
  BY <1>8, UndisturbedFollows DEF vars, entry
<1>9. QED
  BY <1>2, <1>3, <1>4, <1>5, <1>6, <1>7, <1>8 DEF Next, Reload

LEMMA FollowInit == Init => FollowInv
  BY NewFollows DEF Init, FollowInv

(* No data ever change behind the back of a tracker: what an incident       *)
(* entity was last shown is what the coordinator holds (event.py:64-68,     *)
(* coordinator.py:124-129).                                                 *)
THEOREM TrackersAlwaysFollow == Spec => []TrackersFollowData
<1>1. CoordInv /\ FollowInv => TrackersFollowData
  BY DEF CoordInv, TypeOK, Trackers, FollowInv, Follows, TrackersFollowData
<1>2. QED
  BY CoordInit, CoordNext, FollowInit, FollowNext, <1>1, PTL DEF Spec
-----------------------------------------------------------------------------
(* What a notification without new data can raise.                         *)

LEMMA ShownAgain ==
  ASSUME NEW t \in Trackers, NEW events, NEW snap \in Samples \union {None},
         Follows(t, events, snap)
  PROVE  Events(t, snap, 0) \subseteq {"high_utilization"}
<1>1. CASE snap = None
  <2>1. t.wasReachable # "up"
    BY <1>1 DEF Follows
  <2>2. QED
    BY <1>1, <2>1 DEF Events, LostEvents
<1>2. CASE snap # None
  <2>1. snap.uptime \in Nat \union {None} /\ UptimeTolerance \in Nat
    BY <1>2, CoordinatorAssumption, DurationAssumption
  <2>2. t.wasReachable # "down"
    BY <1>2 DEF Follows
  <2>3. ~UptimeReset(t, snap)
    <3>1. t.previousUptime = None \/ t.previousUptime = snap.uptime
      BY <2>2 DEF Follows, NewTracker, Trackers
    <3>2. QED
      BY <3>1, <2>1 DEF UptimeReset
  <2>4. ~(Calm(snap) /\ t.highEmitted)
    BY <2>2 DEF Follows, NewTracker, Trackers
  <2>5. QED
    BY <1>2, <2>2, <2>3, <2>4 DEF Events, SeenEvents, EventTypes
<1>3. QED
  BY <1>1, <1>2

LEMMA ReplayStep ==
  ASSUME CoordInv, FollowInv, NEW d \in Data, Notify(d),
         data # None, d.nodes = data.nodes
  PROVE  \A r \in entities : raised'[r] \subseteq {"high_utilization"}
<1> SUFFICES ASSUME NEW r \in entities
             PROVE  raised'[r] \subseteq {"high_utilization"}
  OBVIOUS
<1>1. r \in Radios /\ trackers[r] \in Trackers
  BY DEF CoordInv, TypeOK
<1>2. SnapshotIn(d, r) = SnapshotFor(r)
  BY DEF SnapshotIn, SnapshotFor
<1>3. Follows(trackers[r], raised[r], SnapshotIn(d, r))
  BY <1>1, <1>2 DEF FollowInv
<1>4. raised'[r] = Events(trackers[r], SnapshotIn(d, r), 0)
  BY <1>1 DEF Notify
<1>5. QED
  BY <1>1, <1>3, <1>4, SnapshotTyped, ShownAgain

(* Showing an entity data it has seen reports no loss, recovery or reboot,  *)
(* whatever reports and failures repeat them, and however often             *)
(* (event.py:64-68, incident.py:93-153).                                    *)
THEOREM ReplaysOnlyRaiseHigh == Spec => ReplayOnlyRaisesHigh
<1>1. CoordInv /\ FollowInv /\ [Next]_vars =>
        [\/ \E id \in ProbeIds, report \in Reports : Report(id, report)
         \/ PollFails /\ success
         => \A r \in entities : raised'[r] \subseteq {"high_utilization"}]_vars
  <2> SUFFICES ASSUME CoordInv, FollowInv,
                      \/ \E id \in ProbeIds, report \in Reports : Report(id, report)
                      \/ PollFails /\ success
               PROVE  \A r \in entities : raised'[r] \subseteq {"high_utilization"}
    OBVIOUS
  <2>1. ASSUME NEW id \in ProbeIds, NEW report \in Reports, Report(id, report)
        PROVE  \A r \in entities : raised'[r] \subseteq {"high_utilization"}
    <3>1. CoordInv'
      BY <2>1, ReportKeeps
    <3>2. /\ loaded /\ loaded' /\ data # None /\ Notify(data')
          /\ data' = [data EXCEPT !.probes[id] = report]
      BY <2>1 DEF Report, UpdateProbe, entry
    <3>3. data' \in Data /\ data'.nodes = data.nodes
      BY <3>1, <3>2 DEF CoordInv, Holding, TypeOK, Data
    <3>4. QED
      BY <3>2, <3>3, ReplayStep
  <2>2. CASE PollFails /\ success
    <3>1. CASE ~loaded
      BY <3>1 DEF FollowInv
    <3>2. CASE loaded
      <4>1. data' = data /\ Notify(data')
        BY <2>2, <3>2 DEF PollFails, FailRefresh, DataAfterFailure
      <4>2. data \in Data /\ data # None
        BY <3>2 DEF CoordInv, Holding, TypeOK
      <4>3. QED
        BY <4>1, <4>2, ReplayStep
    <3>3. QED
      BY <3>1, <3>2
  <2>3. QED
    BY <2>1, <2>2
<1>2. QED
  BY CoordInit, CoordNext, FollowInit, FollowNext, <1>1, PTL
     DEF Spec, ReplayOnlyRaisesHigh
-----------------------------------------------------------------------------
(* The order of events.                                                    *)

(* A tracker that follows its data takes a step of the promise whatever it  *)
(* is shown next (incident.py:93-153).                                      *)
LEMMA ShownKeepsPromise ==
  ASSUME CoordInv, FollowInv, NEW r \in Radios, NEW snap \in Samples \union {None},
         trackers'[r] = Update(trackers[r], snap, 0),
         raised'[r] = Events(trackers[r], snap, 0)
  PROVE  PromiseOf(r)!Next
<1>1. trackers[r] \in Trackers
  BY DEF CoordInv, TypeOK
<1>2. CASE snap = None
  <2>1. PromiseOf(r)!Lose
    BY <1>2 DEF Update, Lost, Events, LostEvents, PromiseOf!Lose
  <2>2. QED
    BY <2>1 DEF PromiseOf!Next
<1>3. CASE snap # None
  <2>1. /\ trackers'[r].wasReachable = "up"
        /\ trackers'[r].highEmitted = Emitted(trackers[r], snap, 0)
        /\ raised'[r] = SeenEvents(trackers[r], snap, 0)
    BY <1>3 DEF Update, Seen, Events
  <2>2. Critical(snap) => ~Calm(snap)
    <3>1. snap.busy \in 0..100
      BY <1>3, CoordinatorAssumption
    <3>2. QED
      BY <3>1, ThresholdAssumption DEF Critical, Calm, RecoveryThreshold
  <2>3. UptimeReset(trackers[r], snap) => trackers[r].wasReachable = "up"
    <3>1. Follows(trackers[r], raised[r], SnapshotFor(r))
      BY DEF FollowInv
    <3>2. QED
      BY <1>1, <3>1 DEF UptimeReset, Follows, NewTracker, Trackers
  <2>4. /\ raised'[r] \in SUBSET {"high_utilization", "utilization_recovered",
                                  "node_recovered", "router_reboot"}
        /\ "node_recovered" \in raised'[r] <=> trackers[r].wasReachable = "down"
        /\ "router_reboot" \in raised'[r] => trackers[r].wasReachable = "up"
    BY <2>1, <2>3 DEF SeenEvents, EventTypes
  <2>5. "high_utilization" \in raised'[r]
           <=> ~trackers[r].highEmitted /\ trackers'[r].highEmitted
    BY <2>1, <2>2 DEF SeenEvents, EventTypes, Emitted, Sustained
  <2>6. "utilization_recovered" \in raised'[r]
           <=> trackers[r].highEmitted /\ ~trackers'[r].highEmitted
    BY <2>1 DEF SeenEvents, EventTypes, Emitted
  <2>7. trackers'[r].highEmitted \in BOOLEAN
    BY <2>1 DEF Emitted
  <2>8. PromiseOf(r)!See
    BY <2>1, <2>4, <2>5, <2>6, <2>7 DEF PromiseOf!See
  <2>9. QED
    BY <2>8 DEF PromiseOf!Next
<1>4. QED
  BY <1>2, <1>3
\* Every step leaves an entity alone, starts it anew, or keeps its promise.
LEMMA EntityStep ==
  ASSUME CoordInv, FollowInv, [Next]_vars, NEW r \in Radios
  PROVE  \/ PromiseOf(r)!Next
         \/ PromiseOf(r)!Restart
         \/ UNCHANGED PromiseOf(r)!vars
<1>1. ASSUME NEW d \in Data, Notify(d)
      PROVE  PromiseOf(r)!Next \/ UNCHANGED PromiseOf(r)!vars
  <2>1. CASE r \in entities
    <3>1. /\ trackers'[r] = Update(trackers[r], SnapshotIn(d, r), 0)
          /\ raised'[r] = Events(trackers[r], SnapshotIn(d, r), 0)
      BY <1>1, <2>1 DEF Notify
    <3>2. QED
      BY <3>1, SnapshotTyped, ShownKeepsPromise
  <2>2. CASE r \notin entities
    <3>1. trackers'[r] = trackers[r] /\ raised'[r] = raised[r]
      BY <1>1, <2>2 DEF Notify
    <3>2. QED
      BY <3>1 DEF PromiseOf!vars
  <2>3. QED
    BY <2>1, <2>2
<1>2. ASSUME UNCHANGED incidents PROVE UNCHANGED PromiseOf(r)!vars
  BY <1>2 DEF incidents, PromiseOf!vars
<1>3. CASE Discard
  <2>1. trackers'[r] = NewTracker /\ raised'[r] = {}
    BY <1>3 DEF Discard
  <2>2. QED
    BY <2>1 DEF NewTracker, PromiseOf!Restart
<1>4. CoordInv'
  BY CoordNext
<1>5. CASE StartPoll \/ (\E found \in SUBSET Radios : DiscoverOk(found)) \/ DiscoverFail
  BY <1>2, <1>5 DEF StartPoll, DiscoverOk, DiscoverFail
<1>6. CASE PollFails
  <2>1. \/ Discard \/ UNCHANGED incidents
        \/ loaded /\ loaded' /\ Notify(data')
    BY <1>6 DEF PollFails, FailRefresh, entry
  <2>2. loaded' => data' \in Data
    BY <1>4 DEF CoordInv, Holding, TypeOK
  <2>3. QED
    BY <1>1, <1>2, <1>3, <2>1, <2>2
<1>7. ASSUME NEW answers \in Answers, CollectDone(answers)
      PROVE  PromiseOf(r)!Next \/ UNCHANGED PromiseOf(r)!vars
  <2>1. loaded' /\ data' \in Data
    BY <1>4, <1>7 DEF CollectDone, CoordInv, Holding, TypeOK
  <2>2. CASE loaded
    BY <1>1, <1>7, <2>1, <2>2 DEF CollectDone
  <2>3. CASE ~loaded
    BY <1>2, <1>7, <2>3 DEF CollectDone
  <2>4. QED
    BY <2>2, <2>3
<1>8. ASSUME NEW id \in ProbeIds, NEW report \in Reports, Report(id, report)
      PROVE  PromiseOf(r)!Next \/ UNCHANGED PromiseOf(r)!vars
  <2>1. loaded' /\ Notify(data')
    BY <1>8 DEF Report, UpdateProbe, entry
  <2>2. data' \in Data
    BY <2>1, <1>4 DEF CoordInv, Holding, TypeOK
  <2>3. QED
    BY <1>1, <2>1, <2>2
<1>9. CASE Tick
  <2>1. /\ trackers'[r].wasReachable = trackers[r].wasReachable
        /\ trackers'[r].highEmitted = trackers[r].highEmitted
        /\ raised'[r] = raised[r]
    BY <1>9 DEF Tick, CoordInv, TypeOK, Trackers
  <2>2. QED
    BY <2>1 DEF PromiseOf!vars
<1>10. CASE UNCHANGED vars
  BY <1>2, <1>10 DEF vars
<1>11. QED
  BY <1>3, <1>5, <1>6, <1>7, <1>8, <1>9, <1>10 DEF Next, Reload

(* All incident entities together implement IncidentPromise, with a new     *)
(* start at every reload: for any number of radios that come, go and fail   *)
(* while reports replay their data (event.py:64-68, incident.py:93-153).    *)
THEOREM EntitiesAlwaysKeepPromise == Spec => EntitiesKeepPromise
<1>1. Init => \A r \in Radios : PromiseOf(r)!Init
  BY DEF Init, NewTracker, PromiseOf!Init
<1>2. CoordInv /\ FollowInv /\ [Next]_vars =>
        [\A r \in Radios : \/ PromiseOf(r)!Next
                           \/ PromiseOf(r)!Restart
                           \/ UNCHANGED PromiseOf(r)!vars]_vars
  BY EntityStep
<1>3. QED
  BY CoordInit, CoordNext, FollowInit, FollowNext, <1>1, <1>2, PTL
     DEF Spec, EntitiesKeepPromise
=============================================================================
