-------------------------- MODULE DiagnosticReport --------------------------
(***************************************************************************)
(* The report tool (tools/wifi_diagnostic_report.py) and what it reads: the *)
(* entities of the integration (sensor.py, binary_sensor.py, event.py,      *)
(* entity.py) and their states as Home Assistant keeps and records them.    *)
(***************************************************************************)
EXTENDS Ranking, Sequences, SequencesExt

CONSTANTS Radios,             \* records of a node and a band, "2.4" or "5"
          Answers,            \* the sets of radios that may answer a poll
          Discoveries,        \* the sets of radios that a setup may find
          Causes,             \* the other incidents an update may raise, by radio
          LastInFull,         \* may the last row of a history be given in full
          Utilization(_, _),  \* of a radio at a time
          Threshold,
          StatesOrder,        \* the entities in the order Home Assistant has them
          MaxTime,            \* bound: how many changes are recorded
          Unavailable, Unknown, None

METRIC_KEYS == {"utilization"}
STATE_KEYS == {"reachable", "congested"}

Nodes == {r.node : r \in Radios}
Entity(key, r) == [key |-> key, node |-> r.node, band |-> r.band]

\* Each radio has its sensors and an event entity, and each node a reachability.
Diagnostics == {Entity(key, r) : key \in {"utilization", "congested"}, r \in Radios}
               \union {Entity("reachable", r) : r \in {r \in Radios : r.band = "2.4"}}
Incidents == {Entity("incident", r) : r \in Radios}
Internet == [key |-> "internet", node |-> None, band |-> None]
Entities == Diagnostics \union Incidents \union {Internet}

ASSUME StatesOrderAssumption == /\ StatesOrder \in Seq(Entities)
                                /\ ToSet(StatesOrder) = Entities

ASSUME RadiosAssumption == /\ \A r \in Radios : /\ r = [node |-> r.node, band |-> r.band]
                                               /\ r.node # None
                           /\ Answers \subseteq SUBSET Radios
                           /\ Discoveries \subseteq SUBSET Radios

\* A radio that answered before and now raises at most two incidents
\* (IncidentTracker.update): a reboot, and one of its utilization.
OTHER_EVENTS == {"router_reboot", "high_utilization", "utilization_recovered"}
EVENT_TYPES == OTHER_EVENTS \union {"node_recovered", "node_unreachable"}

ASSUME CausesAssumption ==
    /\ \A further \in Causes : \A r \in Radios :
          further[r] \in Seq(OTHER_EVENTS) /\ Len(further[r]) <= 2
    /\ LastInFull \subseteq BOOLEAN
    /\ None \notin EVENT_TYPES

\* Figures are numbers, and no state stands for another.
ASSUME StatesAssumption ==
    /\ MaxTime \in Nat
    /\ \A r \in Radios : \A t \in 0..MaxTime : Utilization(r, t) \in Int
    /\ {Unavailable, Unknown} \intersect (Int \union {"on", "off"}) = {}
    /\ Unavailable # Unknown

\* Where Home Assistant has each entity.
Position == [e \in Entities |-> CHOOSE k \in DOMAIN StatesOrder : StatesOrder[k] = e]

RadioOf(e) == [node |-> e.node, band |-> e.band]

VARIABLES now,       \* the time, counted in recorded changes
          loaded,    \* the entry is set up
          live,      \* the radios its discovery found: they have entities now
          success,   \* coordinator.last_update_success
          answered,  \* the radios that have a snapshot
          tracked,   \* the incident trackers have seen an update
          triggered, \* the events that each incident entity was given; the last is restored
          recorded,  \* the rows of each entity; the latest one is its state
          tool       \* what the tool is doing, has read, and reports

integration == <<loaded, live, success, answered, tracked, triggered>>
vars == <<now, integration, recorded, tool>>

Idle == [stage |-> "idle"]

Init == /\ now = 0
        /\ loaded = FALSE
        /\ live = {}
        /\ success = FALSE
        /\ answered = {}
        /\ tracked = FALSE
        /\ triggered = [r \in Radios |-> {}]
        /\ recorded = [e \in Entities |-> {}]
        /\ tool = Idle
-----------------------------------------------------------------------------
(* Entities and their states.                                              *)

\* Slip: a reachability sensor is available like the others.
AvailableWithSnapshot(e, ok, some) == ok /\ RadioOf(e) \in some
Available(e, ok, some) == ok /\ (e.key = "reachable" \/ RadioOf(e) \in some)

OnOff(on) == IF on THEN "on" ELSE "off"

\* The state of an entity other than an event after an update at time t.
StateOf(e, ok, some, t) ==
    IF ~ Available(e, ok, some) THEN Unavailable
    ELSE CASE e.key = "reachable"   -> OnOff(RadioOf(e) \in some)
           [] e.key = "congested"   -> OnOff(Utilization(RadioOf(e), t) >= Threshold)
           [] e.key = "utilization" -> Utilization(RadioOf(e), t)

Row(t, state, event) == [at |-> t, state |-> state, event |-> event]

Latest(rows) == CHOOSE row \in rows : \A other \in rows : other.at <= row.at
Earliest(rows) == CHOOSE row \in rows : \A other \in rows : row.at <= other.at

\* Home Assistant records a state that is new.
Write(rows, row) ==
    IF rows # {} /\ Latest(rows).state = row.state THEN rows ELSE rows \union {row}

\* What an update raises for a radio with an event entity: its loss or its return,
\* or, while it keeps answering, its other incidents (IncidentTracker tells which).
Raised(r, some, further) ==
    IF ~ tracked \/ r \notin live THEN <<>>
    ELSE IF r \in some /\ r \notin answered THEN <<"node_recovered">>
    ELSE IF r \notin some /\ r \in answered THEN <<"node_unreachable">>
    ELSE IF r \in some THEN further[r] ELSE <<>>

\* Each incident is triggered and written by itself, and the state of the event
\* entity is the time of this in milliseconds, which two of them may share.
Events(causes, t, same) ==
    {Row(t + k - 1, IF same THEN t ELSE t + k - 1, causes[k]) : k \in DOMAIN causes}

\* The state of a sensor is written at every update that its radio has entities for.
Shown(e, ok, some, t) ==
    IF RadioOf(e) \in live THEN Write(recorded[e], Row(t, StateOf(e, ok, some, t), None))
                           ELSE recorded[e]

\* Home Assistant restores the last event of an event entity, with the state the
\* entity had: the time of the event, unless this was written as unavailable.
Restored(r, rows, t) ==
    IF triggered[r] = {} THEN Row(t, Unknown, None)
    ELSE LET last == Latest(triggered[r])
             shown == \E row \in rows : row.event # None /\ row.state = last.state
         IN  Row(t, IF shown THEN last.state ELSE Unknown, last.event)

\* Bound: what changes after a report is of no interest, unless the tool runs again.
Tick(n) == now + n <= MaxTime /\ tool.stage # "done" /\ now' = now + n

\* The entry is set up: the first refresh precedes the entities, which are made for
\* the radios that were found. Those of the others stay as they were.
SetUp(found, some) ==
    /\ ~ loaded /\ Tick(1)
    /\ some \subseteq found
    /\ loaded' = TRUE /\ live' = found
    /\ success' = TRUE /\ answered' = some /\ tracked' = FALSE
    /\ recorded' = [e \in Entities |->
          IF RadioOf(e) \notin found THEN recorded[e]
          ELSE Write(recorded[e],
                     IF e \in Incidents THEN Restored(RadioOf(e), recorded[e], now')
                     ELSE Row(now', StateOf(e, TRUE, some, now'), None))]
    /\ UNCHANGED <<triggered, tool>>

\* _handle_coordinator_update writes an event entity only when there is an incident.
Poll(some, further, same) ==
    LET raised == [r \in Radios |-> Raised(r, some, further)]
        new == [r \in Radios |-> Events(raised[r], now + 1, same)]
    IN  /\ loaded
        /\ Tick(IF \E r \in Radios : Len(raised[r]) > 1 THEN 2 ELSE 1)
        /\ success' = TRUE /\ answered' = some /\ tracked' = TRUE
        /\ triggered' = [r \in Radios |-> triggered[r] \union new[r]]
        /\ recorded' = [e \in Entities |->
              CASE e \in Incidents   -> recorded[e] \union new[RadioOf(e)]
                [] e \in Diagnostics -> Shown(e, TRUE, some, now + 1)
                [] e = Internet      -> recorded[e]]
        /\ UNCHANGED <<loaded, live, tool>>

\* A refresh raises: the coordinator keeps its data and the last update has failed.
\* The first failure in a row is announced, and the data counts once more: it may
\* complete the minute of a high utilization, the event of which the entity is
\* given while it is unavailable.
PollFails(further) ==
    LET high == {r \in live \intersect answered :
                    /\ success /\ tracked
                    /\ "high_utilization" \in ToSet(further[r])}
        new == Row(now + 1, now + 1, "high_utilization")
    IN  /\ loaded /\ Tick(1)
        /\ success' = FALSE /\ tracked' = TRUE
        /\ triggered' = [r \in Radios |->
                            triggered[r] \union (IF r \in high THEN {new} ELSE {})]
        /\ recorded' = [e \in Entities |->
              CASE e \in Incidents   -> IF RadioOf(e) \in high
                                        THEN Write(recorded[e], Row(now + 1, Unavailable, None))
                                        ELSE recorded[e]
                [] e \in Diagnostics -> Shown(e, FALSE, answered, now + 1)
                [] e = Internet      -> recorded[e]]
        /\ UNCHANGED <<loaded, live, answered, tool>>

\* The entry is unloaded or Home Assistant stops: its entities become unavailable.
Unload ==
    /\ loaded /\ Tick(1)
    /\ loaded' = FALSE /\ live' = {}
    /\ success' = FALSE /\ answered' = {} /\ tracked' = FALSE
    /\ recorded' = [e \in Entities |->
                       IF RadioOf(e) \in live
                       THEN Write(recorded[e], Row(now', Unavailable, None))
                       ELSE recorded[e]]
    /\ UNCHANGED <<triggered, tool>>

\* AsusRouter sees the Internet come and go.
InternetChanges ==
    /\ Tick(1)
    /\ recorded' = [recorded EXCEPT ![Internet] =
          @ \union {Row(now', OnOff(@ = {} \/ Latest(@).state = "off"), None)}]
    /\ UNCHANGED <<integration, tool>>
-----------------------------------------------------------------------------
(* What the tool makes of the states and histories.                        *)

\* The attributes of an entity are there while it is available.
State(e) == Latest(recorded[e]).state
Described == {e \in Diagnostics : recorded[e] # {} /\ State(e) # Unavailable}
\* The types an event entity may have are known while it is unavailable, too.
IncidentIds == {e \in Incidents : recorded[e] # {}}

\* A history starts with the state at its start.
FromStart(before, within, start) ==
    IF before = {} THEN within ELSE within \union {[Latest(before) EXCEPT !.at = start]}
Until(e, start) == {row \in recorded[e] : row.at <= start}
Within(e, start, end) == {row \in recorded[e] : start < row.at /\ row.at <= end}
History(e, start, end) == FromStart(Until(e, start), Within(e, start, end), start)

\* A row is a change of state unless it repeats the state that was there before.
Changed(e, row) ==
    LET earlier == {other \in recorded[e] : other.at < row.at}
    IN  earlier = {} \/ Latest(earlier).state # row.state

\* The history of an event entity. Home Assistant gives changes of state only, and, as
\* the query has a minimal_response, whatever its value, the attributes of the first
\* row only, or of the first and the last.
IncidentHistory(e, start, end, lastInFull) ==
    LET rows == FromStart(Until(e, start),
                          {row \in Within(e, start, end) : Changed(e, row)}, start)
        InFull(row) == row = Earliest(rows) \/ (lastInFull /\ row = Latest(rows))
    IN  {IF InFull(row) THEN row ELSE [row EXCEPT !.event = None] : row \in rows}

Points(series) == {row \in series : row.state # Unavailable}

\* max and min return the first of equals.
Maximum(points) == Earliest({p \in points : \A q \in points : q.state <= p.state})
Minimum(points) == Earliest({p \in points : \A q \in points : p.state <= q.state})

\* Slip: the series starts with what is latest.
SummaryReversed(points) ==
    [samples |-> Cardinality(points), latest |-> Earliest(points).state,
     maximum |-> Maximum(points), minimum |-> Minimum(points)]
\* numeric_summary, but for the average.
Summary(points) ==
    [samples |-> Cardinality(points), latest |-> Latest(points).state,
     maximum |-> Maximum(points), minimum |-> Minimum(points)]

\* Of the entities that share a key the last one is reported.
LastOf(ids) == CHOOSE e \in ids : \A other \in ids : Position[other] <= Position[e]
Overwriting(ids) == [key \in {e.key : e \in ids} |-> LastOf({e \in ids : e.key = key})]

NodeReport(node, current, series) ==
    LET ids == {e \in DOMAIN current : e.node = node}
        numeric == {e \in ids : e.key \in METRIC_KEYS /\ Points(series[e]) # {}}
        states == {e \in ids : e.key \in STATE_KEYS /\ series[e] # {}}
        shown == Overwriting(ids)
        summarised == Overwriting(numeric)
        listed == Overwriting(states)
    IN  [current       |-> [key \in DOMAIN shown |-> current[shown[key]]],
         history       |-> [key \in DOMAIN summarised |->
                               Summary(Points(series[summarised[key]]))],
         state_history |-> [key \in DOMAIN listed |-> series[listed[key]]]]

\* Incidents are sorted by the time they occurred at, which is their state, where
\* "unknown" comes last; the histories come in the order of the entities.
Occurred(start, end, lastInFull) ==
    UNION {{[entity |-> e, row |-> row] :
               row \in {row \in IncidentHistory(e, start, end, lastInFull) :
                           row.event # None}} : e \in IncidentIds}
When(state) == IF state = Unknown THEN MaxTime + 1 ELSE state
Listed(i, j) == \/ Position[i.entity] < Position[j.entity]
                \/ i.entity = j.entity /\ i.row.at < j.row.at
\* Slip: the incidents are left in the order of the histories.
SoonerListed(i, j) == Listed(i, j)
Sooner(i, j) == \/ When(i.row.state) < When(j.row.state)
                \/ When(i.row.state) = When(j.row.state) /\ Listed(i, j)
Incident(item) == [entity |-> item.entity, state |-> item.row.state, event |-> item.row.event]
IncidentReport(start, end, lastInFull) ==
    LET items == Occurred(start, end, lastInFull)
        order == InOrder(items, {p \in items \X items : Sooner(p[1], p[2])})
    IN  [k \in DOMAIN order |-> Incident(order[k])]
-----------------------------------------------------------------------------
(* The tool is run: it reads the states, and then the histories of a window *)
(* that has passed.                                                        *)
Ask(start, end) ==
    /\ tool.stage # "asked"
    /\ tool' = [stage   |-> "asked", start |-> start, end |-> end,
                current |-> [e \in Described |-> State(e)],
                health  |-> recorded[Internet] # {},
                asked   |-> [at |-> now, success |-> success, live |-> live]]
    /\ UNCHANGED <<now, integration, recorded>>

Report(ask, lastInFull) ==
    LET series == [e \in DOMAIN ask.current |-> History(e, ask.start, ask.end)]
    IN  [stage |-> "done", start |-> ask.start, end |-> ask.end, asked |-> ask.asked,
         nodes |-> [node \in {e.node : e \in DOMAIN ask.current} |->
                       NodeReport(node, ask.current, series)],
         health |-> IF ask.health THEN History(Internet, ask.start, ask.end) ELSE {},
         incidents |-> IncidentReport(ask.start, ask.end, lastInFull)]

Answer(lastInFull) == /\ tool.stage = "asked"
                      /\ tool' = Report(tool, lastInFull)
                      /\ UNCHANGED <<now, integration, recorded>>

Next == \/ \E found \in Discoveries, some \in Answers : SetUp(found, some)
        \/ \E some \in Answers, further \in Causes, same \in BOOLEAN : Poll(some, further, same)
        \/ \E further \in Causes : PollFails(further)
        \/ Unload \/ InternetChanges
        \/ \E end \in 1..now : \E start \in 0..(end - 1) : Ask(start, end)
        \/ \E lastInFull \in LastInFull : Answer(lastInFull)

Spec == Init /\ [][Next]_vars
-----------------------------------------------------------------------------
(* Type invariant: an entity has one row at a time, of its kind, and only    *)
(* event entities have events; each event has a time of its own.            *)
Values(e, t) == CASE e.key = "utilization" -> Int
                  [] e.key = "incident"    -> 1..t
                  [] OTHER                 -> {"on", "off"}
Typed(e, row, t) ==
    /\ row \in [at : 1..t, state : Values(e, t) \union {Unavailable, Unknown},
                event : EVENT_TYPES \union {None}]
    /\ row.event # None => e \in Incidents /\ row.state # Unavailable
Alone(rows) == \A row, other \in rows : row.at = other.at => row = other

TypeOK == /\ now \in 0..MaxTime
          /\ loaded \in BOOLEAN /\ success \in BOOLEAN /\ tracked \in BOOLEAN
          /\ success => loaded
          /\ answered \subseteq Radios /\ live \subseteq Radios
          /\ DOMAIN triggered = Radios
          /\ \A r \in Radios :
                /\ triggered[r] \subseteq [at : 1..now, state : 1..now, event : EVENT_TYPES]
                /\ Alone(triggered[r])
          /\ DOMAIN recorded = Entities
          /\ \A e \in Entities :
                /\ \A row \in recorded[e] : Typed(e, row, now)
                /\ Alone(recorded[e])
          /\ tool.stage \in {"idle", "asked", "done"}

Done == tool.stage = "done"

(* In a report up to the present the current value of a metric and its      *)
(* history belong to the same radio: what is latest is current, although    *)
(* the radios of a node overwrite each other separately in both             *)
(* (wifi_diagnostic_report.py:109-182).                                     *)
CurrentIsLatest ==
    Done /\ tool.end = tool.asked.at =>
       \A node \in DOMAIN tool.nodes :
          LET report == tool.nodes[node]
          IN  /\ DOMAIN report.history = DOMAIN report.current \intersect METRIC_KEYS
              /\ \A key \in DOMAIN report.history :
                    report.history[key].latest = report.current[key]

(* A report that was asked for while polls succeeded shows every outage in  *)
(* its window of the nodes that the latest setup found, the outages from    *)
(* before a reload and of radios that do not answer any more included, and  *)
(* every change of the Internet (wifi_diagnostic_report.py:156-174,         *)
(* binary_sensor.py:38-46, 88-96).                                          *)
OutagesAreReported ==
    Done => /\ tool.asked.success =>
                  \A e \in Diagnostics : e.key = "reachable" /\ RadioOf(e) \in tool.asked.live =>
                     \A row \in History(e, tool.start, tool.end) :
                        /\ e.node \in DOMAIN tool.nodes
                        /\ row \in tool.nodes[e.node].state_history["reachable"]
            /\ \A row \in recorded[Internet] :
                  tool.start < row.at /\ row.at <= tool.end => row \in tool.health

(* What a report lists as an incident was one of that radio before the end  *)
(* of the window, at the time it gives, if it gives one; it is none that    *)
(* an event entity had left behind before the window, although entities are *)
(* restored, unavailable and given several events at once; and incidents    *)
(* are in the order they occurred (event.py:63-95,                          *)
(* wifi_diagnostic_report.py:184-202, 294-306).                             *)
IncidentsAreReal ==
    Done =>
       /\ \A k \in DOMAIN tool.incidents :
             LET i == tool.incidents[k]
             IN  /\ \E event \in triggered[RadioOf(i.entity)] :
                       /\ event.event = i.event /\ event.at <= tool.end
                       /\ i.state \in {event.state, Unknown}
                 /\ \A row \in recorded[i.entity] :
                       row.event # None /\ row.state # Unknown /\ row.at <= tool.start =>
                          row.state <= When(i.state)
       /\ \A j, k \in DOMAIN tool.incidents :
             j < k => When(tool.incidents[j].state) <= When(tool.incidents[k].state)

(* "returns the durable incident snapshots for the requested window"        *)
(* (README.md:66): every incident that its entity has recorded in the window *)
(* is in the report (wifi_diagnostic_report.py:60-64, 184-202).             *)
IncidentsAreReported ==
    Done =>
       \A e \in Incidents : \A row \in recorded[e] :
          row.event # None /\ tool.start < row.at /\ row.at <= tool.end =>
             [entity |-> e, state |-> row.state, event |-> row.event] \in Range(tool.incidents)
=============================================================================
