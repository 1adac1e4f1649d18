# TLA+ models of ASUS Wi-Fi Diagnostics

This directory holds TLA+ models of the Home Assistant integration
`custom_components/asus_wifi_diagnostics`, the TLC configurations that check
them on small instances, and TLAPS proofs of their main properties for
instances of any size. `PROJECT.json` lists the components, the runs, the
source lines each definition stands for, the findings, the hazards and the
theorems.

Paths such as `incident.py:93` are below `custom_components/asus_wifi_diagnostics/`
unless they start with another directory.

## 1. The system

The integration polls the controller and the nodes of an ASUS AiMesh over SSH,
turns what they report into sensors, and records sparse *incident events*. A
Wi-Fi probe on another host may add reports through a webhook.

    collector --webhook--> __init__.py --> coordinator.py <--refresh timer-- Home Assistant
                                             |   |   ^
                       api.py (SSH commands) <---+   |  +--notify--> sensors, binary sensors
                                                     +-----notify--> event.py --> incident.py

| Component | State | Operations | Hard behaviour | Correct when |
|---|---|---|---|---|
| incident detection (`incident.py`) | per radio: reachability, last uptime, start of the episode, whether it was reported | `update` with a snapshot or `None` | three exits, two thresholds, a duration, resets | events backed by evidence, complete, in a fixed order |
| incident entities (`event.py`) | one tracker per radio known at setup | a handler run on *every* notification | replayed snapshots; loss of state at reload | a replay reports nothing that did not happen |
| coordinator (`coordinator.py`) | `data`, `last_update_success`, `nodes`, `_last_discovery`, `last_node_success` | a poll with two awaits; `async_update_probe` | reports during polls, failed polls, failed rediscovery, the timer restarted by reports | nothing accepted is lost, views agree, polling never stops |
| setup, reload, webhook (`__init__.py`) | each entry's `runtime_data`, the registered webhooks | first refresh, unload, accept a report | setup retried, reload during a poll, a handler that looks at entries which are not set up | reports reach their entry and are answered truly |
| router API, polling (`api.py`) | `_last_passive_scan`, per-poll results | `discover_nodes`, `collect`, `_collect_node` | hosts concurrent, radios of a host in turn, timeouts, clients that move between commands | failures contained, no overlapping commands, every poll ends |
| router API, client counters (`api.py:245-273`) | `_station_counters` | differences between readings | counters restart at every association and are never forgotten | figures exact while associated, never too high |
| association (`association.py`, `sensor.py:400-452`) | none | first radio that lists a client | tables of different moments | an association the client really had |
| reachability sensor (`binary_sensor.py:80-106`) | none | state, availability, last success | two pieces of coordinator state written apart | the displayed time belongs to the displayed state |
| router API, discovery (`api.py:104-125`, `parser.py:22-104`) | none | list the devices, ask their products, expand them to radios | a device that does not answer is expanded by its listed name | a radio keeps its interfaces |
| host keys (`api.py:82-92`, `__init__.py:32-38`) | key per host, in three dictionaries that may be one object, and in the stored entry | enrol, compare, store | shared mutable dictionary, delayed writes, crashes | what is stored is enforced and kept |
| ownership (`ownership.py`) | an index rebuilt per poll | unique owners, precedence of matches, ranking of suggestions | ambiguous identities | a match is unique, a suggestion never counts as one |
| own-mesh classification (`api.py:210-231`, `sensor.py:481-518`) | none | classify networks, for a router's scan and for the probe's survey | octet arithmetic modulo 256, two sets of rules, radios that did not answer | a radio that comes or goes reclassifies only networks it belongs to |
| config and options flow (`config_flow.py`) | entry data and options | user step, add and remove a mapping | two dialogs at once | no mapping is lost |
| probe validation (`probe.py`), collector (`collector/`) | none | survey, deduplicate, bound, post, validate | limits on both sides, timeouts, an entry that is away | surveys arrive, with the strongest networks |
| report tool (`tools/`) | none | read states, then histories, and join them | two radios per node, entities without attributes, several incidents of one update | outages are complete, incidents real and in order |
| sensors, parsers, diagnostics, constants | none | views and text | - | - |

## 2. Modules

| Module | Models | Kind |
|---|---|---|
| `IncidentRules` | `incident.py`, the tracker as operators on its four fields | operators |
| `IncidentPromise` | the order in which the five event types of a radio may follow one another | abstract specification |
| `IncidentTracker` | one incident entity through time: polls, replays, reboots | state machine, implements `IncidentPromise` |
| `Coordinator` | coordinator, refresh timer, webhook, incident entities of all radios | state machine, uses `IncidentRules`; each entity implements `IncidentPromise` |
| `Collection` | a poll of the routers, command by command, with clients moving | state machine |
| `RetryCounters` | counters of one client at all radios over polls | state machine |
| `OwnershipRules` | `ownership.py`: index, match and suggestions | operators |
| `Ownership` | registries, index, option dialogs and reloads through time | state machine, uses `OwnershipRules` |
| `TrustOnFirstUse` | what an entry promises about host keys: learnt once, kept once stored | abstract specification |
| `HostKeys` | enrolment over dialogs, setups, polls, writes, stops and crashes | state machine, implements `TrustOnFirstUse` |
| `MeshRules` | discovery of radios, own and foreign networks | operators |
| `Ranking` | what sorting by a strict order is | operators |
| `ProbeRules` | what the collector makes of a survey and the integration of a payload | operators, uses `Ranking` |
| `Survey` | several entries, the webhook, the collector, and what routers and probe see | state machine, uses `MeshRules` and `ProbeRules` |
| `DiagnosticReport` | what the entities record, and what the report tool makes of it | state machine, uses `Ranking` |
| `MC...` | instances of the above for TLC | constants only |
| `IncidentTrackerProofs`, `CoordinatorProofs`, `CollectionProofs`, `RetryCountersProofs`, `OwnershipProofs`, `HostKeysProofs`, `SurveyProofs`, `DiagnosticReportProofs` | theorems | proofs |

An operator whose comment starts with `Slip:` is a deliberately wrong variant
of the definition after it. Nothing uses it; it is there to confirm that the
property it is named with in `PROJECT.json` notices that mistake.

### State and actions against the code

*IncidentRules / IncidentTracker.* A tracker is a record of the four private
fields of `IncidentTracker` (`None`/`True`/`False` of `_was_reachable` are
"unknown"/"up"/"down"). `Update(t, snap, now)` and `Events(t, snap, now)` are
the new fields and the returned list of `update`; the list is a set because each
type occurs at most once in it and their order is fixed. A snapshot is cut down to
`channel.busy` and `router_uptime_seconds`. `Poll` and `Renotify` are the two ways
the handler of `event.py` is reached: with new data, and with data the
coordinator already had. `history` (what the tracker was shown, when, and what
it raised, and whether the data were polled or shown again) and `rebooted` are
ghosts.

*Coordinator.* `_async_update_data` awaits twice, so a poll is `StartPoll` (up to
the first await), `DiscoverOk`/`DiscoverFail`/`PollFails`, and
`CollectDone`/`PollFails`; probe reports, reloads and the passing of time fit in
between. `CollectDone` includes what Home Assistant does when the refresh
returns: it replaces the data, sets the timer and notifies all entities. The
first refresh of a setup ends with the creation of the entities, whose trackers
have not been shown anything. `Report` is the webhook plus `async_update_probe`,
which also sets the timer, marks the update successful and notifies.

Time in this module is relative: every stored time is an age, `Tick` makes all
ages grow, and "now" is 0. That keeps the model finite although it never stops,
which the liveness properties need.

Home Assistant's part is external and modelled from how the integration relies
on it: refreshes never overlap (the timer that fires during one waits:
`queued`); the timer is cleared when a refresh starts and set when it ends; a
refresh that raises keeps the data, marks the update failed and notifies only on
the first failure in a row, whatever the exception; `async_set_updated_data`
marks the update successful; a first refresh that fails makes Home Assistant set
the entry up again with a new coordinator; an options change reloads the entry.

*Collection.* Radios are numbered in the order of the coordinator's list. Each
radio goes through the stages waiting, main (counters and assoclist),
stations (`sta_info` of each listed client, left out when there is none), scan
(only when due) and done. `EndStations` contains the detail that the exit status of
the shell loop is that of the last `sta_info`. "In flight" means that the
integration awaits the command; a command that timed out may still run on the
router for a while, which the code cannot see and the model leaves out. Clients
`Roam` at any time.

*RetryCounters.* `Transmit` and `Roam` are the radio and the client; `Poll` reads
the counters where the client is. Percentages are in tenths, as the code rounds
them to one decimal.

*OwnershipRules / Ownership.* A registry maps each device to what the device and
entity registries and the live states say of it; `ChangeDevice` is anything that
changes there, a state that becomes known included. Texts are opaque: what
`normalize_mac`, `macs_in_identifier`, `normalize_ip`, `_compact` and `_terms`
find in them is given by operator constants, so the proofs hold for whatever they
find. `stale` is a ghost: a registry has changed since the latest refresh. `Refresh` is the start of a poll, `BeginSetup` and `FinishSetup` the two
places where the entry copies the mappings. A dialog that is submitted is
`AddMapping` or `RemoveMapping`; one that shows an error changes nothing. That
changed options lead to a reload, after a running setup, is Home Assistant's part.
Evidence texts are left out; scores and the order of suggestions are kept.

*HostKeys.* A fingerprint is in up to three dictionaries: `api` (`self.host_keys`),
`closure` (the `host_keys` that `save_host_key` closes over, or `fingerprints` of the
dialog) and `entry` (`entry.data`). `shared` says which of them are one Python object:
`host_keys or {}` makes a new dictionary of an empty one (`api.py:62`), and
`{**entry.data, CONF_HOST_KEYS: host_keys}` puts the closure's own object into the
entry, after which Home Assistant compares it with itself and sees no change
(`UpdateEntry`). `Connect` is `_connect` from the moment the connection is
established. Home Assistant's part is external: a new entry is stored after its first
setup, changes are stored some time later (`Write`) with whatever the entries
hold by then, an orderly stop writes what is pending, a crash does not.
`latest` is a ghost. Rotating a key on the router is `Rekey`.

*MeshRules, ProbeRules, Survey.* A MAC address is cut into its first octet, the four
in the middle (`bssid_radio_fingerprint`) and the last, which is what the code looks
at. `Expand` and `Discovered` are the radios `discover_nodes` finds; `Snapshot`
keeps of a radio what the classifications read. A network of a survey has a bssid, an
ssid, a signal and one bit for everything that can be malformed. `Payload` is what the
collector posts, `Parsed` what `parse_probe_payload` accepts. In `Survey` the config entries
are numbered in the order in which Home Assistant lists them, which is the order of
their creation; identifiers are not used again. A request is `Arrive` (the handler is
looked up and starts to read the body) and later `Handle`; in between the entry and
others may be unloaded, removed or set up. `Status` contains that the generator
expression in `_async_handle_probe_webhook` raises at the first entry before the
right one that has no `runtime_data`. One request of the collector and one of
another probe are in flight at a time: the collector is a one-shot service of
systemd. Refusals that depend on the size of a request change nothing and are left
out. A scan of a router hears every network of `Air` on the channel of its radio.

*Ranking.* The stable sorts of the code are written as what they result in: the element
with `k - 1` others before it is in place `k`. Stability makes the order strict and total,
by the places that equals had in the list that is sorted.

*DiagnosticReport.* `recorded` is the set of rows Home Assistant has recorded of each
entity, each with its time; the latest one is its state. A list in the tool that is
ordered by time is the set of its rows; `Latest`, `Maximum` and `Minimum` are what the
tool picks from it. The list of incidents, which the tool sorts, is a sequence.
`StateOf` and `Available` are the platforms. One metric stands for all of `METRIC_KEYS`.
`SetUp` makes entities for the radios that this setup's discovery found (`live`); those of
other radios stay as they were left, unavailable and without attributes. `Raised` is what
one update raises for a radio: a loss or a return, or, while it keeps answering, up to two of
the other types (which ones is `IncidentTracker`'s business and is given by `Causes`).
`Events` are their rows, one each, with a state that is the time in milliseconds, which two
of them may share. `PollFails` announces the first failure in a row, at which the tracker
sees its data once more and may complete the minute of a high utilization; that event is
written as "unavailable" and `triggered` is where it is remembered. `Ask` reads the states
and `Answer` the histories, at a later time; the window has passed when the tool runs, as its
arguments say. The two forms of the query are two operators: `History` for the figures and
`IncidentHistory` for the incidents, whose query has a `minimal_response`. Home Assistant's
part is external: a state that does not change is not recorded again unless its attributes
do, an event entity restores its last event, an entity that is unavailable has no
attributes besides those that describe its capabilities (so `event_types` stays), and
histories are answered in the order they are asked for and begin with the state at
the start of the window. A history with a `minimal_response`, whatever its value, gives
changes of state only, and attributes with its first row, or its first and its last one
(`LastInFull`).

## 3. Runs

| Run | Checks | Instance and why it is enough | Size |
|---|---|---|---|
| `incident_tracker` | type, consistency, evidence, completeness, real reboots, refinement of `IncidentPromise` | busy in {69, 70, 90} for thresholds 90 and 70 (calm, band, critical with both boundaries); unit 30 s, so the minute is 2; up to 4 observations within time 4: an episode can start, be interrupted or reach exactly the minute, and a second one can follow | 3.5 million states |
| `coordinator` | data, times and trackers in step; promises of all entities; polls and rediscoveries recur | two radios (one may fail, be found later or disappear while the other does not), one probe with two reports, a congested and a quiet snapshot, the latter after a reboot; interval 2, rediscovery 3 | 308,000 states |
| `collection` | no overlap, failures contained, real associations, every poll ends | two radios on one host and one on another, one client | 1.1 million states |
| `retry_counters` | exact and never overstated figures | one radio, counters to 3. The radios do not interact: the code keys its counters by radio | 565,000 states |
| `ownership` | unique owners, confirmations in force, suggestions that keep the best | three devices with two states each: devices of the same maker and area but unlike names, two washers of the same name, names contained in one another, a root with and without children, addresses claimed twice, a network copy; one mapped address and an unmapped one. The code caps suggestions at 3, the run at 2, so that three devices reach the cap | 67,000 states |
| `host_keys` | dictionaries agree, stored keys are enforced, refinement of `TrustOnFirstUse` | a controller and two nodes with two keys: a node enrolled before and one after the entry's dictionary became shared, each of which may change its key | 10,000 states |
| `survey` | surveys arrive, the strongest networks are stored, only owners reclassify networks, radios keep their interfaces | three entries, of which one listed before the target may be away, removed or never ready; two GT6 of which one tells its product; a hidden, a virtual and a foreign network; surveys of three networks for a limit of 2 (128 in the code), with a repetition and a malformed row | 61,000 states |
| `report` | outages complete, incidents real and in order, current and latest agree | a node with two radios and one with one; polls that all radios, none, or one of the two of a node answer; setups that find all radios or miss a node (`Discoveries`); updates that raise nothing else, or a reboot together with a high utilization on one radio and a high utilization on the other of a node (`Causes`); both forms of a history's last row (`LastInFull`); 5 recorded changes, so that a node can fail, recover and be unavailable around an unload, before and after the window; every window | 611,000 states |

All bounds are constants: `MaxTime`, `MaxObs` (`IncidentTracker`), `MaxAge`
(ages the code only displays), `MaxCount` (counters), `MaxNetworks` (the code's own
limit, made small), `MaxTime` (`DiagnosticReport`: how many changes are recorded; what
changes after a report is of interest only to the next one, so nothing is recorded
until the tool runs again). No module
ever deadlocks, and this is checked: reboots, time, moving clients, polls, the
collector's timer and further reports always remain possible.

**Fairness.** `Coordinator!FairSpec`: each await ends (every SSH command is
bounded by 8 s to connect, 8 s to log in and 15 s to run, `api.py:74-97`), a due
refresh starts (Home Assistant's event loop) and time passes. Probe reports,
reloads and failures are not fair; all of them may also never stop. The
assumption that reports are further apart than the scan interval
(`ReportGap > Interval`: 15 minutes against at most 300 s) is needed: reports that
come faster restart the timer before it fires and postpone polling forever.
`Collection!FairSpec`: each radio's collection advances, and the gathered poll
returns. Moving clients are not fair.
`Survey!FairSpec`: the collector's timer keeps starting it (`ha-wifi-probe.timer`) with
nmcli answering sooner or later, and a request that was posted is read in the end.
Failures of nmcli, timeouts and other probes may go on forever; that the
entries stay set up is the premise of `SurveysArrive`.

### What the code does differently from what its documents say

Each is a run that TLC must find violated; `PROJECT.json` quotes the lines.

| Run | Statement | What happens |
|---|---|---|
| `reachable` | "answered the latest bounded poll" | a probe report after a failed poll turns reachability on again |
| `key_changes` | "later changes are rejected" | the dictionary of keys is the entry's own after the first enrolment, so the next key is put in place and the change goes unnoticed and is never stored; after an orderly stop and start another key is enrolled. No crash is needed (`MayCrash` is FALSE) |
| `sustained` | "must remain above the configured critical threshold for one minute" | utilization that falls between the two thresholds keeps its episode open, so critical, below the threshold and critical again is recorded |
| `report_incidents` | "returns the durable incident snapshots for the requested window" | the query for incidents has a `minimal_response` of "false", which Home Assistant takes for wanted: of three incidents the one in the middle has no attributes and is dropped |

Smaller ones are visible in the models without a run:

* a snapshot that is shown again, by a report or a failed poll, may be the one that
  completes the minute (`IncidentTracker!Renotify`), so `SustainedIsReported` asks for
  a report only when the last observation was polled;
* a client that leaves between two commands makes a radio whose host answered
  unreachable, because the exit status of the loop over the stations is that of the last
  one (`Collection!EndStations`);
* in a report the second radio of a node replaces the first, and a radio that is
  unavailable when the tool runs is left out with its whole history (`Overwriting`,
  `Described`); so is a node that the latest setup did not find, with its outages (which is why
  `OutagesAreReported` speaks of the others);
* the second of two incidents that are triggered in the same millisecond has the same
  state and is no change to a history (`Changed`); the first row of a history is an
  incident from before the window; an incident that a failed poll raises is recorded as
  unavailable and restored as "unknown" (`PollFails`, `Restored`); an incident that is restored
  may be listed twice (`IncidentsAreReal` allows all of these);
* a failed scan is repeated at every poll, not "every 15 minutes" (`Collection!EndScan`);
* a client that moves during a poll to a radio already polled is recorded as
  `not_connected` (`Collection!Roam`);
* a node that a rediscovery adds is polled but has no entities until the entry is
  reloaded (`Coordinator!SetupEntities`);
* a "per-poll" retry percentage (README.md:28) spans as many polls as missed
  the client (`RetryCounters`: `stored` has no date);
* own networks are recognised through the radios that answered the poll: those of a
  radio that failed it, and guest or hidden ones, count as external for the routers
  (`MeshRules!IsOwnMesh`), while a neighbour that uses the mesh's name counts as own
  for the probe's sensor (`OwnForProbe`), not for the routers;
* the collector takes Home Assistant's 200 for a delivery, which is also the answer
  for a webhook that is not registered and for a handler that raises (`Survey!Status`).

## 4. Proofs

Each theorem holds for every value of the constants that satisfies the `ASSUME`s
next to their declarations, which TLC evaluates for the instances above:

* thresholds between 70 and 100 (the range the config flow accepts,
  `config_flow.py:125`), positive durations and intervals, limits of at least 1;
* `None` differs from everything else it may be compared with;
* productid does not name another supported hardware than the list of devices
  (`SameHardware`), and the devices of a list have different MAC addresses
  (`DistinctMacs`);
* of texts: a part is not longer than the whole, and names are compared by a sort
  key (`TextsAssumption`). What the regular expressions find in them is arbitrary;
* surveys are lists, and the signals of their well-formed rows are integers
  (`SurveysAssumption`); no list of networks is the value that stands for an invalid
  payload, and no report the one for none (`InvalidIsNoList`, `NoneIsNoReport`);
* Home Assistant lists each entity of the integration (`StatesOrderAssumption`), a
  radio is a record of its node and band (`RadiosAssumption`), figures are integers,
  and "unavailable" and "unknown" are neither figures nor "on" or "off" nor each other
  (`StatesAssumption`);
* an update of a radio that answered before and now raises at most two incidents, which
  are neither its loss nor its return (`CausesAssumption`, `incident.py:116-149`).

* `IncidentTrackerProofs`
  * `TypeCorrect`, `TrackerStaysConsistent`: the type invariant, and with it the
    consistency of the fields, are inductive.
  * `TrackerKeepsPromise`: every step of the tracker is a step of
    `IncidentPromise`, or changes nothing it can see. It needs consistency: a tracker that
    is down has no open episode.
  * `HighAlwaysHasEvidence`: the property speaks about past observations, the
    tracker only remembers a time. The invariant `EvidenceInv` connects them: while
    an episode is open, the log contains its opening critical observation at
    `highStartedAt`, with neither calm nor loss after it, and `highEmitted` says
    whether one of the observations since then raised the event.
  * `SustainedAlwaysReported`: the converse needs the stronger fact that the
    open episode began with the *oldest* critical observation since the last
    calm or loss (`ReportInv`), so that critical observations that are a minute
    apart are covered by it.
  * `RebootAlwaysReal`: the uptime the tracker remembers is at most the router's
    real uptime unless the router rebooted since the current snapshot (`UptimeInv`).
* `CoordinatorProofs`
  * `CoordinatorTyped`, `ProbesAlwaysKept`, from one inductive invariant
    `CoordInv`: the type invariant, a timer that has run out waits for the end of
    setup or of the running refresh, and before setup is complete there is neither
    data nor any accepted report (which is what makes reading `self.data` after the
    last await enough).
  * `LastSuccessAlwaysMatches`: while a poll runs, every last success is older than its
    start, or too old to tell (`SuccessInv`), because the timer lets time pass
    between two polls. So the ages of a radio that answered and of one that did not
    never get mixed up.
  * `TrackersAlwaysFollow`: a tracker of a loaded entry has been shown nothing since
    setup, or exactly the snapshot that is held (`FollowInv`): data are replaced only
    in steps that notify.
  * `ReplaysOnlyRaiseHigh` follows from it: a snapshot that the tracker knows
    already differs from what it remembers in time only.
  * `EntitiesAlwaysKeepPromise`: as for a single tracker, but over the entities of
    all radios, reports, failed polls, and reloads, at which both the tracker and
    the promise start anew.
* `CollectionProofs`
  * `NeverOverlapping`: the radios of a host are worked through in order
    (`InOrder`), so of two of them at most one is in flight.
  * `CollectionTyped`, `FailuresAlwaysContained` and `AssociationsAlwaysReal`, from
    `PollInv`: each client a radio lists was associated with it in this poll
    (`Backed`), and a radio that is done and answered has a result if none of its
    clients moved (`Unmoved`). The first radio that lists a client exists because
    radios are numbered.
* `RetryCountersProofs`
  * `CountersTyped`, `FailuresNeverOverstated`, `AlwaysExactWhileAssociated`, from
    `CountersInv`: the counters of an association that a poll has read are what it
    stored plus what the ghost has counted since; those of a later association
    started from zero after that, so they are at most what the ghost has counted
    (`Accounted`).
* `OwnershipProofs`
  * `OwnershipTyped`: besides types, that the index in use is what
    `BuildIndex` makes of one registry.
  * `MatchAlwaysHasOneOwner` needs that this registry is the present one until something
    changes (`IndexInv`), and the lemmas `SoleOwnerIsSole` (a claim is indexed exactly when
    one owned device makes it) and `OneOwner`.
  * `ConfirmationsAlwaysInForce`, from `ReloadInv`: without a scheduled
    reload the coordinator knows the current mappings as soon as it exists, and the
    sensors as soon as the entry is loaded.
  * `BestAlwaysSuggested` and `SuggestionsAlwaysHaveEvidence` are about ranks in
    finite sets. `FirstOfFinite`: a strict order of a finite set has a first element,
    the one that the fewest others are ahead of. Of the devices that score
    best, the one with the longest name is first in an order by score and length,
    so none outdoes it; of the candidates the first one in the sorting order is
    suggested and scores as well. `FirstFew`: in a strict total order at most `k`
    elements have fewer than `k` others ahead of them.
* `HostKeysProofs`
  * `HostKeysTyped`, `DictionariesAlwaysAgree`: inductive together; the entry and what is
    stored of it always have the controller's key; a dictionary that
    is shared is changed for all that share it, one that is not is changed by its own
    assignment.
  * `SavedAlwaysEnforced` and `EntryTrustsOnFirstUse` need that what is on disk is
    part of what is in force (`StoredInForce`): a key is compared with `api`, which agrees with
    the entry, and the entry never loses what was stored.
* `SurveyProofs`
  * `SurveyTyped`: the type invariant, with the radios in use being those some
    discovery of the entry's devices finds.
  * `RadiosAlwaysKeepPlace`: two radios with the same MAC and band come from the same
    device, and the interfaces depend on the hardware only. It needs the assumption
    `SameHardware`, that productid does not name another supported hardware than
    the list of devices.
  * `StrongestAlwaysStored` and `SurveysAlwaysStored` are about sorting. `Sorting`: of a
    finite set with a strict total order, `InOrder` lists every element once and in that
    order; it follows from `Ranks`, by which the numbers of preceding elements differ
    and leave no gap. `SortedList` and `BestOfEach` apply it to the strongest sighting of
    each network, `PostedList` to their first `MaxNetworks`; the integration then
    finds no repetition, no malformed entry and not too many of them, and sorting again
    changes nothing (`StoredList`). That a stored report is one of those is the
    invariant (`Strongest`), for which every request in flight carries what was
    sent for its rows (`SentAs`, `Origins`).
* `DiagnosticReportProofs`
  * `ReportTyped`: an entity has at most one row for a time, of its own kind, and each
    event a time of its own that has passed. So a non-empty set of rows has exactly one
    latest and one earliest row. The run `report` leaves this type invariant out.
  * `CurrentAlwaysLatest` and `OutagesAlwaysReported` need an invariant over two
    moments, the reading of the states and that of the histories (`Accurate`): the
    rows up to the first moment are never changed, the current value is the latest of
    them, none of it is "unavailable", and if polls succeeded then the reachability
    sensor of every node that the latest setup found is among what is asked for. The last rests
    on `Reachable`: while polls succeed, a reachability sensor that has an entity has a state
    that is not "unavailable", as it is available whether or not its node answers.
    In a window that ends at the first moment the history ends with the current value,
    and the entities that have one are exactly those that have numbers in their history; so
    the one that is last in Home Assistant's order is the same for both.
  * `IncidentsAlwaysReal` needs to know where the rows of an event entity come from
    (`EventsKept`): each row with an event is one that was triggered, with its time or as
    "unknown" (`Traced`); later rows do not go back to the time of an earlier
    event (`Sequential`), although a restored row is younger than its state. The
    rows a history starts with or leaves the attributes of are rows of the record
    with another time or without an event. The order of the report is total because two
    rows of an entity differ in time, and `Sorting` does the rest.

Only model-checked are the liveness properties (`PollsRecur`, `DiscoveryRecurs`,
`PollEnds`, `SurveysArrive`): fairness and `ENABLED` are out of the proof system's reach.
The four statements of section 3 that the code violates are refuted by TLC's
counterexamples and need no proof.

TLC checked each proved property first, and the inductive invariant of the report
tool on the instance of the run `report`.

## 5. Not modelled

* Text: regular expressions over the output of commands (`parser.py`), wording,
  attributes and units of entities. Results of the parsers and their failures are
  inputs of the models.
* Forms of the user interface, and how the config flow takes credentials from
  AsusRouter: data without consequence for what follows.
* The redacted diagnostics download (`diagnostics.py`) and the sensors that are views
  of one figure of a snapshot: no state of their own.
* Averages and the Markdown form of the report tool's result.
* What a user does to Home Assistant's storage by hand.

Assumptions about the world, made throughout: the wall clock is not set back;
a router's monotonic boot counter grows except at reboots; Home Assistant's part
behaves as described in section 2. Its
recorder answers with the rows of an entity in order, first the one in force at the
start of the window; which rows it leaves out as insignificant is not modelled.

## 6. Plan

Done, in this order: `IncidentRules`, `IncidentPromise`, `IncidentTracker` with its
proofs; `Coordinator`; `Collection`; `RetryCounters`; `OwnershipRules` and
`Ownership` (with the option dialogs); `TrustOnFirstUse` and `HostKeys`;
`MeshRules`, `ProbeRules` and `Survey` (several entries, one webhook handler);
`DiagnosticReport`; liveness of `Coordinator`, `Collection` and `Survey`; theorems for
every safety property of the runs, of which those about sorted surveys and about the report tool
came last, after `Ranking` replaced sequences that are sorted or filtered by recursion.

Next:

One composition of `Coordinator` and `HostKeys`, in which the polls of one are the
connections of the other, and a theorem that each of them is what the composition does.

## 7. Running

    tlc -workers 2 -config MCCoordinator.cfg MCCoordinator.tla
    tlapm CoordinatorProofs.tla
