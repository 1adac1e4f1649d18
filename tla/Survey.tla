------------------------------- MODULE Survey -------------------------------
(***************************************************************************)
(* The Wi-Fi probe and the routers look at the same air.  The collector     *)
(* posts a survey to the webhook of a config entry (collector/, probe.py,   *)
(* __init__.py:69-94), whose polls meanwhile find the radios of its mesh     *)
(* and what they hear (api.py, parser.py); the sensor of the probe joins    *)
(* both (sensor.py:481-518).  There may be several entries, which Home      *)
(* Assistant sets up, unloads and removes.                                 *)
(***************************************************************************)
EXTENDS MeshRules, ProbeRules, FiniteSets

CONSTANTS N,            \* config entries are numbered as async_entries lists them
          Target,       \* the one whose webhook the collector has been given
          DevicesOf(_), \* the devices of an entry's mesh
          BssOf(_),     \* the BSS of a radio
          Surveys,      \* what nmcli may print
          Others        \* payloads other probes may post

Entries == 1..N

ASSUME TargetIsEntry == N \in Nat /\ Target \in Entries

\* productid names the hardware the device is listed as, or something unknown.
ASSUME SameHardware ==
    \A e \in Entries : \A d \in DevicesOf(e) : Family(d.product) \in {Family(d.model), None}

\* The devices of a mesh have different MAC addresses.
ASSUME DistinctMacs ==
    \A e \in Entries : \A c, d \in DevicesOf(e) : c.mac = d.mac => c = d

\* The signals nmcli prints are numbers, or their rows are not well formed.
ASSUME SurveysAssumption ==
    \A rows \in Surveys : /\ rows \in Seq(ToSet(rows))
                          /\ \A i \in WellFormed(rows) : rows[i].signal \in Int

Probes == {"couchcast", "other"}

VARIABLES listed,    \* the entries that have not been removed
          loaded,    \* those that have runtime_data and a webhook
          radios,    \* coordinator.nodes of each entry
          answered,  \* the radios whose snapshots are in coordinator.data.nodes
          probes,    \* coordinator.data.probes, with what was sent as a ghost
          reading,   \* the requests whose body is awaited
          collector, \* "idle", "posting"; how it ended: "delivered", "failed"
          sent       \* ghost: the latest survey that was posted

mesh == <<radios, answered>>
vars == <<listed, loaded, mesh, probes, reading, collector, sent>>

NoReports == [p \in Probes |-> None]

Init == /\ listed = Entries
        /\ loaded = {}
        /\ radios = [e \in Entries |-> {}]
        /\ answered = [e \in Entries |-> {}]
        /\ probes = [e \in Entries |-> NoReports]
        /\ reading = {}
        /\ collector = "idle"
        /\ sent = <<>>
-----------------------------------------------------------------------------
(* Polls.                                                                  *)

\* What discover_nodes may return for an entry's mesh, of which some devices may
\* be away and some not tell their product; it raises if none is supported.
Discoveries ==
    [e \in Entries |->
        {Discovered(seen[1], seen[2]) :
            seen \in {l \in (SUBSET DevicesOf(e)) \X (SUBSET DevicesOf(e)) :
                         l[2] \subseteq l[1] /\ Supported(l[1]) # {}}}]

\* The radios that were found are polled, and any of them answer (collect).
Poll(e, found) ==
    /\ radios' = [radios EXCEPT ![e] = found]
    /\ \E some \in SUBSET found : answered' = [answered EXCEPT ![e] = some]

\* A poll finds the radios anew, or keeps those it has.
Refresh(e) == /\ e \in loaded
              /\ \E found \in Discoveries[e] \union {radios[e]} : Poll(e, found)
              /\ UNCHANGED <<listed, loaded, probes, reading, collector, sent>>

\* The snapshot of a radio that answered.
Snapshot(r) == [mac  |-> r.mac,         band    |-> r.band,
                bssid |-> BssOf(r).bssid, ssid  |-> BssOf(r).ssid,
                channel |-> BssOf(r).channel]
Snapshots(e) == {Snapshot(r) : r \in answered[e]}
-----------------------------------------------------------------------------
(* Home Assistant and its config entries.                                  *)

Delete(e) == /\ e \in listed \ loaded
             /\ listed' = listed \ {e}
             /\ UNCHANGED <<loaded, mesh, probes, reading, collector, sent>>

\* async_setup_entry; a first refresh that fails leaves nothing behind.
SetUp(e) == /\ e \in listed \ loaded
            /\ \E found \in Discoveries[e] : Poll(e, found)
            /\ loaded' = loaded \union {e}
            /\ UNCHANGED <<listed, probes, reading, collector, sent>>

Unload(e) == /\ e \in loaded
             /\ loaded' = loaded \ {e}
             /\ radios' = [radios EXCEPT ![e] = {}]
             /\ answered' = [answered EXCEPT ![e] = {}]
             /\ probes' = [probes EXCEPT ![e] = NoReports]
             /\ UNCHANGED <<listed, reading, collector, sent>>
-----------------------------------------------------------------------------
(* Reports.                                                                *)

\* What each survey is posted as, and what each payload is stored as.
Posts == [rows \in Surveys |-> Payload(rows)]
Stored == [payload \in Others \union {Posts[rows] : rows \in Surveys} |-> Parsed(payload)]

\* An exception is not a list of networks, and no report is not a report.
ASSUME InvalidIsNoList == \A rows \in Surveys : Invalid \notin Seq(ToSet(rows))

ASSUME NoneIsNoReport ==
    \A rows \in Surveys : None # [networks |-> Stored[Posts[rows]], of |-> rows]

Request(probe, payload, rows) == [probe |-> probe, payload |-> payload, of |-> rows]

Posted == {q \in reading : q.probe = "couchcast"}

\* Home Assistant looks up the handler of the webhook and starts it; it answers
\* 200 when there is none.
Arrive(q) == reading' = IF Target \in loaded THEN reading \union {q} ELSE reading

\* The timer starts the collector, and its request arrives.
Survey(rows) ==
    /\ Posted = {}
    /\ Arrive(Request("couchcast", Posts[rows], rows))
    /\ collector' = IF Target \in loaded THEN "posting" ELSE "delivered"
    /\ sent' = rows
    /\ UNCHANGED <<listed, loaded, mesh, probes>>

\* nmcli fails, or the request does not get through.
SurveyFails ==
    /\ collector # "posting"
    /\ collector' = "failed"
    /\ UNCHANGED <<listed, loaded, mesh, probes, reading, sent>>

\* The collector does not wait any longer; its request is being read still.
TimesOut ==
    /\ collector = "posting"
    /\ collector' = "failed"
    /\ UNCHANGED <<listed, loaded, mesh, probes, reading, sent>>

OtherProbe(payload) ==
    /\ reading = Posted
    /\ Arrive(Request("other", payload, payload))
    /\ UNCHANGED <<listed, loaded, mesh, probes, collector, sent>>

(***************************************************************************)
(* next(candidate for candidate in async_entries(DOMAIN)                   *)
(*      if candidate.runtime_data.webhook_id == webhook_id)                *)
(* fails at the first entry without runtime_data, and finds nothing when   *)
(* the entry has been removed.                                             *)
(***************************************************************************)
\* Slip: the integration has one entry.
FoundFirst == Target \in loaded /\ \A e \in listed : e >= Target
Found == Target \in loaded /\ \A e \in listed : e < Target => e \in loaded
Crashes == \E e \in listed \ loaded : e < Target \/ Target \notin listed \/ e = Target

\* Slip: the webhook knows its entry, whether that is set up or not.
StatusByWebhook(q) ==
    IF Target \in listed /\ Stored[q.payload] # Invalid THEN 204 ELSE 400
\* The body has been read: 204 when a report is stored, 400 when it is invalid
\* or its entry gone; Home Assistant answers 200 when the handler raises.
Status(q) == IF Crashes THEN 200
             ELSE IF Found /\ Stored[q.payload] # Invalid THEN 204 ELSE 400

Handle(q) ==
    /\ reading' = reading \ {q}
    /\ probes' = IF Status(q) = 204
                 THEN [probes EXCEPT ![Target][q.probe] =
                          [networks |-> Stored[q.payload], of |-> q.of]]
                 ELSE probes
    /\ collector' = IF q.probe # "couchcast" \/ collector # "posting" THEN collector
                    ELSE IF Status(q) \in {200, 204} THEN "delivered" ELSE "failed"
    /\ UNCHANGED <<listed, loaded, mesh, sent>>

\* The body of a request cannot be read as JSON, or its connection breaks.
Unreadable(q) ==
    /\ q.probe = "other"
    /\ reading' = reading \ {q}
    /\ UNCHANGED <<listed, loaded, mesh, probes, collector, sent>>

Next == \/ \E e \in Entries : Delete(e) \/ SetUp(e) \/ Unload(e) \/ Refresh(e)
        \/ \E rows \in Surveys : Survey(rows)
        \/ SurveyFails \/ TimesOut
        \/ \E payload \in Others : OtherProbe(payload)
        \/ \E q \in reading : Handle(q) \/ Unreadable(q)

\* The timer of the collector goes on, and what was posted is read in the end.
Fairness == /\ WF_vars(\E rows \in Surveys : Survey(rows))
            /\ WF_vars(\E q \in Posted : Handle(q))

Spec == Init /\ [][Next]_vars
FairSpec == Spec /\ Fairness
-----------------------------------------------------------------------------
(* Type invariant: only an entry that is set up has data.                  *)
Radio == [mac : {d.mac : d \in UNION {DevicesOf(e) : e \in Entries}}, band : Bands,
          radio : {"eth4", "eth5", "eth6"},
          station : {"eth4", "eth5", "eth6", "wl0.1", "wl1.1", "wl2.1"}]

TypeOK == /\ loaded \subseteq listed /\ listed \subseteq Entries
          /\ \A e \in Entries :
                /\ radios[e] \subseteq Radio
                /\ answered[e] \subseteq radios[e]
                /\ e \notin loaded => radios[e] = {} /\ probes[e] = NoReports
          /\ \A q \in reading : q.probe \in Probes
          /\ collector \in {"idle", "posting", "delivered", "failed"}

\* The report the sensor of the probe shows, and what it calls external.
Report(e) == probes[e]["couchcast"]
Seen(e) == IF Report(e) = None THEN {} ELSE ToSet(Report(e).networks)
External(e) == {n \in Seen(e) : ~ OwnForProbe(n, Snapshots(e))}

\* A network has the BSSID or the name of a radio's BSS, or its device's octets.
Belongs(n, r) == \/ n.bssid = BssOf(r).bssid
                 \/ n.ssid = BssOf(r).ssid
                 \/ n.bssid.middle = r.mac.middle

(* When other radios answer than before, a network of the survey changes   *)
(* between own and external only with the answers of radios it belongs to: *)
(* not when a radio comes or goes that has nothing of it in common, yet    *)
(* hears it under a name that the probe has not seen, as that of a         *)
(* neighbour who has named his network like this one                       *)
(* (api.py:217-231, sensor.py:485-511).                                    *)
OnlyOwnersReclassify ==
    [][\A e \in Entries : Report(e)' = Report(e) /\ answered'[e] # answered[e] =>
          LET before == External(e)
              after == External(e)'
          IN  \A n \in (before \ after) \union (after \ before) :
                 \E r \in (answered[e] \ answered'[e]) \union (answered'[e] \ answered[e]) :
                    Belongs(n, r)]_vars

(* A stored survey is the best of what the probe saw: sorted, no network   *)
(* twice or weaker than it was seen, and one that is missing is no stronger *)
(* than all that are stored (couchcast_wifi_probe.py:69-97, probe.py:55-88). *)
StrongestAreStored ==
    \A e \in loaded : Report(e) # None =>
       LET kept == Report(e).networks
           rows == Report(e).of
       IN  /\ \A i, j \in DOMAIN kept :
                 i < j => /\ kept[i].bssid # kept[j].bssid
                          /\ kept[i].signal >= kept[j].signal
           /\ \A i \in WellFormed(rows) :
                 \/ \E n \in ToSet(kept) :
                       n.bssid = rows[i].bssid /\ n.signal >= rows[i].signal
                 \/ /\ Len(kept) = MaxNetworks
                    /\ \A n \in ToSet(kept) : n.signal >= rows[i].signal

(* While the entry and those before it are set up, a survey that is handled *)
(* is stored, so that the limits of the two programs fit, and the collector *)
(* is told so unless it has given up                                        *)
(* (couchcast_wifi_probe.py:50-111, probe.py:44-96, __init__.py:83-94).     *)
InService == Target \in loaded /\ \A e \in listed : e < Target => e \in loaded
Fresh == Report(Target) # None /\ Report(Target).of = sent
SurveysAreStored ==
    [][InService /\ Posted # {} /\ Posted' = {}
       => Fresh' /\ (collector = "posting" => collector' = "delivered")]_vars

(* A radio keeps its interfaces over rediscoveries, whether its device     *)
(* tells its product or not: entities made at setup speak of the radio     *)
(* that is polled (api.py:112-120, parser.py:22-104).                      *)
RadiosKeepPlace ==
    [][\A e \in Entries : \A r \in radios[e], s \in radios'[e] :
          r.mac = s.mac /\ r.band = s.band => r = s]_vars

(* Once these entries stay set up, the latest survey is stored again and   *)
(* again: a lost one is made up for by the next (ha-wifi-probe.timer:3-8,  *)
(* couchcast_wifi_probe.py:114-127, __init__.py:77-94).                    *)
SurveysArrive == <>[]InService => []<>Fresh
=============================================================================
