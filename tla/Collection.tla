----------------------------- MODULE Collection -----------------------------
(***************************************************************************)
(* One poll of the routers after another (api.py, collect and              *)
(* _collect_node), with the Wi-Fi clients moving while commands run.       *)
(*                                                                         *)
(* The radios are numbered as in the coordinator's list of nodes.  The     *)
(* hosts are polled concurrently, the radios of one host one after the     *)
(* other; each radio is asked for its counters and associated stations,    *)
(* then, if there are any, for the statistics of those stations, and now   *)
(* and then told to scan its channel.  A command that is running is a      *)
(* stage; its end is a step.  Counters, scan results and names are left    *)
(* out: what remains of a snapshot is the set of its stations.             *)
(***************************************************************************)
EXTENDS Naturals, Sequences

CONSTANTS Hosts,         \* the physical nodes
          HostOf,        \* the host of every radio, a sequence
          Clients,       \* Wi-Fi clients
          ScanInterval,  \* _PASSIVE_SCAN_INTERVAL_SECONDS
          None           \* no radio, no snapshot

Radios == DOMAIN HostOf

ASSUME CollectionAssumption ==
    /\ HostOf \in Seq(Hosts)
    /\ ScanInterval \in Nat \ {0}
    /\ None \notin Radios
    /\ \A S \in SUBSET Clients : None # S

VARIABLES running,  \* a poll is in flight
          stage,    \* what is happening to each radio in this poll
          listed,   \* the assoclist of a radio while its collection runs
          result,   \* results[index] of the running poll: the stations, or
                    \* None for an exception
          shown,    \* the snapshots of the latest completed poll
          scanAge,  \* age of _last_passive_scan of each radio
          where,    \* the radio each client is associated with, or None
          ghost     \* what really happened in this poll, for the properties:
                    \* visited (the places each client was at), answered (the
                    \* radios whose host answered so far)

vars == <<running, stage, listed, result, shown, scanAge, where, ghost>>

InFlight == {"main", "stations", "scan"}
Stages == {"waiting", "done"} \union InFlight

Init == /\ running = FALSE
        /\ stage = [i \in Radios |-> "done"]
        /\ listed = [i \in Radios |-> {}]
        /\ result = [i \in Radios |-> None]
        /\ shown = [i \in Radios |-> None]
        /\ scanAge = [i \in Radios |-> ScanInterval]
        /\ where \in [Clients -> Radios \union {None}]
        /\ ghost = [visited  |-> [c \in Clients |-> {}],
                    answered |-> {}]

\* collect: the lease table has been read (or not, which only costs names).
Begin == /\ ~running
         /\ running' = TRUE
         /\ stage' = [i \in Radios |-> "waiting"]
         /\ ghost' = [ghost EXCEPT !.visited = [c \in Clients |-> {where[c]}],
                                   !.answered = Radios]
         /\ UNCHANGED <<listed, result, shown, scanAge, where>>

\* Slip: all radios are gathered concurrently.
MayStartAtOnce(i) == stage[i] = "waiting"
\* Slip: a radio waits for all others of its host.
MayStartLast(i) ==
    /\ stage[i] = "waiting"
    /\ \A j \in Radios \ {i} : HostOf[j] = HostOf[i] => stage[j] = "done"

\* collect_host works through the radios of its host in order.
MayStart(i) ==
    /\ stage[i] = "waiting"
    /\ \A j \in Radios : j < i /\ HostOf[j] = HostOf[i] => stage[j] = "done"

StartRadio(i) ==
    /\ running
    /\ MayStart(i)
    /\ stage' = [stage EXCEPT ![i] = "main"]
    /\ UNCHANGED <<running, listed, result, shown, scanAge, where, ghost>>

ScanDue(i) == scanAge[i] >= ScanInterval

\* _collect_node of radio i returns a snapshot with these stations.
Complete(i, stations) == /\ stage' = [stage EXCEPT ![i] = "done"]
                         /\ listed' = [listed EXCEPT ![i] = {}]
                         /\ result' = [result EXCEPT ![i] = stations]

\* Radio i has its stations: it scans if it is time to, or is complete.
ScanOrComplete(i, stations) ==
    IF ScanDue(i)
    THEN /\ stage' = [stage EXCEPT ![i] = "scan"]
         /\ listed' = [listed EXCEPT ![i] = stations]
         /\ UNCHANGED result
    ELSE Complete(i, stations)

\* The command that reads counters and assoclist succeeds.
EndMain(i) ==
    LET stations == {c \in Clients : where[c] = i}
    IN  /\ stage[i] = "main"
        /\ IF stations = {}
           THEN ScanOrComplete(i, stations)
           ELSE /\ stage' = [stage EXCEPT ![i] = "stations"]
                /\ listed' = [listed EXCEPT ![i] = stations]
                /\ UNCHANGED result
        /\ UNCHANGED <<running, shown, scanAge, where, ghost>>

\* Slip: an exception ends the collection of the whole host.
GiveUpHost(i) ==
    /\ stage' = [j \in Radios |-> IF HostOf[j] = HostOf[i] THEN "done" ELSE stage[j]]
    /\ listed' = [j \in Radios |-> IF HostOf[j] = HostOf[i] THEN {} ELSE listed[j]]
    /\ UNCHANGED result

\* _collect_node of radio i raises: its result is the exception, and the next
\* radio of the host has its turn.
GiveUp(i) == /\ stage' = [stage EXCEPT ![i] = "done"]
             /\ listed' = [listed EXCEPT ![i] = {}]
             /\ UNCHANGED result

\* A command cannot connect, times out, or answers something unexpected.  (A
\* scan that fails so is EndScan; here it raises what no handler expects.)
CommandFails(i) ==
    /\ stage[i] \in InFlight
    /\ GiveUp(i)
    /\ ghost' = [ghost EXCEPT !.answered = @ \ {i}]
    /\ UNCHANGED <<running, shown, scanAge, where>>

\* Slip: a line that names no station is kept as a station.
StationsAndNone(i) == listed[i] \union {None}

\* Every listed station is parsed, also one that answered nothing.
StationsOf(i) == listed[i]

\* The statistics of the stations, asked for in one shell loop.  A station
\* that has left makes its `wl sta_info` fail, and the exit status of the loop
\* is that of the last station.
EndStations(i) ==
    /\ stage[i] = "stations"
    /\ \E last \in listed[i] :
          IF where[last] = i THEN ScanOrComplete(i, StationsOf(i))
                             ELSE GiveUp(i)
    /\ UNCHANGED <<running, shown, scanAge, where, ghost>>

\* The passive scan ends.  Only a successful one counts for the interval;
\* a failure is logged and the radio complete all the same.
EndScan(i, ok) ==
    /\ stage[i] = "scan"
    /\ Complete(i, StationsOf(i))
    /\ scanAge' = IF ok THEN [scanAge EXCEPT ![i] = 0] ELSE scanAge
    /\ UNCHANGED <<running, shown, where, ghost>>

\* Slip: a radio that failed keeps its previous snapshot.
FinishKeepsOld ==
    /\ running
    /\ \A i \in Radios : stage[i] = "done"
    /\ running' = FALSE
    /\ shown' = [i \in Radios |-> IF result[i] = None THEN shown[i] ELSE result[i]]
    /\ result' = [i \in Radios |-> None]
    /\ UNCHANGED <<stage, listed, scanAge, where, ghost>>

\* asyncio.gather returns when every host is through.
Finish == /\ running
          /\ \A i \in Radios : stage[i] = "done"
          /\ running' = FALSE
          /\ shown' = result
          /\ result' = [i \in Radios |-> None]
          /\ UNCHANGED <<stage, listed, scanAge, where, ghost>>

\* A client associates with another radio, leaves or joins.
Roam(c, place) ==
    /\ where' = [where EXCEPT ![c] = place]
    /\ ghost' = IF running THEN [ghost EXCEPT !.visited[c] = @ \union {place}]
                           ELSE ghost
    /\ UNCHANGED <<running, stage, listed, result, shown, scanAge>>

Older(age) == IF age < ScanInterval THEN age + 1 ELSE age

Tick == /\ scanAge' = [i \in Radios |-> Older(scanAge[i])]
        /\ UNCHANGED <<running, stage, listed, result, shown, where, ghost>>

Next == \/ Begin
        \/ Finish
        \/ \E i \in Radios : \/ StartRadio(i)
                             \/ EndMain(i)
                             \/ EndStations(i)
                             \/ CommandFails(i)
                             \/ \E ok \in BOOLEAN : EndScan(i, ok)
        \/ \E c \in Clients, place \in Radios \union {None} : Roam(c, place)
        \/ Tick

Spec == Init /\ [][Next]_vars

\* The tasks of a poll run, and every command ends or times out.
Advance(i) == \/ StartRadio(i)
              \/ EndMain(i)
              \/ EndStations(i)
              \/ CommandFails(i)
              \/ \E ok \in BOOLEAN : EndScan(i, ok)

Fairness == WF_vars(Finish) /\ \A i \in Radios : WF_vars(Advance(i))

FairSpec == Spec /\ Fairness
-----------------------------------------------------------------------------
(* association.py, find_association: the first radio that lists the client.*)
Association(c) ==
    LET listing == {i \in Radios : shown[i] # None /\ c \in shown[i]}
    IN  IF listing = {} THEN None ELSE CHOOSE i \in listing : \A j \in listing : i <= j

\* ClientAssociationSensor.native_value is "not_connected", and no radio's name.
NotConnected(c) == Association(c) = None
-----------------------------------------------------------------------------
(* Type invariant: the results hold a snapshot or nothing for every radio. *)
TypeOK == /\ running \in BOOLEAN
          /\ stage \in [Radios -> Stages]
          /\ listed \in [Radios -> SUBSET Clients]
          /\ result \in [Radios -> (SUBSET Clients) \union {None}]
          /\ shown \in [Radios -> (SUBSET Clients) \union {None}]
          /\ scanAge \in [Radios -> 0..ScanInterval]
          /\ where \in [Clients -> Radios \union {None}]
          /\ ghost \in [visited  : [Clients -> SUBSET (Radios \union {None})],
                       answered : SUBSET Radios]

(* No two commands run on one physical node at the same time, whatever     *)
(* fails or takes long (api.py:195-207: "to avoid overlapping wl           *)
(* operations").                                                           *)
NoOverlappingWl ==
    \A i, j \in Radios :
        i # j /\ HostOf[i] = HostOf[j] =>
            ~(stage[i] \in InFlight /\ stage[j] \in InFlight)

(* A radio whose host answered, and none of whose stations left during the *)
(* poll, is in the snapshot: neither the failure of another radio, on the  *)
(* same host or elsewhere, nor a scan that could not be run takes it away  *)
(* (api.py:159-173, 202-207, 235-244).                                     *)
FailuresAreContained ==
    ~running =>
        \A i \in ghost.answered :
            (\A c \in Clients : i \in ghost.visited[c] => ghost.visited[c] = {i})
            => shown[i] # None

(* The association a client is given is one it really had during the poll  *)
(* (association.py:8-23).  A client that stayed at one radio for the whole *)
(* poll is given that radio if the radio's collection succeeded, even when *)
(* clients around it move (api.py:143-157).                                *)
AssociationsAreReal ==
    ~running =>
        \A c \in Clients :
            /\ ~NotConnected(c) => Association(c) \in ghost.visited[c]
            /\ \A i \in Radios :
                  ghost.visited[c] = {i} /\ shown[i] # None => Association(c) = i

(* Every poll ends, whatever fails and however the clients move: each      *)
(* command is bounded by a timeout, and the order of the radios of one     *)
(* host never blocks (api.py:94-103, 202-209).                             *)
PollEnds == running ~> ~running
=============================================================================
