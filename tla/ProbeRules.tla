----------------------------- MODULE ProbeRules -----------------------------
(***************************************************************************)
(* A survey of the Wi-Fi probe on its way: the payload the collector makes  *)
(* of what nmcli prints (collector/couchcast_wifi_probe.py), and what is    *)
(* left of a payload after its validation (probe.py).                       *)
(***************************************************************************)
EXTENDS Ranking, Sequences, SequencesExt

CONSTANTS MaxNetworks,  \* 128 on both sides
          Invalid       \* what an invalid payload is parsed to

ASSUME MaxNetworksAssumption == MaxNetworks \in Nat \ {0}

(***************************************************************************)
(* A row of nmcli, or an entry of a payload, has a bssid, an ssid, a signal *)
(* and says whether it is well formed.  A row is if its numbers can be read: *)
(* those of nmcli are taken to be in the ranges the integration accepts.    *)
(***************************************************************************)
WellFormed(rows) == {i \in DOMAIN rows : rows[i].wellFormed}

Repeats(rows, i) == {j \in WellFormed(rows) : rows[j].bssid = rows[i].bssid}

\* Where a dictionary of the networks has the one of row i.
Place(rows, i) == CHOOSE j \in Repeats(rows, i) : \A k \in Repeats(rows, i) : j <= k

\* list.sort(key=signal, reverse=True), which keeps the order of equals.
Precedes(rows, i, j) == \/ rows[i].signal > rows[j].signal
                        \/ /\ rows[i].signal = rows[j].signal
                           /\ Place(rows, i) < Place(rows, j)
Sorted(rows, kept) ==
    LET order == InOrder(kept, {p \in kept \X kept : Precedes(rows, p[1], p[2])})
    IN  [k \in DOMAIN order |-> rows[order[k]]]

\* Slip: of several sightings the first one is kept.
BestOfFirst(rows) ==
    {i \in WellFormed(rows) : \A j \in Repeats(rows, i) : i <= j}
\* The first of the strongest sightings of each network; malformed rows are skipped.
Best(rows) ==
    {i \in WellFormed(rows) :
        \A j \in Repeats(rows, i) : \/ rows[i].signal > rows[j].signal
                                    \/ (rows[i].signal = rows[j].signal /\ i <= j)}

\* Slip: only the integration has a limit.
Unbounded(networks) == networks
Bounded(networks) == IF Len(networks) > MaxNetworks THEN SubSeq(networks, 1, MaxNetworks)
                                                    ELSE networks

\* collect
Payload(rows) == Bounded(Sorted(rows, Best(rows)))

\* parse_probe_payload: the first entry of each network counts, a repetition is
\* not looked at, and one malformed entry makes the payload invalid.
Parsed(payload) ==
    LET first == {i \in DOMAIN payload :
                     \A j \in 1..(i - 1) : payload[j].bssid # payload[i].bssid}
    IN  IF Len(payload) > MaxNetworks \/ ~ first \subseteq WellFormed(payload)
        THEN Invalid
        ELSE Sorted(payload, first)
=============================================================================
