--------------------------- MODULE OwnershipRules ---------------------------
(***************************************************************************)
(* How a network client is joined to a device of Home Assistant            *)
(* (ownership.py): the index that is built from the registries, the match  *)
(* of a client in it, and the suggestions for a client without a match.    *)
(*                                                                         *)
(* Texts are opaque.  What the code learns from them by regular            *)
(* expressions and string comparisons is given by operator constants.      *)
(***************************************************************************)
EXTENDS Integers, FiniteSets

CONSTANTS N,              \* devices are numbered as the registry lists them
          Macs, Ips,      \* canonical addresses
          MacOf(_),       \* normalize_mac: the address a text is, or None
          MacsIn(_),      \* macs_in_identifier: the addresses it contains
          IpOf(_),        \* normalize_ip
          Size(_),        \* the length of a compacted text (_compact)
          Within(_, _),   \* one compacted text is a substring of another
          Terms(_),       \* _terms: its words of three letters or more
          Before(_, _),   \* the order of two names, case folded
          GenericNames,   \* names many clients have: "wlan0", ...
          RootTerms,      \* "basestation", "gateway", "bridge"
          MaxSuggestions, \* 3 in the code
          None

Devices == 1..N

\* The integrations that only see a device on the network.
NetworkSources == {"asusrouter", "asus_wifi_diagnostics"}

(***************************************************************************)
(* A registry maps each device to None or to what the device registry, the *)
(* entity registry and the live states say of it: the integrations behind  *)
(* its entities and identifiers; the texts that may hold its addresses;    *)
(* name, manufacturer, model and area; and the device it is reached via.   *)
(***************************************************************************)
Known(registry) == {d \in Devices : registry[d] # None}

Owned(device) == device.integrations \ NetworkSources # {}

MacsOf(device) == {MacOf(t) : t \in device.connections \union device.macs}
                  \union UNION {MacsIn(t) : t \in device.identifiers}

IpsOf(device) == {IpOf(t) : t \in device.ips \union device.url}

\* Slip: a network source counts as another owner.
SoleClaimant(registry, claimants) ==
    IF \E d \in claimants : claimants = {d} /\ Owned(registry[d])
    THEN CHOOSE d \in claimants : TRUE ELSE None

\* _unique_records: the one device that is not only a network source.
SoleOwner(registry, claimants) ==
    LET owners == {d \in claimants : Owned(registry[d])}
    IN  IF \E d \in owners : owners = {d} THEN CHOOSE d \in owners : TRUE
                                          ELSE None

ClaimMac(registry, m) == {d \in Known(registry) : m \in MacsOf(registry[d])}
ClaimIp(registry, a)  == {d \in Known(registry) : a \in IpsOf(registry[d])}

\* build_ownership_index
BuildIndex(registry) ==
    [byMac      |-> [m \in Macs |-> SoleOwner(registry, ClaimMac(registry, m))],
     byIp       |-> [a \in Ips |-> SoleOwner(registry, ClaimIp(registry, a))],
     byDeviceId |-> registry]

EmptyIndex == BuildIndex([d \in Devices |-> None])

Unmapped == [owner |-> None, method |-> "unmapped"]

(***************************************************************************)
(* OwnershipIndex.resolve: a confirmed device that still exists, else the  *)
(* owner of the MAC address, else the owner of the IP address.             *)
(***************************************************************************)
Resolve(index, overrides, mac, ip) ==
    LET confirmed == IF mac = None THEN None ELSE overrides[mac]
        manual == IF confirmed = None \/ index.byDeviceId[confirmed] = None
                  THEN None ELSE confirmed
        exact == IF mac = None THEN None ELSE index.byMac[mac]
        probable == IF ip = None THEN None ELSE index.byIp[ip]
    IN  IF manual # None THEN [owner |-> manual, method |-> "manual_mac"]
        ELSE IF exact # None
             THEN [owner |-> exact, method |-> "device_registry_mac"]
        ELSE IF probable # None
             THEN [owner |-> probable, method |-> "entity_ip"]
        ELSE Unmapped
-----------------------------------------------------------------------------
(* Suggestions (OwnershipIndex.suggest).                                   *)

SameText(a, b) == Within(a, b) /\ Within(b, a)
Overlap(a, b)  == Within(a, b) \/ Within(b, a)

\* The evidence of name and model.
NameScore(client, device) ==
    IF SameText(client, device.name) THEN 100
    ELSE IF Size(device.name) >= 5 /\ Overlap(client, device.name) THEN 90
    ELSE 0

ModelScore(client, device) ==
    IF Size(device.model) >= 4 /\ Overlap(client, device.model) THEN 85 ELSE 0

MadeBy(client, device) ==
    /\ Size(device.manufacturer) > 0
    /\ \/ Within(device.manufacturer, client)
       \/ Terms(device.manufacturer) \intersect Terms(client) # {}

Greater(a, b) == IF a >= b THEN a ELSE b

\* Slip: the area counts without other evidence.
ScoreNearby(client, area, device) ==
    LET maker == IF MadeBy(client, device) THEN 55 ELSE 0
        named == Greater(Greater(NameScore(client, device),
                                 ModelScore(client, device)), maker)
        near == IF area # None /\ device.area = area THEN named + 10 ELSE named
    IN  IF near > 100 THEN 100 ELSE near

Score(client, area, device) ==
    LET maker == IF MadeBy(client, device) THEN 55 ELSE 0
        named == Greater(Greater(NameScore(client, device),
                                 ModelScore(client, device)), maker)
        near == IF named >= 85 /\ area # None /\ device.area = area
                THEN named + 10 ELSE named
    IN  IF near > 100 THEN 100 ELSE near

OwnedIn(registry) == {d \in Known(registry) : Owned(registry[d])}

\* The devices of the client's maker that others are reached via.
RootsFor(registry, client) ==
    LET family == {d \in OwnedIn(registry) : MadeBy(client, registry[d])}
    IN  {d \in family : /\ registry[d].via = None
                        /\ \E child \in family : registry[child].via = d}

\* The only root, when the client is a base station.
RootFor(registry, client) ==
    IF \E t \in RootTerms : Within(t, client)
    THEN {d \in RootsFor(registry, client) : RootsFor(registry, client) = {d}}
    ELSE {}

Scored(registry, client, area) ==
    LET root == RootFor(registry, client)
    IN  {[device |-> d, score |-> Score(client, area, registry[d]), place |-> d] :
            d \in {e \in OwnedIn(registry) \ root :
                      Score(client, area, registry[e]) >= 65}}
        \union {[device |-> d, score |-> 95, place |-> N + 1] : d \in root}

\* Slip: an equally long name is more specific, too.
OutdoneByEqual(registry, a, b) ==
    LET name == registry[a.device].name
        other == registry[b.device].name
    IN  /\ a.device # b.device
        /\ Within(name, other)
        /\ a.score <= b.score

\* The name of b is more specific than that of a, and b scores as well.
Outdone(registry, a, b) ==
    LET name == registry[a.device].name
        other == registry[b.device].name
    IN  /\ a.device # b.device
        /\ Size(name) < Size(other)
        /\ Within(name, other)
        /\ a.score <= b.score

Candidates(registry, client, area) ==
    LET all == Scored(registry, client, area)
    IN  {a \in all : ~ \E b \in all : Outdone(registry, a, b)}

\* Their order: the score, then the name; equals keep their places.
Ahead(registry, a, b) ==
    LET name == registry[a.device].name
        other == registry[b.device].name
    IN  \/ a.score > b.score
        \/ /\ a.score = b.score
           /\ \/ Before(name, other)
              \/ ~Before(other, name) /\ a.place < b.place

Nameless(client) == client = None \/ Size(client) < 4 \/ client \in GenericNames

Suggest(registry, client, area) ==
    IF Nameless(client) THEN {}
    ELSE LET ranked == Candidates(registry, client, area)
         IN  {a \in ranked : Cardinality({b \in ranked : Ahead(registry, b, a)})
                                < MaxSuggestions}
=============================================================================
