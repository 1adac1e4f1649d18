------------------------------ MODULE Ownership ------------------------------
(***************************************************************************)
(* Ownership over time: the registries of Home Assistant change, every     *)
(* refresh of the coordinator builds a new index (coordinator.py), and the *)
(* options dialogs (config_flow.py) confirm or withdraw manual mappings,   *)
(* each of which makes Home Assistant reload the entry (__init__.py).      *)
(*                                                                         *)
(* The entry copies the mappings twice: the coordinator when it is created *)
(* and the sensor platform (sensor.py), which makes one association sensor *)
(* for each, after the first refresh.  A dialog may end in between.        *)
(*                                                                         *)
(* `stale` is a ghost, which the code does not keep: the registry has      *)
(* changed since the latest refresh.                                       *)
(***************************************************************************)
EXTENDS OwnershipRules

CONSTANTS Written,       \* what a user may enter as a MAC address
          Entries,       \* what the registry may say of each device
          ClientNames,   \* names and areas of clients, None if unknown
          Areas

Mappings == [Macs -> Devices \union {None}]
NoMappings == [m \in Macs |-> None]

AllEntries == UNION {Entries[d] : d \in Devices}

Registries == {r \in [Devices -> AllEntries \union {None}] :
                  \A d \in Devices : r[d] \in Entries[d] \union {None}}

ASSUME OwnershipAssumption ==
    /\ N \in Nat
    /\ None \notin Devices
    /\ None \notin AllEntries
    /\ \A t \in Written : MacOf(t) \in Macs \union {None}
    /\ None \notin Macs \union Ips
    /\ MaxSuggestions \in Nat \ {0}

\* The texts a suggestion compares: a part is never longer than the whole,
\* and names are sorted by a key (casefold), which equal ones share.
Texts == (ClientNames \ {None})
         \union UNION {{e.name, e.manufacturer, e.model} : e \in AllEntries}

ASSUME TextsAssumption ==
    /\ \A a \in Texts : Size(a) \in Nat
    /\ \A a, b \in Texts : Within(a, b) => Size(a) <= Size(b)
    /\ \A a, b \in Texts : Before(a, b) => ~Before(b, a)
    /\ \A a, b, c \in Texts : Before(a, c) => Before(a, b) \/ Before(b, c)

VARIABLES registry,   \* device registry, entity registry and states
          options,    \* the manual mappings in entry.options
          reloading,  \* Home Assistant has scheduled a reload of the entry
          stage,      \* "down", "refreshing" (for the first time) or "loaded"
          overrides,  \* self.manual_overrides of the coordinator
          ownership,  \* self.ownership
          sensors,    \* the mappings behind the association sensors
          stale       \* the index was built before the latest change

vars == <<registry, options, reloading, stage, overrides, ownership, sensors, stale>>

Init == /\ registry \in Registries
        /\ options = NoMappings
        /\ reloading = FALSE
        /\ stage = "down"
        /\ overrides = NoMappings
        /\ ownership = EmptyIndex
        /\ sensors = NoMappings
        /\ stale = FALSE

\* A device or one of its entities appears, changes or disappears.
ChangeDevice(d) ==
    /\ registry' \in {[registry EXCEPT ![d] = e] : e \in Entries[d] \union {None}}
    /\ stale' = TRUE
    /\ UNCHANGED <<options, reloading, stage, overrides, ownership, sensors>>
-----------------------------------------------------------------------------
(* The options dialogs.  Both read entry.options when they are submitted.  *)
(* Home Assistant reloads the entry if the options changed.                *)
Save(mappings) == /\ options' = mappings
                  /\ reloading' = (reloading \/ mappings # options)
                  /\ UNCHANGED <<registry, stage, overrides, ownership, sensors, stale>>

\* Slip: the address is stored as it was written.
AddUnnormalised(text, d) ==
    /\ MacOf(text) # None
    /\ registry[d] # None
    /\ Save([m \in DOMAIN options \union {text} |-> IF m = text THEN d ELSE options[m]])

\* An address that is none and a device that is gone are rejected.
AddMapping(text, d) == /\ MacOf(text) # None
                       /\ registry[d] # None
                       /\ Save([options EXCEPT ![MacOf(text)] = d])

RemoveMapping(m) == /\ options[m] # None
                    /\ Save([options EXCEPT ![m] = None])
-----------------------------------------------------------------------------
(* The entry.                                                              *)

\* async_setup_entry creates a coordinator, which begins its first refresh.
BeginSetup == /\ stage = "down"
              /\ stage' = "refreshing"
              /\ overrides' = options
              /\ ownership' = BuildIndex(registry)
              /\ reloading' = FALSE
              /\ stale' = FALSE
              /\ UNCHANGED <<registry, options, sensors>>

\* Slip: the end of the setup also ends a reload scheduled meanwhile.
FinishSetupServed == /\ stage = "refreshing"
                     /\ stage' = "loaded"
                     /\ sensors' = options
                     /\ reloading' = FALSE
                     /\ UNCHANGED <<registry, options, overrides, ownership, stale>>

\* The first refresh succeeded: the platforms are set up.
FinishSetup == /\ stage = "refreshing"
               /\ stage' = "loaded"
               /\ sensors' = options
               /\ UNCHANGED <<registry, options, reloading, overrides, ownership, stale>>

Discard == /\ stage' = "down"
           /\ overrides' = NoMappings
           /\ ownership' = EmptyIndex
           /\ sensors' = NoMappings

\* The router did not answer: Home Assistant sets the entry up again later.
FailSetup == /\ stage = "refreshing"
             /\ Discard
             /\ UNCHANGED <<registry, options, reloading, stale>>

\* The scheduled reload unloads the entry, once it is set up.
Unload == /\ stage = "loaded"
          /\ reloading
          /\ Discard
          /\ UNCHANGED <<registry, options, reloading, stale>>

\* _async_update_data builds the index before it awaits the router.
Refresh == /\ stage = "loaded"
           /\ ownership' = BuildIndex(registry)
           /\ stale' = FALSE
           /\ UNCHANGED <<registry, options, reloading, stage, overrides, sensors>>

Next == \/ \E d \in Devices : ChangeDevice(d)
        \/ \E text \in Written, d \in Devices : AddMapping(text, d)
        \/ \E m \in Macs : RemoveMapping(m)
        \/ BeginSetup
        \/ FinishSetup
        \/ FailSetup
        \/ Unload
        \/ Refresh

Spec == Init /\ [][Next]_vars
-----------------------------------------------------------------------------
\* What an entity shows for a client: ownership_for.
OwnershipFor(mac, ip) == Resolve(ownership, overrides, mac, ip)

\* The registry as the index remembers it.
Seen == ownership.byDeviceId

(* Type invariant: mappings are kept by canonical address, whatever a user *)
(* wrote.                                                                  *)
TypeOK == /\ registry \in Registries
          /\ options \in Mappings
          /\ reloading \in BOOLEAN
          /\ stage \in {"down", "refreshing", "loaded"}
          /\ overrides \in Mappings
          /\ Seen \in Registries
          /\ ownership = BuildIndex(Seen)
          /\ sensors \in Mappings
          /\ stale \in BOOLEAN

\* The one device that owns an address is more than a network source.
OwnsMac(d, mac) == registry[d] # None /\ Owned(registry[d]) /\ mac \in MacsOf(registry[d])
OwnsIp(d, ip)   == registry[d] # None /\ Owned(registry[d]) /\ ip \in IpsOf(registry[d])
OwnsMacAlone(d, mac) == mac # None /\ \A e \in Devices : OwnsMac(e, mac) <=> e = d
OwnsIpAlone(d, ip)   == ip # None /\ \A e \in Devices : OwnsIp(e, ip) <=> e = d

IsMapped(mac) == mac # None /\ overrides[mac] # None /\ registry[overrides[mac]] # None

(* A refresh sees every change that came before it: from then on, until    *)
(* something changes again, a client without a mapping is matched by its   *)
(* MAC address exactly when one device that is more than a network source  *)
(* claims the address, and by its IP address exactly when one claims that  *)
(* and none alone the MAC address.  No ambiguous claim is decided, no copy *)
(* made by a network integration hides the owner, and no device is matched *)
(* that is gone (ownership.py:73-94, 251-264, coordinator.py:49).          *)
MatchHasOneOwner ==
    stage # "down" /\ ~stale =>
       \A mac \in Macs \union {None}, ip \in Ips \union {None} : ~IsMapped(mac) =>
          \A d \in Devices :
             /\ OwnershipFor(mac, ip) = [owner |-> d, method |-> "device_registry_mac"]
                   <=> OwnsMacAlone(d, mac)
             /\ OwnershipFor(mac, ip) = [owner |-> d, method |-> "entity_ip"]
                   <=> OwnsIpAlone(d, ip) /\ ~ \E e \in Devices : OwnsMacAlone(e, mac)

(* Once no reload is outstanding, what the user confirmed is in force: the *)
(* coordinator and the association sensors know the same mappings, all of  *)
(* them, and a mapped client belongs to its device while that exists,      *)
(* whatever other devices claim its addresses (config_flow.py:150-153).    *)
ConfirmationsInForce ==
    stage = "loaded" /\ ~reloading =>
       /\ overrides = options
       /\ sensors = options
       /\ \A m \in Macs, ip \in Ips \union {None} :
             options[m] # None /\ Seen[options[m]] # None =>
                OwnershipFor(m, ip) = [owner |-> options[m], method |-> "manual_mac"]

(* Preferring specific names never loses all candidates: a client that any *)
(* device resembles enough is offered a suggestion, and among them one of  *)
(* the best score (ownership.py:204-216).                                  *)
BestIsSuggested ==
    \A client \in ClientNames, area \in Areas \union {None} :
       LET all == Scored(Seen, client, area)
       IN  ~Nameless(client) /\ all # {} =>
              \E s \in Suggest(Seen, client, area) :
                 \A other \in all : other.score <= s.score

(* Manufacturer and area alone never suggest a device: each suggested one  *)
(* resembles the client in name or model, or is the only root of the       *)
(* client's maker; and they are at most MaxSuggestions.                    *)
SuggestionsHaveEvidence ==
    \A client \in ClientNames, area \in Areas \union {None} :
       LET suggested == Suggest(Seen, client, area)
       IN  /\ Cardinality(suggested) <= MaxSuggestions
           /\ \A s \in suggested :
                 LET device == Seen[s.device]
                 IN  \/ \E text \in {device.name, device.model} :
                           Size(text) >= 4 /\ Overlap(client, text)
                     \/ RootsFor(Seen, client) = {s.device}
=============================================================================
