------------------------------ MODULE HostKeys ------------------------------
(***************************************************************************)
(* Trust on first use: the SSH host keys a config entry has learnt, from   *)
(* the config flow (config_flow.py) over setups and polls (__init__.py and *)
(* api.py, _connect) to what is left of them after Home Assistant stopped, *)
(* crashed and started again.                                              *)
(*                                                                         *)
(* The same keys are in up to three dictionaries: host_keys of the API,    *)
(* the host_keys that save_host_key closes over, and the one in entry.data.*)
(* Some of them are one Python object; `shared` says which.  Home Assistant*)
(* stores the entry some time after it noticed a change of it, and notices *)
(* a change by comparing the old data with the new.                        *)
(***************************************************************************)
CONSTANTS Hosts,       \* the names and addresses the integration connects to
          Controller,  \* the one the user enters
          Keys,        \* fingerprints
          None,        \* no fingerprint, no entry
          MayCrash     \* Home Assistant may die without a last write

ASSUME HostKeysAssumption ==
    /\ Controller \in Hosts
    /\ MayCrash \in BOOLEAN
    /\ None \notin Keys

KeyMaps == [Hosts -> Keys \union {None}]
NoKeys == [h \in Hosts |-> None]

ASSUME NoneIsNoMap == None \notin KeyMaps

VARIABLES server,   \* the key each host really has
          stage,    \* "absent" (there is no entry), "flow" (the dialog connects),
                    \* "unloaded", "setup", "loaded", "down" (Home Assistant is)
          entry,    \* host_keys in entry.data, None without an entry
          closure,  \* host_keys of async_setup_entry, or fingerprints of the flow
          api,      \* self.host_keys of the API
          shared,   \* api and entry: are these the same object as closure?
          adding,   \* the entry is new and its first setup has not ended
          pending,  \* Home Assistant is going to store its entries
          disk,     \* host_keys of the stored entry, None without one
          latest    \* ghost: the key each host had when it was last accepted

memory == <<stage, entry, closure, api, shared, adding>>
vars == <<memory, server, pending, disk, latest>>

HasApi == stage \in {"flow", "setup", "loaded"}

Init == /\ server \in [Hosts -> Keys]
        /\ stage = "absent"
        /\ entry = None
        /\ closure = NoKeys
        /\ api = NoKeys
        /\ shared = [api |-> FALSE, entry |-> FALSE]
        /\ adding = FALSE
        /\ pending = FALSE
        /\ disk = None
        /\ latest = NoKeys

\* Slip: a setup starts with no keys.
CopiedNothing(keys) == NoKeys
\* dict(entry.data.get(CONF_HOST_KEYS, {}))
Copied(keys) == keys

\* An API is made from keys: `host_keys or {}` is that dictionary unless empty.
NewApi(keys) == /\ closure' = keys
                /\ api' = keys
                /\ shared' = [api |-> keys # NoKeys, entry |-> FALSE]

DropApi == /\ closure' = NoKeys
           /\ api' = NoKeys
           /\ shared' = [api |-> FALSE, entry |-> FALSE]

\* The user submits the form: a new API without keys, and a record of its own.
BeginFlow ==
    /\ stage = "absent"
    /\ stage' = "flow"
    /\ NewApi(NoKeys)
    /\ latest' = NoKeys
    /\ UNCHANGED <<server, entry, adding, pending, disk>>

\* discover_nodes raised, and the form is shown again.
FlowFails ==
    /\ stage = "flow"
    /\ stage' = "absent"
    /\ DropApi
    /\ UNCHANGED <<server, entry, adding, pending, disk, latest>>

\* Slip: the entry is made of what the form asked for.
CreateEntryBare ==
    /\ stage = "flow"
    /\ closure[Controller] # None
    /\ stage' = "unloaded"
    /\ entry' = NoKeys
    /\ adding' = TRUE
    /\ DropApi
    /\ UNCHANGED <<server, pending, disk, latest>>

\* discover_nodes returned, so the controller was reached: the entry is made.
CreateEntry ==
    /\ stage = "flow"
    /\ closure[Controller] # None
    /\ stage' = "unloaded"
    /\ entry' = closure
    /\ adding' = TRUE
    /\ DropApi
    /\ UNCHANGED <<server, pending, disk, latest>>

\* async_setup_entry up to its await; also a setup that is retried.
BeginSetup ==
    /\ stage = "unloaded"
    /\ stage' = "setup"
    /\ NewApi(Copied(entry))
    /\ UNCHANGED <<server, entry, adding, pending, disk, latest>>

\* A setup ends.  After the first one Home Assistant stores the new entry.
EndSetup(to) ==
    /\ stage = "setup"
    /\ stage' = to
    /\ adding' = FALSE
    /\ pending' = (pending \/ adding)
    /\ UNCHANGED <<server, entry, disk, latest>>

\* The first refresh needs the controller, which then has been accepted.
SetupDone == /\ api[Controller] # None
             /\ EndSetup("loaded")
             /\ UNCHANGED <<closure, api, shared>>

SetupFails == EndSetup("unloaded") /\ DropApi

\* The entry is reloaded or disabled.
Unload == /\ stage = "loaded"
          /\ stage' = "unloaded"
          /\ DropApi
          /\ UNCHANGED <<server, entry, adding, pending, disk, latest>>

\* Slip: a changed key is enrolled like a new one.
RefusedNever(h) == FALSE
\* A key is known and this is another: the connection is closed.
Refused(h) == api[h] # None /\ api[h] # server[h]

\* Slip: only the API remembers a new key, unless the dictionary is shared.
RecordedBySharing(h) == IF shared.api THEN [closure EXCEPT ![h] = server[h]] ELSE closure
\* save_host_key (or record_key of the flow): host_keys[host] = fingerprint
Recorded(h) == [closure EXCEPT ![h] = server[h]]

(***************************************************************************)
(* async_update_entry(entry, data={**entry.data, HOST_KEYS: host_keys}),   *)
(* where host_keys has just been changed: Home Assistant sees no change    *)
(* when the entry already holds that very dictionary.                      *)
(***************************************************************************)
UpdateEntry(keys) ==
    LET before == IF shared.entry THEN keys ELSE entry
    IN  /\ entry' = keys
        /\ shared' = [shared EXCEPT !.entry = @ \/ before # keys]
        /\ pending' = (pending \/ before # keys)

\* _connect reaches host h and does not refuse it: a poll, a discovery or the
\* flow goes on.  A new key is enrolled in the same step, after the await.
Connect(h) ==
    /\ HasApi
    /\ ~Refused(h)
    /\ latest' = [latest EXCEPT ![h] = server[h]]
    /\ IF api[h] = server[h]
       THEN UNCHANGED <<entry, closure, api, shared, pending>>
       ELSE /\ api' = [api EXCEPT ![h] = server[h]]
            /\ closure' = Recorded(h)
            /\ IF stage = "flow" THEN UNCHANGED <<entry, shared, pending>>
                                 ELSE UpdateEntry(Recorded(h))
    /\ UNCHANGED <<server, stage, adding, disk>>
-----------------------------------------------------------------------------
(* Home Assistant and the routers.                                         *)

\* A router is reset or replaced and has a new key.
Rekey(h, key) == /\ server' = [server EXCEPT ![h] = key]
                 /\ UNCHANGED <<memory, pending, disk, latest>>

\* Another entry, or other data of this one, change and are to be stored.
OtherChange == /\ stage # "down"
               /\ pending' = TRUE
               /\ UNCHANGED <<memory, server, disk, latest>>

\* The delayed write, which stores what the entries hold by then.
Write == /\ pending
         /\ pending' = FALSE
         /\ disk' = entry
         /\ UNCHANGED <<memory, server, latest>>

Halt == /\ stage # "down"
        /\ stage' = "down"
        /\ entry' = None
        /\ adding' = FALSE
        /\ DropApi
        /\ pending' = FALSE
        /\ UNCHANGED <<server, latest>>

\* An orderly stop lets a running setup end, and writes what waits to be written.
Stop == /\ stage # "setup"
        /\ Halt
        /\ disk' = IF pending THEN entry ELSE disk

Crash == MayCrash /\ Halt /\ UNCHANGED disk

Started == IF disk = None THEN "absent" ELSE "unloaded"

Start == /\ stage = "down"
         /\ stage' = Started
         /\ entry' = disk
         /\ UNCHANGED <<server, closure, api, shared, adding, pending, disk, latest>>

Next == \/ BeginFlow \/ FlowFails \/ CreateEntry
        \/ BeginSetup \/ SetupDone \/ SetupFails \/ Unload
        \/ \E h \in Hosts : Connect(h)
        \/ \E h \in Hosts, key \in Keys : Rekey(h, key)
        \/ OtherChange \/ Write \/ Stop \/ Crash \/ Start

Spec == Init /\ [][Next]_vars
-----------------------------------------------------------------------------
(* Type invariant: there is an entry exactly in the stages that need one,  *)
(* it is never only on disk while Home Assistant runs, and what is known,  *)
(* or stored, of an entry includes the key of its controller.              *)
TypeOK == /\ server \in [Hosts -> Keys]
          /\ stage \in {"absent", "flow", "unloaded", "setup", "loaded", "down"}
          /\ entry \in KeyMaps \union {None}
          /\ entry # None <=> stage \in {"unloaded", "setup", "loaded"}
          /\ closure \in KeyMaps /\ api \in KeyMaps
          /\ shared \in [api : BOOLEAN, entry : BOOLEAN]
          /\ adding \in BOOLEAN /\ pending \in BOOLEAN
          /\ disk \in KeyMaps \union {None}
          /\ disk # None => entry # None \/ stage = "down"
          /\ \A keys \in {entry, disk} : keys # None => keys[Controller] # None
          /\ latest \in KeyMaps

(* The dictionaries agree whichever of them are one object: the keys the   *)
(* API compares with are the keys the entry holds, so what is refused now  *)
(* is refused after a reload, and nothing else (api.py:62, 84-91,          *)
(* __init__.py:32-38).                                                     *)
DictionariesAgree ==
    HasApi => api = closure /\ (stage # "flow" => entry = closure)

(* A key that is stored is enforced: no connection is accepted with        *)
(* another one, over any number of setups, crashes and writes of entries   *)
(* that were changed in place (api.py:84-88, __init__.py:32-38).           *)
SavedKeysAreEnforced ==
    [][\A h \in Hosts :
          latest'[h] # latest[h] /\ latest'[h] # None /\ disk # None
          => disk[h] \in {None, latest'[h]}]_vars

(* The entry keeps the promise of TrustOnFirstUse: keys in force are learnt *)
(* once, and of what was stored nothing is lost or replaced, although three *)
(* dictionaries hold them and setups copy them (api.py:62-91,               *)
(* __init__.py:32-38, config_flow.py:59-110).                               *)
InForce == IF entry # None THEN entry
           ELSE IF stage = "down" /\ disk # None THEN disk
           ELSE closure

Promise == INSTANCE TrustOnFirstUse
               WITH known  <- InForce,
                    stored <- IF disk = None THEN NoKeys ELSE disk

TrustsOnFirstUse == Promise!Spec

(* README.md:146 : "Host-key fingerprints are recorded after the first     *)
(* successful connection and later changes are rejected."  A host of an    *)
(* entry is never accepted with another key than before.                   *)
ChangesAreRejected ==
    [][\A h \in Hosts :
          latest[h] # None /\ latest'[h] # latest[h] => stage = "absent"]_vars
=============================================================================
