--------------------------- MODULE HostKeysProofs ---------------------------
(***************************************************************************)
(* Theorems about HostKeys, for any hosts and fingerprints, with crashes.  *)
(***************************************************************************)
EXTENDS HostKeys, TLAPS

\* What is stored is part of what the entry holds, and a stored entry exists.
StoredIsKnown ==
    /\ stage \in {"absent", "flow"} => disk = None
    /\ entry # None /\ disk # None =>
          \A h \in Hosts : disk[h] # None => entry[h] = disk[h]

\* Without an API there are no dictionaries of it; a stop leaves no write.
Quiet == /\ ~HasApi => closure = NoKeys
         /\ stage = "down" => ~pending

KeyInv == TypeOK /\ DictionariesAgree /\ StoredIsKnown /\ Quiet

LEMMA NoKeysTyped == NoKeys \in KeyMaps
  BY DEF NoKeys, KeyMaps

LEMMA KeyInit == Init => KeyInv
<1> SUFFICES ASSUME Init PROVE KeyInv
  OBVIOUS
<1>1. TypeOK
  BY NoKeysTyped DEF Init, TypeOK
<1>2. DictionariesAgree /\ StoredIsKnown /\ Quiet
  BY DEF Init, DictionariesAgree, StoredIsKnown, Quiet, HasApi
<1>3. QED
  BY <1>1, <1>2 DEF KeyInv
-----------------------------------------------------------------------------
(* What the steps do to the keys in force and the stored ones.             *)

(* A connection either finds the key it expects, or none and then adds it   *)
(* to every dictionary that exists (api.py:84-91, __init__.py:34-38).       *)
LEMMA ConnectEnrols ==
  ASSUME KeyInv, NEW h \in Hosts, Connect(h)
  PROVE  \/ /\ api[h] = server[h]
            /\ UNCHANGED <<entry, closure, api, shared, pending>>
         \/ /\ api[h] = None
            /\ closure' = [closure EXCEPT ![h] = server[h]]
            /\ api' = closure'
            /\ closure' \in KeyMaps
            /\ \/ stage = "flow" /\ UNCHANGED <<entry, shared, pending>>
               \/ /\ stage # "flow"
                  /\ entry' = [entry EXCEPT ![h] = server[h]]
                  /\ entry' = closure'
                  /\ shared' \in [api : BOOLEAN, entry : BOOLEAN]
                  /\ pending' \in BOOLEAN
<1>1. CASE api[h] = server[h]
  BY <1>1 DEF Connect
<1>2. CASE api[h] # server[h]
  <2>1. api[h] = None
    BY <1>2 DEF Connect, Refused
  <2>2. api = closure /\ (stage # "flow" => entry = closure)
    BY DEF Connect, KeyInv, DictionariesAgree
  <2>3. /\ closure' = [closure EXCEPT ![h] = server[h]]
        /\ api' = closure'
        /\ closure' \in KeyMaps
    BY <1>2, <2>2 DEF Connect, Recorded, KeyInv, TypeOK, KeyMaps
  <2>4. CASE stage = "flow"
    BY <1>2, <2>1, <2>3, <2>4 DEF Connect
  <2>5. CASE stage # "flow"
    <3>1. UpdateEntry(Recorded(h))
      BY <1>2, <2>5 DEF Connect
    <3>2. entry' = [entry EXCEPT ![h] = server[h]] /\ entry' = closure'
      BY <3>1, <2>2, <2>3, <2>5 DEF UpdateEntry, Recorded
    <3>3. shared' \in [api : BOOLEAN, entry : BOOLEAN] /\ pending' \in BOOLEAN
      BY <3>1 DEF UpdateEntry, KeyInv, TypeOK
    <3>4. QED
      BY <2>1, <2>3, <2>5, <3>2, <3>3
  <2>6. QED
    BY <2>4, <2>5
<1>3. QED
  BY <1>1, <1>2

LEMMA ConnectKeeps ==
  ASSUME KeyInv, NEW h \in Hosts, Connect(h)
  PROVE  KeyInv'
<1>1. /\ HasApi /\ UNCHANGED <<server, stage, adding, disk>>
      /\ latest' = [latest EXCEPT ![h] = server[h]]
  BY DEF Connect
<1>2. server[h] \in Keys /\ server[h] # None /\ latest' \in KeyMaps
  BY <1>1, HostKeysAssumption DEF KeyInv, TypeOK, KeyMaps
<1>3. CASE UNCHANGED <<entry, closure, api, shared, pending>>
  BY <1>1, <1>2, <1>3
     DEF KeyInv, TypeOK, DictionariesAgree, StoredIsKnown, Quiet, HasApi
<1>4. CASE ~UNCHANGED <<entry, closure, api, shared, pending>>
  <2>1. /\ api[h] = None
        /\ closure' = [closure EXCEPT ![h] = server[h]]
        /\ api' = closure' /\ closure' \in KeyMaps
    BY <1>4, ConnectEnrols
  <2>2. DictionariesAgree'
    BY <1>1, <1>4, <2>1, ConnectEnrols DEF DictionariesAgree, HasApi
  <2>3. CASE stage = "flow"
    <3>1. UNCHANGED <<entry, shared, pending>>
      BY <1>4, <2>3, ConnectEnrols
    <3>2. TypeOK' /\ StoredIsKnown' /\ Quiet'
      BY <1>1, <1>2, <2>1, <2>3, <3>1
         DEF KeyInv, TypeOK, StoredIsKnown, Quiet, HasApi
    <3>3. QED
      BY <2>2, <3>2 DEF KeyInv
  <2>4. CASE stage # "flow"
    <3>1. /\ entry' = [entry EXCEPT ![h] = server[h]]
          /\ entry' = closure'
          /\ shared' \in [api : BOOLEAN, entry : BOOLEAN]
          /\ pending' \in BOOLEAN
      BY <1>4, <2>4, ConnectEnrols
    <3>2. stage \in {"setup", "loaded"} /\ entry # None /\ entry = api
      BY <1>1, <2>4 DEF HasApi, KeyInv, TypeOK, DictionariesAgree
    <3>3. TypeOK'
      <4>1. entry'[Controller] # None
        BY <1>2, <3>1, <3>2, HostKeysAssumption DEF KeyInv, TypeOK, KeyMaps
      <4>2. QED
        BY <1>1, <1>2, <2>1, <3>1, <3>2, <4>1, NoneIsNoMap DEF KeyInv, TypeOK
    <3>4. ASSUME disk # None, NEW g \in Hosts, disk[g] # None
          PROVE  entry'[g] = disk[g]
      <4>1. entry[g] = disk[g]
        BY <3>2, <3>4 DEF KeyInv, StoredIsKnown
      <4>2. g # h
        BY <4>1, <3>4, <3>2, <2>1
      <4>3. QED
        BY <4>1, <4>2, <3>1, <3>2 DEF KeyInv, TypeOK, KeyMaps
    <3>5. StoredIsKnown' /\ Quiet'
      BY <1>1, <3>2, <3>4 DEF StoredIsKnown, Quiet, HasApi
    <3>6. QED
      BY <2>2, <3>3, <3>5 DEF KeyInv
  <2>5. QED
    BY <2>3, <2>4
<1>5. QED
  BY <1>3, <1>4

(* The steps of the dialog, of setups and of Home Assistant.               *)
LEMMA OthersKeep ==
  ASSUME KeyInv,
         \/ BeginFlow \/ FlowFails \/ CreateEntry
         \/ BeginSetup \/ SetupDone \/ SetupFails \/ Unload
         \/ \E h \in Hosts, key \in Keys : Rekey(h, key)
         \/ OtherChange \/ Write \/ Stop \/ Crash \/ Start
         \/ UNCHANGED vars
  PROVE  KeyInv'
<1> USE NoKeysTyped, NoneIsNoMap DEF KeyInv, TypeOK, StoredIsKnown, Quiet, HasApi,
        DictionariesAgree
<1>1. CASE BeginFlow
  BY <1>1 DEF BeginFlow, NewApi
<1>2. CASE FlowFails
  BY <1>2 DEF FlowFails, DropApi
<1>3. CASE CreateEntry
  BY <1>3 DEF CreateEntry, DropApi
<1>4. CASE BeginSetup
  BY <1>4 DEF BeginSetup, NewApi, Copied
<1>5. CASE SetupDone
  BY <1>5 DEF SetupDone, EndSetup
<1>6. CASE SetupFails
  BY <1>6 DEF SetupFails, EndSetup, DropApi
<1>7. CASE Unload
  BY <1>7 DEF Unload, DropApi
<1>8. CASE \E h \in Hosts, key \in Keys : Rekey(h, key)
  BY <1>8 DEF Rekey, memory
<1>9. CASE OtherChange
  BY <1>9 DEF OtherChange, memory
<1>10. CASE Write
  BY <1>10 DEF Write, memory
<1>11. CASE Stop \/ Crash
  <2>1. /\ stage' = "down" /\ entry' = None /\ adding' = FALSE /\ pending' = FALSE
        /\ closure' = NoKeys /\ api' = NoKeys
        /\ shared' = [api |-> FALSE, entry |-> FALSE]
        /\ UNCHANGED <<server, latest>>
    BY <1>11 DEF Stop, Crash, Halt, DropApi
  <2>2. disk' \in {entry, disk}
    BY <1>11 DEF Stop, Crash
  <2>3. TypeOK'
    BY <2>1, <2>2
  <2>4. DictionariesAgree' /\ StoredIsKnown' /\ Quiet'
    BY <2>1
  <2>5. QED
    BY <2>3, <2>4
<1>12. CASE Start
  BY <1>12 DEF Start, Started
<1>13. CASE UNCHANGED vars
  BY <1>13 DEF vars, memory
<1>14. QED
  BY <1>1, <1>2, <1>3, <1>4, <1>5, <1>6, <1>7, <1>8, <1>9, <1>10, <1>11, <1>12, <1>13

LEMMA KeyNext == KeyInv /\ [Next]_vars => KeyInv'
  BY ConnectKeeps, OthersKeep DEF Next
-----------------------------------------------------------------------------
(* The dictionaries and the entry keep their types, and there is an entry   *)
(* in exactly the stages that need one.                                     *)
THEOREM HostKeysTyped == Spec => []TypeOK
<1>1. KeyInv => TypeOK
  BY DEF KeyInv
<1>2. QED
  BY KeyInit, KeyNext, <1>1, PTL DEF Spec

(* Whichever of the three dictionaries are one object, they hold the same   *)
(* keys (api.py:62, 89-91; __init__.py:32-38).                              *)
THEOREM DictionariesAlwaysAgree == Spec => []DictionariesAgree
<1>1. KeyInv => DictionariesAgree
  BY DEF KeyInv
<1>2. QED
  BY KeyInit, KeyNext, <1>1, PTL DEF Spec

LEMMA EnforcedStep ==
  ASSUME KeyInv, [Next]_vars, NEW h \in Hosts,
         latest'[h] # latest[h], latest'[h] # None, disk # None
  PROVE  disk[h] \in {None, latest'[h]}
<1>1. PICK g \in Hosts : Connect(g)
  <2>1. CASE BeginFlow
    BY <2>1 DEF BeginFlow, NoKeys
  <2>2. CASE ~BeginFlow /\ ~(\E g \in Hosts : Connect(g))
    <3>1. latest' = latest
      BY <2>2 DEF Next, FlowFails, CreateEntry, BeginSetup, SetupDone, SetupFails, EndSetup,
                  Unload, Rekey, OtherChange, Write, Stop, Crash, Halt, Start, vars
    <3>2. QED
      BY <3>1
  <2>3. QED
    BY <2>1, <2>2
<1>2. latest' = [latest EXCEPT ![g] = server[g]] /\ HasApi
  BY <1>1 DEF Connect
<1>3. g = h /\ latest'[h] = server[h]
  BY <1>2 DEF KeyInv, TypeOK, KeyMaps
<1>4. stage # "flow" /\ entry # None /\ api = entry
  BY <1>2 DEF HasApi, KeyInv, TypeOK, StoredIsKnown, DictionariesAgree
<1>5. api[h] \in {None, server[h]}
  BY <1>1, <1>3, ConnectEnrols
<1>6. QED
  BY <1>3, <1>4, <1>5 DEF KeyInv, StoredIsKnown

(* No connection is ever accepted with another key than the stored one,     *)
(* whatever crashes and however the entry was changed (api.py:84-88).       *)
THEOREM SavedAlwaysEnforced == Spec => SavedKeysAreEnforced
<1>1. KeyInv /\ [Next]_vars =>
        [\A h \in Hosts :
            latest'[h] # latest[h] /\ latest'[h] # None /\ disk # None
            => disk[h] \in {None, latest'[h]}]_vars
  BY EnforcedStep
<1>2. QED
  BY KeyInit, KeyNext, <1>1, PTL DEF Spec, SavedKeysAreEnforced
-----------------------------------------------------------------------------
(* The refinement of TrustOnFirstUse, step by step.                        *)

Stored == IF disk = None THEN NoKeys ELSE disk

LEMMA PromiseInit == Init => Promise!Init
  BY DEF Init, Promise!Init, Promise!Nothing, InForce, NoKeys

LEMMA ConnectLearns ==
  ASSUME KeyInv, NEW h \in Hosts, Connect(h)
  PROVE  \/ Promise!Learn(h, server[h])
         \/ UNCHANGED <<InForce, Stored>>
<1>1. HasApi /\ UNCHANGED <<stage, disk>>
  BY DEF Connect
<1>2. CASE UNCHANGED <<entry, closure, api, shared, pending>>
  BY <1>1, <1>2 DEF InForce, Stored
<1>3. CASE ~UNCHANGED <<entry, closure, api, shared, pending>> /\ stage = "flow"
  <2>1. entry = None /\ entry' = None
    BY <1>3, ConnectEnrols DEF KeyInv, TypeOK
  <2>2. InForce = closure /\ InForce' = closure'
    BY <1>1, <1>3, <2>1 DEF InForce
  <2>3. closure[h] = None /\ closure' = [closure EXCEPT ![h] = server[h]]
    BY <1>1, <1>3, ConnectEnrols DEF KeyInv, DictionariesAgree
  <2>4. QED
    BY <1>1, <2>2, <2>3 DEF Promise!Learn
<1>4. CASE ~UNCHANGED <<entry, closure, api, shared, pending>> /\ stage # "flow"
  <2>1. entry # None /\ entry = api
    BY <1>1, <1>4 DEF HasApi, KeyInv, TypeOK, DictionariesAgree
  <2>2. /\ entry[h] = None
        /\ entry' = [entry EXCEPT ![h] = server[h]]
        /\ entry' \in KeyMaps
    BY <1>4, <2>1, ConnectEnrols
  <2>3. entry' # None
    BY <2>2, NoneIsNoMap
  <2>4. QED
    BY <1>1, <2>1, <2>2, <2>3 DEF InForce, Promise!Learn
<1>5. QED
  BY <1>2, <1>3, <1>4

LEMMA OthersMap ==
  ASSUME KeyInv,
         \/ BeginFlow \/ FlowFails \/ CreateEntry
         \/ BeginSetup \/ SetupDone \/ SetupFails \/ Unload
         \/ \E h \in Hosts, key \in Keys : Rekey(h, key)
         \/ OtherChange \/ Write \/ Stop \/ Crash \/ Start
         \/ UNCHANGED vars
  PROVE  Promise!Store \/ Promise!Restart \/ UNCHANGED <<InForce, Stored>>
<1> USE NoneIsNoMap, NoKeysTyped DEF KeyInv, TypeOK, StoredIsKnown, Quiet, HasApi,
        InForce, Stored, Promise!Store, Promise!Restart
<1>1. CASE BeginFlow
  BY <1>1 DEF BeginFlow, NewApi
<1>2. CASE FlowFails
  BY <1>2 DEF FlowFails, DropApi
<1>3. CASE CreateEntry
  BY <1>3 DEF CreateEntry, DropApi
<1>4. CASE BeginSetup
  BY <1>4 DEF BeginSetup, NewApi
<1>5. CASE SetupDone
  BY <1>5 DEF SetupDone, EndSetup
<1>6. CASE SetupFails
  BY <1>6 DEF SetupFails, EndSetup, DropApi
<1>7. CASE Unload
  BY <1>7 DEF Unload, DropApi
<1>8. CASE \E h \in Hosts, key \in Keys : Rekey(h, key)
  BY <1>8 DEF Rekey, memory
<1>9. CASE OtherChange
  BY <1>9 DEF OtherChange, memory
<1>10. CASE Write
  BY <1>10 DEF Write, memory
<1>11. CASE Stop
  BY <1>11 DEF Stop, Halt, DropApi
<1>12. CASE Crash
  BY <1>12 DEF Crash, Halt, DropApi
<1>13. CASE Start
  BY <1>13 DEF Start, Started
<1>14. CASE UNCHANGED vars
  BY <1>14 DEF vars, memory
<1>15. QED
  BY <1>1, <1>2, <1>3, <1>4, <1>5, <1>6, <1>7, <1>8, <1>9, <1>10, <1>11, <1>12, <1>13, <1>14

(* The config entry implements TrustOnFirstUse: over flows, setups, reloads,*)
(* writes, stops and crashes a key in force is never replaced, and a stored *)
(* one never lost.                                                          *)
THEOREM EntryTrustsOnFirstUse == Spec => TrustsOnFirstUse
<1>1. KeyInv /\ [Next]_vars => [Promise!Next]_<<InForce, Stored>>
  <2> SUFFICES ASSUME KeyInv, [Next]_vars
               PROVE  Promise!Next \/ UNCHANGED <<InForce, Stored>>
    OBVIOUS
  <2>1. ASSUME NEW h \in Hosts, Connect(h)
        PROVE  Promise!Next \/ UNCHANGED <<InForce, Stored>>
    <3>1. server[h] \in Keys
      BY DEF KeyInv, TypeOK
    <3>2. QED
      BY <2>1, <3>1, ConnectLearns DEF Promise!Next
  <2>2. QED
    BY <2>1, OthersMap DEF Next, Promise!Next
<1>2. QED
  BY KeyInit, KeyNext, PromiseInit, <1>1, PTL
     DEF Spec, TrustsOnFirstUse, Promise!Spec, Stored
=============================================================================
