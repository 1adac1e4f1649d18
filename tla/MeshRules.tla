----------------------------- MODULE MeshRules -----------------------------
(***************************************************************************)
(* What belongs to a mesh.  Its radios, as discover_nodes finds them        *)
(* (parser.py, api.py), and its networks, which are told from foreign ones  *)
(* twice: in the scans of the routers (api.py) and in the survey of the     *)
(* Wi-Fi probe (sensor.py).                                                 *)
(***************************************************************************)
EXTENDS Integers

CONSTANTS Family(_),  \* the hardware a model name stands for: "gt" (its name contains
                      \* GT6 or GT10), else "xt" (XT8 or AX95Q), else None
          Air,        \* the networks that can be heard
          None

ASSUME NoneIsNoHardware == None \notin {"gt", "xt"}

Bands == {"2.4", "5"}

\* A MAC address or BSSID: its first octet, the four middle ones, the last.
\* bssid_radio_fingerprint(bssid) is bssid.middle.

(***************************************************************************)
(* A device of the mesh has a mac, a host, controller (a Boolean), model    *)
(* (the name it is listed under) and product (what productid answers).      *)
(***************************************************************************)
RadioInterface(model, band) ==
    CASE Family(model) = "gt" -> IF band = "5" THEN "eth4" ELSE "eth6"
      [] Family(model) = "xt" -> IF band = "5" THEN "eth5" ELSE "eth4"
      [] OTHER                -> None

\* Slip: by the name the device is listed under, not by the hardware.
StationInterfaceByName(model, controller, band) ==
    IF controller  THEN RadioInterface(model, band)
    ELSE IF model = "GT6" THEN IF band = "5" THEN "wl0.1" ELSE "wl2.1"
                          ELSE IF band = "5" THEN "wl1.1" ELSE "wl0.1"
\* The BSS for clients: a virtual one on every device but the controller.
StationInterface(model, controller, band) ==
    IF controller  THEN RadioInterface(model, band)
    ELSE IF Family(model) = "gt" THEN IF band = "5" THEN "wl0.1" ELSE "wl2.1"
                                 ELSE IF band = "5" THEN "wl1.1" ELSE "wl0.1"

\* expand_client_radios
Expand(device, product) ==
    {[mac     |-> device.mac,
      band    |-> band,
      radio   |-> RadioInterface(product, band),
      station |-> StationInterface(product, device.controller, band)] :
        band \in {b \in Bands : RadioInterface(product, b) # None}}

\* parse_mesh_nodes leaves out what it has no interface for.
Supported(listed) == {d \in listed : RadioInterface(d.model, "2.4") # None}

\* discover_nodes, when productid fails for the devices in `silent`.
Discovered(listed, silent) ==
    UNION {Expand(d, IF d \in silent THEN d.model ELSE d.product) : d \in Supported(listed)}
-----------------------------------------------------------------------------
(***************************************************************************)
(* A poll results in a set of snapshots, of the radios that answered: their *)
(* mac and band, and the bssid, ssid (None when hidden or not read) and     *)
(* channel of their BSS.  A network that is heard has bssid, ssid, channel. *)
(***************************************************************************)
OwnBssids(reachable) == {s.bssid : s \in reachable} \ {None}
MeshSsids(reachable) == {s.ssid : s \in reachable} \ {None}

\* Slip: a network is own by its name, wherever its address lies.
IsOwnMeshByName(network, reachable) ==
    \/ network.bssid \in OwnBssids(reachable)
    \/ network.ssid \in MeshSsids(reachable)
\* is_own_mesh_bss: how the routers see a network of a scan.
IsOwnMesh(network, reachable) ==
    \/ network.bssid \in OwnBssids(reachable)
    \/ /\ network.ssid \in MeshSsids(reachable)
       /\ \E s \in reachable :
             /\ network.bssid.middle = s.mac.middle
             /\ (network.bssid.last - s.mac.last) % 256 <= 15

\* same_channel_mesh_bss of a snapshot: the BSSIDs the other radios have.
SameChannel(s, reachable) ==
    {t.bssid : t \in {t \in reachable : /\ t.bssid \notin {None, s.bssid}
                                        /\ t.band = s.band
                                        /\ t.channel = s.channel}}

\* nearby_bss of a snapshot: a passive scan of the channel the radio uses.
Nearby(s) == {n \in Air : n.channel = s.channel}

\* _classified: how the probe's sensor sees a network of a survey.
OwnForProbe(network, reachable) ==
    \/ network.bssid \in OwnBssids(reachable)
    \/ \E s \in reachable :
          \/ network.bssid \in SameChannel(s, reachable)
          \/ \E n \in Nearby(s) : n.bssid = network.bssid /\ IsOwnMesh(n, reachable)
          \/ network.bssid.middle = s.mac.middle
    \/ network.ssid \in MeshSsids(reachable)
=============================================================================
