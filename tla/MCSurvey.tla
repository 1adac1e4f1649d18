------------------------------ MODULE MCSurvey ------------------------------
(***************************************************************************)
(* A small instance of Survey: the target is a mesh of two GT6, between an  *)
(* entry with a supported and another router and one that never gets ready; *)
(* neighbours have networks that look alike.                               *)
(***************************************************************************)
EXTENDS Survey

Octets(middle, last) == [first |-> 0, middle |-> middle, last |-> last]

SmallFamily(model) == CASE model \in {"GT6", "ROG_GT6"}      -> "gt"
                        [] model \in {"XT8", "RT-AX95Q"}     -> "xt"
                        [] OTHER                             -> None

Device(middle, last, controller, model, product) ==
    [mac |-> Octets(middle, last), host |-> middle, controller |-> controller,
     model |-> model, product |-> product]

SmallDevices(e) ==
    IF e = Target THEN {Device("m1", 16, TRUE, "GT6", "GT6"),
                        Device("m2", 250, FALSE, "GT6", "ROG_GT6")}
    ELSE IF e < Target THEN {Device("m3", 32, TRUE, "XT8", "RT-AX95Q"),
                             Device("m4", 1, FALSE, "AC68", "AC68")}
                       ELSE {Device("m5", 1, TRUE, "AC68", "AC68")}

Network(bssid, ssid, channel) == [bssid |-> bssid, ssid |-> ssid, channel |-> channel]

SmallBss(r) ==
    CASE r.mac.middle = "m1" /\ r.band = "2.4" -> Network(Octets("m1", 16), "home", 1)
      [] r.mac.middle = "m1" /\ r.band = "5"   -> Network(Octets("m0", 20), None, 36)
      [] r.mac.middle = "m2" /\ r.band = "2.4" -> Network(Octets("m2", 4), "home", 1)
      [] OTHER                                 -> Network(None, "home", 36)

SmallAir == {Network(Octets("m1", 16), "home", 1), Network(Octets("m0", 20), "", 36),
             Network(Octets("m2", 4), "home", 1),  Network(Octets("m2", 5), "guest", 1),
             Network(Octets("m1", 200), "home", 1), Network(Octets("m9", 1), "other", 36),
             Network(Octets("m8", 1), "home", 1)}

Row(bssid, ssid, signal) ==
    [bssid |-> bssid, ssid |-> ssid, signal |-> signal, wellFormed |-> TRUE]

Own == Octets("m1", 16)
Hidden == Octets("m0", 20)
Virtual == Octets("m2", 4)
Foreign == Octets("m9", 1)
Namesake == Octets("m8", 1)

\* The first has a network twice, the second more networks than are kept.
SmallSurveys ==
    {<<Row(Own, "", 1), Row(Hidden, "", 2), Row(Own, "home", 2)>>,
     <<[Row(Foreign, "other", 3) EXCEPT !.wellFormed = FALSE], Row(Foreign, "other", 1),
       Row(Namesake, "", 2), Row(Virtual, "", 2)>>}

SmallOthers ==
    {<<Row(Foreign, "other", 1), Row(Own, "home", 2), Row(Foreign, "other", 2)>>,
     <<Row(Own, "home", 1), Row(Own, "home", 2)>>,
     <<[Row(Own, "home", 1) EXCEPT !.wellFormed = FALSE]>>}
=============================================================================
