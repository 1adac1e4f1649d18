------------------------- MODULE MCDiagnosticReport -------------------------
(***************************************************************************)
(* A small instance of DiagnosticReport: a node with both bands, and one    *)
(* whose 5 GHz radio is not supported.                                      *)
(***************************************************************************)
EXTENDS DiagnosticReport

SmallRadios == {[node |-> "a", band |-> "2.4"], [node |-> "a", band |-> "5"],
                [node |-> "b", band |-> "2.4"]}

\* All radios answer, or none, or one of the two that a node has.
SmallAnswers == {SmallRadios, {},
                 {[node |-> "a", band |-> "5"], [node |-> "b", band |-> "2.4"]}}

\* All are found, or the second node is missing.
SmallDiscoveries == {SmallRadios, {r \in SmallRadios : r.node = "a"}}

\* No other incident, or two at once of one radio and one of the other.
NoCauses == [r \in SmallRadios |-> <<>>]
SmallCauses ==
    {NoCauses,
     [r \in SmallRadios |->
         CASE r.band = "5"  -> <<"router_reboot", "high_utilization">>
           [] r.node = "a" /\ r.band = "2.4" -> <<"high_utilization">>
           [] r.node = "b"  -> <<>>]}

\* Losses and returns only.
NoneElse == {NoCauses}

\* The load of the 5 GHz radio falls, that of the others has its peak at 2.
SmallUtilization(r, t) ==
    IF r.band = "5" THEN 50 - t ELSE CASE t = 1 -> 70 [] t = 2 -> 95 [] OTHER -> 80

\* The entities in some order that does not favour a band.
SmallStatesOrder ==
    LET a24 == [node |-> "a", band |-> "2.4"]
        a5  == [node |-> "a", band |-> "5"]
        b24 == [node |-> "b", band |-> "2.4"]
    IN  <<Entity("incident", b24), Entity("utilization", a24), Entity("utilization", a5),
          Entity("utilization", b24), Internet, Entity("congested", a5),
          Entity("congested", a24), Entity("congested", b24), Entity("reachable", a24),
          Entity("reachable", b24), Entity("incident", a5), Entity("incident", a24)>>
=============================================================================
