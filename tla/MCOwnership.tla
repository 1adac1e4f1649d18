----------------------------- MODULE MCOwnership -----------------------------
(***************************************************************************)
(* A small instance of Ownership: a washer, a dishwasher and a hub that    *)
(* may be a copy made by the router integration, and two addresses.        *)
(*                                                                         *)
(* A text is a sequence of words.                                          *)
(***************************************************************************)
EXTENDS Ownership, SequencesExt

\* Texts that are addresses.
SmallMac(t) == IF t \in {"mac1", "MAC1"} THEN "mac1"
               ELSE IF t = "mac2" THEN "mac2" ELSE None
SmallMacsIn(t) == IF t = "uuid-of-mac1" THEN {"mac1"} ELSE {}
SmallIp(t) == IF t = "ip1" THEN "ip1" ELSE None

\* Texts that are compared.
Letters(word) == CASE word = "tv"      -> 2
                   [] word = "lge"     -> 3
                   [] word = "dish"    -> 4
                   [] word = "acme"    -> 4
                   [] word = "wx100"   -> 5
                   [] word = "washer"  -> 6
                   [] word = "gateway" -> 7

SmallSize(t) == FoldSeq(LAMBDA word, n : Letters(word) + n, 0, t)

SmallWithin(a, b) == \E i \in 0..(Len(b) - Len(a)) :
                        SubSeq(b, i + 1, i + Len(a)) = a

SmallTerms(t) == {w \in ToSet(t) : Letters(w) >= 3}

\* Shorter names come first: any order of the names will do.
SmallBefore(a, b) == SmallSize(a) < SmallSize(b)

Roots == {<<"gateway">>}
Generic == {<<"wx100">>}
Names == {<<"washer">>, <<"dish", "washer">>, <<"acme", "gateway">>,
          <<"lge", "dish", "washer", "tv">>, <<"wx100">>, <<"acme">>, <<"tv">>, None}

Device(name, maker) ==
    [integrations |-> {"lg"}, connections |-> {}, macs |-> {}, identifiers |-> {},
     ips |-> {}, url |-> {}, name |-> name, manufacturer |-> maker, model |-> <<>>,
     area |-> None, via |-> None]

Washer == Device(<<"washer">>, <<"lge">>)
Dishwasher == Device(<<"dish", "washer">>, <<"lge">>)
Hub == Device(<<"acme", "gateway">>, <<"acme">>)

SmallEntries ==
    <<{[Washer EXCEPT !.connections = {"mac1"}, !.ips = {"ip1"}, !.area = "kitchen"],
       [Washer EXCEPT !.model = <<"dish", "washer">>, !.manufacturer = <<"acme">>]},
      {[Dishwasher EXCEPT !.identifiers = {"uuid-of-mac1"}, !.via = 3,
                          !.manufacturer = <<"acme">>, !.area = "kitchen"],
       [Washer EXCEPT !.url = {"ip1"}, !.via = 3]},
      {[Hub EXCEPT !.macs = {"MAC1"}, !.name = <<"acme">>],
       [Hub EXCEPT !.integrations = {"asusrouter"}, !.connections = {"mac1", "mac2"},
                   !.ips = {"ip1", "printer.local"}]}>>
=============================================================================
