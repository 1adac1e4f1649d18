-------------------------- MODULE CollectionProofs --------------------------
(***************************************************************************)
(* Theorems about Collection, for any number of hosts, radios and clients. *)
(***************************************************************************)
EXTENDS Collection, WellFoundedInduction, TLAPS

(* The radios of one host are worked through in order: a radio that has had *)
(* its turn has every earlier radio of its host behind it.                  *)
InOrder ==
    \A i, j \in Radios :
        j < i /\ HostOf[j] = HostOf[i] /\ stage[i] # "waiting" => stage[j] = "done"

OrderInv == stage \in [Radios -> Stages] /\ InOrder

LEMMA RadiosAreNumbers == Radios \subseteq Nat
  BY CollectionAssumption DEF Radios

(* In order implies one at a time: of two radios of one host, the later one *)
(* can only be in flight when the earlier one is done (api.py:202-207).     *)
LEMMA InOrderIsExclusive == OrderInv => NoOverlappingWl
<1> SUFFICES ASSUME OrderInv,
                    NEW i \in Radios, NEW j \in Radios,
                    i # j, HostOf[i] = HostOf[j],
                    stage[i] \in InFlight, stage[j] \in InFlight
             PROVE  FALSE
  BY DEF NoOverlappingWl
<1>1. i < j \/ j < i
  BY RadiosAreNumbers
<1>2. /\ stage[i] # "waiting" /\ stage[j] # "waiting"
      /\ stage[i] # "done" /\ stage[j] # "done"
  BY DEF InFlight
<1>3. QED
  BY <1>1, <1>2 DEF OrderInv, InOrder

(* A radio that advances has had its turn, so no other radio's turn depends *)
(* on the stage it leaves.                                                  *)
LEMMA AdvancingKeepsOrder ==
  ASSUME OrderInv, NEW i \in Radios, NEW next \in Stages \ {"waiting"},
         stage[i] \in InFlight,
         stage' = [stage EXCEPT ![i] = next]
  PROVE  OrderInv'
<1>1. stage' \in [Radios -> Stages]
  BY DEF OrderInv
<1>2. ASSUME NEW m \in Radios, NEW k \in Radios,
             k < m, HostOf[k] = HostOf[m], stage'[m] # "waiting"
      PROVE  stage'[k] = "done"
  <2>1. stage[m] # "waiting"
    BY <1>2 DEF OrderInv, InFlight
  <2>2. stage[k] = "done"
    BY <2>1, <1>2 DEF OrderInv, InOrder
  <2>3. k # i
    BY <2>2 DEF InFlight
  <2>4. QED
    BY <2>2, <2>3 DEF OrderInv
<1>3. QED
  BY <1>1, <1>2 DEF OrderInv, InOrder

LEMMA OrderInit == Init => OrderInv
  BY DEF Init, OrderInv, InOrder, Stages

LEMMA OrderNext == OrderInv /\ [Next]_vars => OrderInv'
<1> SUFFICES ASSUME OrderInv, [Next]_vars PROVE OrderInv'
  OBVIOUS
<1>1. CASE Begin
  BY <1>1 DEF Begin, OrderInv, InOrder, Stages
<1>2. CASE Finish
  BY <1>2 DEF Finish, OrderInv, InOrder
<1>3. ASSUME NEW i \in Radios, StartRadio(i) PROVE OrderInv'
  <2>1. stage' = [stage EXCEPT ![i] = "main"] /\ MayStart(i)
    BY <1>3 DEF StartRadio
  <2>2. stage' \in [Radios -> Stages]
    BY <2>1 DEF OrderInv, Stages, InFlight
  <2>3. ASSUME NEW m \in Radios, NEW k \in Radios,
               k < m, HostOf[k] = HostOf[m], stage'[m] # "waiting"
        PROVE  stage'[k] = "done"
    <3>1. stage[k] = "done"
      BY <2>1, <2>3 DEF OrderInv, InOrder, MayStart
    <3>2. k # i
      BY <3>1, <2>1 DEF MayStart
    <3>3. QED
      BY <3>1, <3>2, <2>1 DEF OrderInv
  <2>4. QED
    BY <2>2, <2>3 DEF OrderInv, InOrder
<1>4. ASSUME NEW i \in Radios, EndMain(i) PROVE OrderInv'
  <2>1. stage[i] \in InFlight
    BY <1>4 DEF EndMain, InFlight
  <2>2. \E next \in {"stations", "scan", "done"} : stage' = [stage EXCEPT ![i] = next]
    BY <1>4 DEF EndMain, ScanOrComplete, Complete
  <2>3. QED
    BY <2>1, <2>2, AdvancingKeepsOrder DEF Stages, InFlight
<1>5. ASSUME NEW i \in Radios, EndStations(i) PROVE OrderInv'
  <2>1. stage[i] \in InFlight
    BY <1>5 DEF EndStations, InFlight
  <2>2. \E next \in {"scan", "done"} : stage' = [stage EXCEPT ![i] = next]
    BY <1>5 DEF EndStations, ScanOrComplete, Complete, GiveUp
  <2>3. QED
    BY <2>1, <2>2, AdvancingKeepsOrder DEF Stages, InFlight
<1>6. ASSUME NEW i \in Radios, CommandFails(i) PROVE OrderInv'
  <2>1. stage[i] \in InFlight /\ stage' = [stage EXCEPT ![i] = "done"]
    BY <1>6 DEF CommandFails, GiveUp
  <2>2. QED
    BY <2>1, AdvancingKeepsOrder DEF Stages
<1>7. ASSUME NEW i \in Radios, NEW ok \in BOOLEAN, EndScan(i, ok) PROVE OrderInv'
  <2>1. stage[i] \in InFlight /\ stage' = [stage EXCEPT ![i] = "done"]
    BY <1>7 DEF EndScan, Complete, InFlight
  <2>2. QED
    BY <2>1, AdvancingKeepsOrder DEF Stages
<1>8. CASE \E c \in Clients, place \in Radios \union {None} : Roam(c, place)
  BY <1>8 DEF Roam, OrderInv, InOrder
<1>9. CASE Tick
  BY <1>9 DEF Tick, OrderInv, InOrder
<1>10. CASE UNCHANGED vars
  BY <1>10 DEF vars, OrderInv, InOrder
<1>11. QED
  BY <1>1, <1>2, <1>3, <1>4, <1>5, <1>6, <1>7, <1>8, <1>9, <1>10 DEF Next

(* However many radios a host has, and whatever fails, times out or roams,  *)
(* no two commands ever run on one physical node at the same time           *)
(* (api.py:195-207).                                                        *)
THEOREM NeverOverlapping == Spec => []NoOverlappingWl
<1>1. OrderInv => NoOverlappingWl
  BY InOrderIsExclusive
<1>2. QED
  BY OrderInit, OrderNext, <1>1, PTL DEF Spec
-----------------------------------------------------------------------------
(* Type correctness.                                                       *)

LEMMA ConstantsTyped ==
  /\ None \notin Radios /\ None \notin SUBSET Clients
  /\ ScanInterval \in Nat \ {0}
  BY CollectionAssumption

LEMMA TypeInit == Init => TypeOK
<1> SUFFICES ASSUME Init PROVE TypeOK
  OBVIOUS
<1>1. ScanInterval \in 0..ScanInterval
  BY ConstantsTyped
<1>2. QED
  BY <1>1 DEF Init, TypeOK, Stages

\* A radio whose stations are known scans, or its result is there.
LEMMA StationsAreTyped ==
  ASSUME TypeOK, NEW i \in Radios, NEW stations \in SUBSET Clients,
         ScanOrComplete(i, stations)
  PROVE  /\ stage' \in [Radios -> Stages]
         /\ listed' \in [Radios -> SUBSET Clients]
         /\ result' \in [Radios -> (SUBSET Clients) \union {None}]
  BY DEF TypeOK, ScanOrComplete, Complete, Stages, InFlight

LEMMA TypeNext == TypeOK /\ [Next]_vars => TypeOK'
<1> SUFFICES ASSUME TypeOK, [Next]_vars PROVE TypeOK'
  OBVIOUS
<1>1. CASE Begin
  <2>1. ghost' = [visited |-> [c \in Clients |-> {where[c]}], answered |-> Radios]
    BY <1>1 DEF Begin, TypeOK
  <2>2. [c \in Clients |-> {where[c]}] \in [Clients -> SUBSET (Radios \union {None})]
    BY DEF TypeOK
  <2>3. ghost' \in [visited  : [Clients -> SUBSET (Radios \union {None})],
                    answered : SUBSET Radios]
    BY <2>1, <2>2
  <2>4. QED
    BY <1>1, <2>3 DEF Begin, TypeOK, Stages
<1>2. CASE Finish
  BY <1>2 DEF Finish, TypeOK
<1>3. ASSUME NEW i \in Radios, StartRadio(i) PROVE TypeOK'
  BY <1>3 DEF StartRadio, TypeOK, Stages, InFlight
<1>4. ASSUME NEW i \in Radios, EndMain(i) PROVE TypeOK'
  <2>1. /\ stage' \in [Radios -> Stages]
        /\ listed' \in [Radios -> SUBSET Clients]
        /\ result' \in [Radios -> (SUBSET Clients) \union {None}]
    BY <1>4, StationsAreTyped DEF EndMain, TypeOK, Stages, InFlight
  <2>2. QED
    BY <1>4, <2>1 DEF EndMain, TypeOK
<1>5. ASSUME NEW i \in Radios, EndStations(i) PROVE TypeOK'
  <2>1. StationsOf(i) \in SUBSET Clients
    BY DEF StationsOf, TypeOK
  <2>2. /\ stage' \in [Radios -> Stages]
        /\ listed' \in [Radios -> SUBSET Clients]
        /\ result' \in [Radios -> (SUBSET Clients) \union {None}]
    BY <1>5, <2>1, StationsAreTyped DEF EndStations, GiveUp, TypeOK, Stages, InFlight
  <2>3. QED
    BY <1>5, <2>2 DEF EndStations, TypeOK
<1>6. ASSUME NEW i \in Radios, CommandFails(i) PROVE TypeOK'
  <2>1. ghost'.visited = ghost.visited /\ ghost'.answered \subseteq Radios
    BY <1>6 DEF CommandFails, TypeOK
  <2>2. QED
    BY <1>6, <2>1 DEF CommandFails, GiveUp, TypeOK, Stages, InFlight
<1>7. ASSUME NEW i \in Radios, NEW ok \in BOOLEAN, EndScan(i, ok) PROVE TypeOK'
  <2>1. StationsOf(i) \in SUBSET Clients /\ 0 \in 0..ScanInterval
    BY ConstantsTyped DEF StationsOf, TypeOK
  <2>2. QED
    BY <1>7, <2>1 DEF EndScan, Complete, TypeOK, Stages, InFlight
<1>8. ASSUME NEW c \in Clients, NEW place \in Radios \union {None}, Roam(c, place)
      PROVE  TypeOK'
  <2>1. CASE running
    <3>1. ghost' = [ghost EXCEPT !.visited =
                       [ghost.visited EXCEPT ![c] = ghost.visited[c] \union {place}]]
      BY <1>8, <2>1 DEF Roam
    <3>2. QED
      BY <1>8, <3>1 DEF Roam, TypeOK
  <2>2. CASE ~running
    BY <1>8, <2>2 DEF Roam, TypeOK
  <2>3. QED
    BY <2>1, <2>2
<1>9. CASE Tick
  BY <1>9, ConstantsTyped DEF Tick, Older, TypeOK
<1>10. CASE UNCHANGED vars
  BY <1>10 DEF vars, TypeOK
<1>11. QED
  BY <1>1, <1>2, <1>3, <1>4, <1>5, <1>6, <1>7, <1>8, <1>9, <1>10 DEF Next

(* Every radio has a snapshot or nothing, whatever fails (api.py:235-244).  *)
THEOREM CollectionTyped == Spec => []TypeOK
  BY TypeInit, TypeNext, PTL DEF Spec
-----------------------------------------------------------------------------
(* What snapshots say of the clients.                                      *)

\* All of these stations were at radio i during the poll, and none that stayed
\* there is missing.
Backed(i, stations) ==
    /\ \A c \in stations : i \in ghost.visited[c]
    /\ \A c \in Clients : ghost.visited[c] = {i} => c \in stations

\* No client came to radio i or left it during the poll.
Unmoved(i) == \A c \in Clients : i \in ghost.visited[c] => ghost.visited[c] = {i}

(***************************************************************************)
(* The stations of a radio are those of one moment of the poll, wherever   *)
(* its collection has got to; a radio that answered can only have been     *)
(* dropped because of a client that moved.                                 *)
(***************************************************************************)
WhilePolling ==
    /\ \A c \in Clients : where[c] \in ghost.visited[c]
    /\ \A i \in Radios :
          /\ stage[i] \in {"stations", "scan"} => Backed(i, listed[i])
          /\ result[i] # None => Backed(i, result[i])
          /\ stage[i] = "done" /\ i \in ghost.answered /\ Unmoved(i) => result[i] # None

Between ==
    \A i \in Radios :
       /\ stage[i] = "done" /\ result[i] = None
       /\ shown[i] # None => Backed(i, shown[i])
       /\ i \in ghost.answered /\ Unmoved(i) => shown[i] # None

PollInv == IF running THEN WhilePolling ELSE Between

LEMMA PollInit == Init => PollInv
  BY ConstantsTyped DEF Init, PollInv, Between

\* A radio in flight belongs to a poll.
LEMMA InFlightIsRunning ==
  ASSUME PollInv, NEW i \in Radios, stage[i] # "done"
  PROVE  running /\ WhilePolling
  BY DEF PollInv, Between

LEMMA StationsAreBacked ==
  ASSUME TypeOK, PollInv, NEW i \in Radios, stage[i] # "done",
         NEW stations \in SUBSET Clients, Backed(i, stations),
         ScanOrComplete(i, stations), UNCHANGED <<running, shown, where, ghost>>
  PROVE  PollInv'
<1>1. running /\ WhilePolling
  BY InFlightIsRunning
<1>2. stations # None
  BY ConstantsTyped
<1>3. ASSUME NEW j \in Radios
      PROVE  /\ stage'[j] \in {"stations", "scan"} => Backed(j, listed'[j])
             /\ result'[j] # None => Backed(j, result'[j])
             /\ stage'[j] = "done" /\ j \in ghost.answered /\ Unmoved(j) => result'[j] # None
  <2>1. CASE j = i
    BY <2>1, <1>1, <1>2 DEF ScanOrComplete, Complete, TypeOK, WhilePolling
  <2>2. CASE j # i
    <3>1. stage'[j] = stage[j] /\ listed'[j] = listed[j] /\ result'[j] = result[j]
      BY <2>2 DEF ScanOrComplete, Complete, TypeOK
    <3>2. QED
      BY <3>1, <1>1 DEF WhilePolling
  <2>3. QED
    BY <2>1, <2>2
<1>4. QED
  BY <1>1, <1>3 DEF PollInv, WhilePolling, Backed, Unmoved

\* A radio that is given up may do without a snapshot.
LEMMA GivingUpIsExcused ==
  ASSUME TypeOK, PollInv, NEW i \in Radios, stage[i] # "done", GiveUp(i),
         UNCHANGED <<running, shown, where>>,
         ghost'.visited = ghost.visited, ghost'.answered \subseteq ghost.answered,
         i \in ghost'.answered => ~Unmoved(i)
  PROVE  PollInv'
<1>1. running /\ WhilePolling
  BY InFlightIsRunning
<1>2. ASSUME NEW j \in Radios
      PROVE  /\ stage'[j] \in {"stations", "scan"} => Backed(j, listed'[j])
             /\ result'[j] # None => Backed(j, result'[j])
             /\ stage'[j] = "done" /\ j \in ghost'.answered /\ Unmoved(j) => result'[j] # None
  <2>1. CASE j = i
    BY <2>1, <1>1 DEF GiveUp, TypeOK, WhilePolling
  <2>2. CASE j # i
    <3>1. stage'[j] = stage[j] /\ listed'[j] = listed[j] /\ result'[j] = result[j]
      BY <2>2 DEF GiveUp, TypeOK
    <3>2. QED
      BY <3>1, <1>1 DEF WhilePolling
  <2>3. QED
    BY <2>1, <2>2
<1>3. QED
  BY <1>1, <1>2 DEF PollInv, WhilePolling, Backed, Unmoved

\* A client that moves has been at one more place, and stayed at none.
LEMMA RoamingIsRecorded ==
  ASSUME TypeOK, PollInv, NEW c \in Clients, NEW place \in Radios \union {None},
         Roam(c, place)
  PROVE  PollInv'
<1>1. CASE ~running
  BY <1>1 DEF Roam, PollInv, Between, Backed, Unmoved
<1>2. CASE running
  <2>1. /\ WhilePolling
        /\ where' = [where EXCEPT ![c] = place]
        /\ UNCHANGED <<running, stage, listed, result>>
    BY <1>2 DEF Roam, PollInv
  <2>2. /\ ghost'.answered = ghost.answered
        /\ ghost'.visited = [ghost.visited EXCEPT ![c] = ghost.visited[c] \union {place}]
    <3>1. ghost' = [ghost EXCEPT !.visited =
                       [ghost.visited EXCEPT ![c] = ghost.visited[c] \union {place}]]
      BY <1>2 DEF Roam
    <3>2. QED
      BY <3>1 DEF TypeOK
  <2>3. ASSUME NEW d \in Clients
        PROVE  /\ where'[d] \in ghost'.visited[d]
               /\ ghost.visited[d] \subseteq ghost'.visited[d]
               /\ ghost.visited[d] # {}
    BY <2>1, <2>2 DEF WhilePolling, TypeOK
  <2>4. ASSUME NEW i \in Radios
        PROVE  /\ \A d \in Clients : ghost'.visited[d] = {i} => ghost.visited[d] = {i}
               /\ \A stations \in SUBSET Clients :
                     Backed(i, stations) => Backed(i, stations)'
               /\ Unmoved(i)' => Unmoved(i)
    <3>1. \A d \in Clients : ghost'.visited[d] = {i} => ghost.visited[d] = {i}
      BY <2>3
    <3>2. ASSUME NEW stations \in SUBSET Clients, Backed(i, stations)
          PROVE  Backed(i, stations)'
      BY <2>3, <3>1, <3>2 DEF Backed
    <3>3. Unmoved(i)' => Unmoved(i)
      BY <2>3, <3>1 DEF Unmoved
    <3>4. QED
      BY <3>1, <3>2, <3>3
  <2>5. WhilePolling'
    BY <2>1, <2>2, <2>3, <2>4 DEF WhilePolling, TypeOK
  <2>6. QED
    BY <1>2, <2>1, <2>5 DEF PollInv
<1>3. QED
  BY <1>1, <1>2
LEMMA PollNext == TypeOK /\ PollInv /\ [Next]_vars => PollInv'
<1> SUFFICES ASSUME TypeOK, PollInv, [Next]_vars PROVE PollInv'
  OBVIOUS
<1>1. CASE Begin
  <2>1. /\ ~running /\ running' /\ Between
        /\ UNCHANGED <<result, where>>
        /\ stage' = [i \in Radios |-> "waiting"]
        /\ ghost'.visited = [c \in Clients |-> {where[c]}]
    BY <1>1 DEF Begin, PollInv, TypeOK
  <2>2. WhilePolling'
    BY <2>1 DEF WhilePolling, Between
  <2>3. QED
    BY <2>1, <2>2 DEF PollInv
<1>2. CASE Finish
  <2>1. WhilePolling
    BY <1>2 DEF Finish, PollInv
  <2>2. Between'
    BY <1>2, <2>1 DEF Finish, WhilePolling, Between, Backed, Unmoved
  <2>3. QED
    BY <1>2, <2>2 DEF Finish, PollInv
<1>3. ASSUME NEW i \in Radios, StartRadio(i) PROVE PollInv'
  <2>1. /\ running /\ WhilePolling /\ stage[i] # "done"
        /\ stage' = [stage EXCEPT ![i] = "main"]
        /\ UNCHANGED <<running, listed, result, where, ghost>>
    BY <1>3 DEF StartRadio, MayStart, PollInv
  <2>2. ASSUME NEW j \in Radios
        PROVE  stage'[j] \in {"stations", "scan", "done"} => stage'[j] = stage[j]
    BY <2>1 DEF TypeOK
  <2>3. QED
    BY <2>1, <2>2 DEF PollInv, WhilePolling, Backed, Unmoved
<1>4. ASSUME NEW i \in Radios, EndMain(i) PROVE PollInv'
  <2> DEFINE stations == {c \in Clients : where[c] = i}
  <2>1. /\ stage[i] = "main" /\ running /\ WhilePolling
        /\ UNCHANGED <<running, shown, where, ghost>>
    BY <1>4, InFlightIsRunning DEF EndMain
  <2>2. Backed(i, stations)
    <3>1. \A c \in Clients : where[c] \in ghost.visited[c]
      BY <2>1 DEF WhilePolling
    <3>2. QED
      BY <3>1 DEF Backed
  <2>3. CASE ScanOrComplete(i, stations)
    BY <2>1, <2>2, <2>3, StationsAreBacked
  <2>4. CASE /\ stage' = [stage EXCEPT ![i] = "stations"]
             /\ listed' = [listed EXCEPT ![i] = stations]
             /\ UNCHANGED result
    <3>1. ASSUME NEW j \in Radios
          PROVE  /\ stage'[j] \in {"stations", "scan"} => Backed(j, listed'[j])
                 /\ result'[j] # None => Backed(j, result'[j])
                 /\ stage'[j] = "done" /\ j \in ghost.answered /\ Unmoved(j)
                       => result'[j] # None
      <4>1. CASE j = i
        BY <4>1, <2>1, <2>2, <2>4 DEF TypeOK, WhilePolling
      <4>2. CASE j # i
        BY <4>2, <2>1, <2>4 DEF TypeOK, WhilePolling
      <4>3. QED
        BY <4>1, <4>2
    <3>2. QED
      BY <3>1, <2>1 DEF PollInv, WhilePolling, Backed, Unmoved
  <2>5. QED
    BY <1>4, <2>3, <2>4 DEF EndMain
<1>5. ASSUME NEW i \in Radios, EndStations(i) PROVE PollInv'
  <2>1. /\ stage[i] = "stations" /\ running /\ WhilePolling
        /\ UNCHANGED <<running, shown, where, ghost>>
    BY <1>5, InFlightIsRunning DEF EndStations
  <2>2. /\ Backed(i, listed[i]) /\ listed[i] \in SUBSET Clients
        /\ StationsOf(i) = listed[i]
    BY <2>1 DEF WhilePolling, StationsOf, TypeOK
  <2>3. PICK last \in listed[i] :
          IF where[last] = i THEN ScanOrComplete(i, StationsOf(i)) ELSE GiveUp(i)
    BY <1>5 DEF EndStations
  <2>4. CASE where[last] = i
    BY <2>1, <2>2, <2>3, <2>4, StationsAreBacked
  <2>5. CASE where[last] # i
    <3>1. i \in ghost.visited[last] /\ where[last] \in ghost.visited[last]
      BY <2>1, <2>2 DEF Backed, WhilePolling
    <3>2. ~Unmoved(i)
      BY <3>1, <2>2, <2>5 DEF Unmoved
    <3>3. QED
      BY <2>1, <2>3, <2>5, <3>2, GivingUpIsExcused
  <2>6. QED
    BY <2>4, <2>5
<1>6. ASSUME NEW i \in Radios, CommandFails(i) PROVE PollInv'
  <2>1. /\ stage[i] # "done" /\ GiveUp(i) /\ UNCHANGED <<running, shown, where>>
        /\ ghost'.visited = ghost.visited
        /\ ghost'.answered = ghost.answered \ {i}
    BY <1>6 DEF CommandFails, InFlight, TypeOK
  <2>2. QED
    BY <2>1, GivingUpIsExcused
<1>7. ASSUME NEW i \in Radios, NEW ok \in BOOLEAN, EndScan(i, ok) PROVE PollInv'
  <2>1. /\ stage[i] = "scan" /\ WhilePolling /\ running
        /\ Complete(i, listed[i])
        /\ UNCHANGED <<running, shown, where, ghost>>
    BY <1>7, InFlightIsRunning DEF EndScan, StationsOf
  <2>2. Backed(i, listed[i]) /\ listed[i] # None
    BY <2>1, ConstantsTyped DEF WhilePolling, TypeOK
  <2>3. ASSUME NEW j \in Radios
        PROVE  /\ stage'[j] \in {"stations", "scan"} => Backed(j, listed'[j])
               /\ result'[j] # None => Backed(j, result'[j])
               /\ stage'[j] = "done" /\ j \in ghost.answered /\ Unmoved(j)
                     => result'[j] # None
    <3>1. CASE j = i
      BY <3>1, <2>1, <2>2 DEF Complete, TypeOK
    <3>2. CASE j # i
      BY <3>2, <2>1 DEF Complete, TypeOK, WhilePolling
    <3>3. QED
      BY <3>1, <3>2
  <2>4. QED
    BY <2>1, <2>3 DEF PollInv, WhilePolling, Backed, Unmoved
<1>8. ASSUME NEW c \in Clients, NEW place \in Radios \union {None}, Roam(c, place)
      PROVE  PollInv'
  BY <1>8, RoamingIsRecorded
<1>9. CASE Tick
  BY <1>9 DEF Tick, PollInv, WhilePolling, Between, Backed, Unmoved
<1>10. CASE UNCHANGED vars
  BY <1>10 DEF vars, PollInv, WhilePolling, Between, Backed, Unmoved
<1>11. QED
  BY <1>1, <1>2, <1>3, <1>4, <1>5, <1>6, <1>7, <1>8, <1>9, <1>10 DEF Next

(* Whatever fails and whoever moves, a radio that answered and whose        *)
(* stations stayed has a snapshot (api.py:159-173, 202-207, 235-244).       *)
THEOREM FailuresAlwaysContained == Spec => []FailuresAreContained
<1>1. TypeOK /\ PollInv => FailuresAreContained
  BY DEF TypeOK, PollInv, Between, Unmoved, FailuresAreContained
<1>2. QED
  BY TypeInit, TypeNext, PollInit, PollNext, <1>1, PTL DEF Spec

\* min() over the radios that list a client.
LEMMA FirstRadio ==
  ASSUME NEW S, S \subseteq Radios, S # {}
  PROVE  \E i \in S : \A j \in S : i <= j
<1> DEFINE Below == OpToRel(<, Nat)
<1>1. S \subseteq Nat
  BY RadiosAreNumbers
<1>2. IsWellFoundedOn(Below, Nat)
  BY NatLessThanWellFounded
<1> HIDE DEF Below
<1>3. PICK i \in S : \A j \in S : ~ (<<j, i>> \in Below)
  BY <1>1, <1>2, WFMin
<1>4. \A j \in S : ~ (j < i)
  BY <1>1, <1>3 DEF Below, OpToRel
<1>5. QED
  BY <1>1, <1>4

(* An association is one the client had, and the only one it had if there   *)
(* was only one (association.py:8-23, api.py:143-157).                      *)
THEOREM AssociationsAlwaysReal == Spec => []AssociationsAreReal
<1>1. TypeOK /\ PollInv => AssociationsAreReal
  <2> SUFFICES ASSUME TypeOK, PollInv, ~running, NEW c \in Clients
               PROVE  /\ ~NotConnected(c) => Association(c) \in ghost.visited[c]
                      /\ \A i \in Radios :
                            ghost.visited[c] = {i} /\ shown[i] # None => Association(c) = i
    BY DEF AssociationsAreReal
  <2> DEFINE listing == {i \in Radios : shown[i] # None /\ c \in shown[i]}
  <2>1. Association(c) = IF listing = {} THEN None
                         ELSE CHOOSE i \in listing : \A j \in listing : i <= j
    BY DEF Association
  <2>2. listing # {} => Association(c) \in listing
    BY <2>1, FirstRadio
  <2>3. \A i \in listing : i \in ghost.visited[c]
    BY DEF PollInv, Between, Backed
  <2>4. ~NotConnected(c) => Association(c) \in ghost.visited[c]
    BY <2>1, <2>2, <2>3 DEF NotConnected
  <2>5. ASSUME NEW i \in Radios, ghost.visited[c] = {i}, shown[i] # None
        PROVE  Association(c) = i
    <3>1. i \in listing
      BY <2>5 DEF PollInv, Between, Backed
    <3>2. QED
      BY <2>2, <2>3, <2>5, <3>1
  <2>6. QED
    BY <2>4, <2>5
<1>2. QED
  BY TypeInit, TypeNext, PollInit, PollNext, <1>1, PTL DEF Spec
=============================================================================
