----------------------- MODULE DiagnosticReportProofs -----------------------
(***************************************************************************)
(* Theorems about DiagnosticReport, for any radios, figures, windows and    *)
(* orders of the entities.                                                 *)
(***************************************************************************)
EXTENDS DiagnosticReport, FiniteSetTheorems, TLAPS

IsReachability(e) == e \in Diagnostics /\ e.key = "reachable"

\* After a successful poll the reachability sensors that exist are on or off.
Reachable == success => \A e \in Entities : IsReachability(e) /\ RadioOf(e) \in live =>
                           recorded[e] # {} /\ State(e) # Unavailable

\* Events are given in the order they occur, which is before they are triggered.
Successive(events) == /\ \A x \in events : x.state <= x.at
                      /\ \A x, y \in events : x.at <= y.at => x.state <= y.state

\* What an entity has recorded as an event was triggered before.
Traced(rows, events) ==
    \A row \in rows : row.event # None =>
       \E x \in events : /\ x.event = row.event /\ x.at <= row.at
                         /\ row.state \in {x.state, Unknown}
IsOccurrence(row) == row.event # None /\ row.state # Unknown
Sequential(rows) ==
    \A row, other \in rows :
       IsOccurrence(row) /\ IsOccurrence(other) /\ row.at <= other.at => row.state <= other.state

EventsKept == /\ \A r \in Radios : Successive(triggered[r])
              /\ \A e \in Incidents : /\ Traced(recorded[e], triggered[RadioOf(e)])
                                      /\ Sequential(recorded[e])

\* What an entity had recorded at a time.
Past(e, t) == {row \in recorded[e] : row.at <= t}

\* What the tool has read is what was so at the time, whatever is recorded since.
Accurate(ask) ==
    /\ ask.start \in Nat /\ ask.end \in Nat /\ ask.asked.at \in 0..now
    /\ ask.start < ask.end /\ ask.end <= ask.asked.at
    /\ DOMAIN ask.current \subseteq Diagnostics
    /\ \A e \in DOMAIN ask.current :
          /\ Past(e, ask.asked.at) # {}
          /\ Latest(Past(e, ask.asked.at)).state = ask.current[e]
          /\ ask.current[e] # Unavailable
    /\ ask.asked.success => \A e \in Entities :
          IsReachability(e) /\ RadioOf(e) \in ask.asked.live => e \in DOMAIN ask.current
    /\ ~ ask.health => Past(Internet, ask.asked.at) = {}

Recording == /\ TypeOK
             /\ Reachable
             /\ EventsKept
             /\ tool.stage = "asked" => Accurate(tool)

ReportInv == /\ Recording
             /\ CurrentIsLatest
             /\ OutagesAreReported
             /\ IncidentsAreReal
-----------------------------------------------------------------------------
(* Sorting by a strict total order, as in SurveyProofs.                    *)

\* What precedes an element also precedes what the element precedes.
LEMMA FrontGrows ==
  ASSUME NEW S, IsFiniteSet(S), NEW R, IsStrictOrder(S, R),
         NEW x \in S, NEW y \in S, <<x, y>> \in R
  PROVE  Cardinality(Preceding(S, R, x)) < Cardinality(Preceding(S, R, y))
<1>1. /\ Preceding(S, R, x) \subseteq Preceding(S, R, y) \ {x}
      /\ x \in Preceding(S, R, y) /\ Preceding(S, R, y) \subseteq S
  BY DEF Preceding, IsStrictOrder
<1>2. IsFiniteSet(Preceding(S, R, y))
  BY <1>1, FS_Subset
<1>3. /\ IsFiniteSet(Preceding(S, R, y) \ {x})
      /\ Cardinality(Preceding(S, R, y) \ {x}) = Cardinality(Preceding(S, R, y)) - 1
  BY <1>1, <1>2, FS_RemoveElement
<1>4. Cardinality(Preceding(S, R, x)) <= Cardinality(Preceding(S, R, y)) - 1
  BY <1>1, <1>3, FS_Subset
<1>5. /\ Cardinality(Preceding(S, R, x)) \in Nat
      /\ Cardinality(Preceding(S, R, y)) \in Nat
  BY <1>1, <1>2, <1>3, FS_Subset, FS_CardinalityType
<1>6. QED
  BY <1>4, <1>5

\* As many elements as precede it, each element precedes by one.
LEMMA Ranks ==
  ASSUME NEW S, IsFiniteSet(S), NEW R, IsStrictOrder(S, R)
  PROVE  /\ Cardinality(S) \in Nat
         /\ \A x \in S : Cardinality(Preceding(S, R, x)) \in 0..(Cardinality(S) - 1)
         /\ \A k \in 1..Cardinality(S) : \E x \in S : Cardinality(Preceding(S, R, x)) = k - 1
<1> DEFINE n == Cardinality(S)
           rank == [x \in S |-> Cardinality(Preceding(S, R, x)) + 1]
<1>1. n \in Nat
  BY FS_CardinalityType
<1>2. ASSUME NEW x \in S
      PROVE  Cardinality(Preceding(S, R, x)) \in 0..(n - 1)
  <2>1. Preceding(S, R, x) \subseteq S /\ x \notin Preceding(S, R, x)
    BY DEF Preceding, IsStrictOrder
  <2>2. /\ IsFiniteSet(Preceding(S, R, x))
        /\ Cardinality(Preceding(S, R, x)) <= n
        /\ n # Cardinality(Preceding(S, R, x))
    BY <2>1, FS_Subset
  <2>3. Cardinality(Preceding(S, R, x)) \in Nat
    BY <2>2, FS_CardinalityType
  <2>4. QED
    BY <1>1, <2>2, <2>3
<1>3. rank \in [S -> 1..n]
  BY <1>1, <1>2
<1>4. \A x, y \in S : rank[x] = rank[y] => x = y
  <2> SUFFICES ASSUME NEW x \in S, NEW y \in S, rank[x] = rank[y], x # y
               PROVE  FALSE
    OBVIOUS
  <2>1. Cardinality(Preceding(S, R, x)) = Cardinality(Preceding(S, R, y))
    BY <1>1, <1>2
  <2>2. <<x, y>> \in R \/ <<y, x>> \in R
    BY DEF IsStrictOrder
  <2>3. QED
    BY <2>1, <2>2, <1>2, FrontGrows
<1>5. IsFiniteSet(1..n) /\ Cardinality(1..n) = n
  BY <1>1, FS_Interval
<1>6. rank \in Surjection(S, 1..n)
  <2> HIDE DEF rank, n
  <2>1. rank \in Injection(S, 1..n)
    BY <1>3, <1>4 DEF Injection, IsInjective
  <2>2. Cardinality(S) = Cardinality(1..n)
    BY <1>5 DEF n
  <2>3. QED
    BY <2>1, <2>2, <1>5, FS_Injection
<1>7. ASSUME NEW k \in 1..n
      PROVE  \E x \in S : Cardinality(Preceding(S, R, x)) = k - 1
  <2>1. PICK x \in S : rank[x] = k
    BY <1>6 DEF Surjection
  <2>2. QED
    BY <2>1, <1>1, <1>2
<1>8. QED
  BY <1>1, <1>2, <1>7

\* Sorting yields every element once, and in order.
LEMMA Sorting ==
  ASSUME NEW S, IsFiniteSet(S), NEW R, IsStrictOrder(S, R)
  PROVE  /\ Cardinality(S) \in Nat
         /\ InOrder(S, R) \in [1..Cardinality(S) -> S]
         /\ \A x \in S : \E k \in 1..Cardinality(S) : InOrder(S, R)[k] = x
         /\ \A i, j \in 1..Cardinality(S) :
               i < j => <<InOrder(S, R)[i], InOrder(S, R)[j]>> \in R
<1> DEFINE n == Cardinality(S)
           order == InOrder(S, R)
<1>1. n \in Nat
  BY Ranks
<1>2. \A k \in 1..n : order[k] \in S /\ Cardinality(Preceding(S, R, order[k])) = k - 1
  BY Ranks DEF InOrder
<1>3. order \in [1..n -> S]
  BY <1>2 DEF InOrder
<1>4. \A x \in S : Cardinality(Preceding(S, R, x)) \in 0..(n - 1)
  BY Ranks
<1> HIDE DEF n, order
<1>5. ASSUME NEW x \in S
      PROVE  \E k \in 1..n : order[k] = x
  <2> DEFINE k == Cardinality(Preceding(S, R, x)) + 1
  <2>1. k \in 1..n /\ Cardinality(Preceding(S, R, x)) = k - 1
    BY <1>1, <1>4
  <2> HIDE DEF k
  <2>2. Cardinality(Preceding(S, R, order[k])) = Cardinality(Preceding(S, R, x)) /\ order[k] \in S
    BY <2>1, <1>2
  <2>3. Cardinality(Preceding(S, R, x)) \in Nat
    BY <1>1, <1>4
  <2>4. ASSUME order[k] # x PROVE FALSE
    <3>1. <<order[k], x>> \in R \/ <<x, order[k]>> \in R
      BY <2>2, <2>4 DEF IsStrictOrder
    <3>2. QED
      BY <2>2, <2>3, <3>1, FrontGrows
  <2>5. QED
    BY <2>1, <2>4
<1>6. ASSUME NEW i \in 1..n, NEW j \in 1..n, i < j
      PROVE  <<order[i], order[j]>> \in R
  <2>1. /\ Cardinality(Preceding(S, R, order[i])) = i - 1
        /\ Cardinality(Preceding(S, R, order[j])) = j - 1
        /\ order[i] \in S /\ order[j] \in S
    BY <1>2
  <2>2. order[i] # order[j]
    BY <1>6, <2>1, <1>1
  <2>3. CASE <<order[j], order[i]>> \in R
    <3>1. Cardinality(Preceding(S, R, order[j])) < Cardinality(Preceding(S, R, order[i]))
      BY <2>1, <2>3, FrontGrows
    <3>2. QED
      BY <1>1, <1>6, <2>1, <3>1
  <2>4. QED
    BY <2>1, <2>2, <2>3 DEF IsStrictOrder
<1>7. QED
  BY <1>1, <1>3, <1>5, <1>6 DEF n, order

\* A finite set has a first element.
LEMMA First ==
  ASSUME NEW S, IsFiniteSet(S), S # {}, NEW R, IsStrictOrder(S, R)
  PROVE  \E m \in S : \A x \in S : x = m \/ <<m, x>> \in R
<1> DEFINE n == Cardinality(S)
           order == InOrder(S, R)
<1>1. /\ n \in Nat /\ order \in [1..n -> S]
      /\ \A x \in S : \E k \in 1..n : order[k] = x
      /\ \A i, j \in 1..n : i < j => <<order[i], order[j]>> \in R
  BY Sorting
<1> HIDE DEF n, order
<1>2. 1 \in 1..n /\ \A k \in 1..n : k = 1 \/ 1 < k
  BY <1>1
<1>3. order[1] \in S
  BY <1>1, <1>2
<1>4. \A x \in S : x = order[1] \/ <<order[1], x>> \in R
  BY <1>1, <1>2
<1>5. QED
  BY <1>3, <1>4
-----------------------------------------------------------------------------
(* Rows.                                                                   *)

\* Rows of different times.
Dated(rows) == /\ \A row \in rows : row.at \in Int
               /\ \A row, other \in rows : row.at = other.at => row = other

LEMMA LatestIs ==
  ASSUME NEW rows, Dated(rows), NEW row \in rows, \A other \in rows : other.at <= row.at
  PROVE  Latest(rows) = row
<1>1. Latest(rows) \in rows /\ \A other \in rows : other.at <= Latest(rows).at
  BY DEF Latest
<1>2. row.at <= Latest(rows).at /\ Latest(rows).at <= row.at
  BY <1>1
<1>3. row.at = Latest(rows).at
  BY <1>1, <1>2 DEF Dated
<1>4. QED
  BY <1>1, <1>3 DEF Dated

LEMMA LatestExists ==
  ASSUME NEW rows, IsFiniteSet(rows), rows # {}, Dated(rows)
  PROVE  Latest(rows) \in rows /\ \A other \in rows : other.at <= Latest(rows).at
<1> DEFINE Later == {p \in rows \X rows : p[1].at > p[2].at}
<1>1. \A x, y \in rows : <<x, y>> \in Later <=> x.at > y.at
  OBVIOUS
<1> HIDE DEF Later
<1>2. IsStrictOrder(rows, Later)
  <2>1. \A x \in rows : <<x, x>> \notin Later
    BY <1>1 DEF Dated
  <2>2. ASSUME NEW x \in rows, NEW y \in rows
        PROVE  x = y \/ <<x, y>> \in Later \/ <<y, x>> \in Later
    BY <1>1 DEF Dated
  <2>3. \A x, y, z \in rows : <<x, y>> \in Later /\ <<y, z>> \in Later => <<x, z>> \in Later
    BY <1>1 DEF Dated
  <2>4. QED
    BY <2>1, <2>2, <2>3 DEF IsStrictOrder
<1>3. PICK m \in rows : \A x \in rows : x = m \/ <<m, x>> \in Later
  BY <1>2, First
<1>4. ASSUME NEW x \in rows PROVE x.at <= m.at
  <2>1. x = m \/ m.at > x.at
    BY <1>1, <1>3
  <2>2. x.at \in Int /\ m.at \in Int
    BY DEF Dated
  <2>3. QED
    BY <2>1, <2>2
<1>5. Latest(rows) = m
  BY <1>4, LatestIs
<1>6. QED
  BY <1>4, <1>5

LEMMA RowsAreDated ==
  ASSUME TypeOK, NEW e \in Entities
  PROVE  /\ Dated(recorded[e]) /\ IsFiniteSet(recorded[e]) /\ now \in Nat
         /\ \A row \in recorded[e] : row.at \in 1..now
<1>1. /\ now \in Nat
      /\ \A row \in recorded[e] : row.at \in 1..now
      /\ \A row, other \in recorded[e] : row.at = other.at => row = other
  BY StatesAssumption DEF TypeOK, Typed, Alone
<1> DEFINE date == [row \in recorded[e] |-> row.at]
<1>2. date \in Injection(recorded[e], 1..now)
  BY <1>1 DEF Injection, IsInjective
<1>3. IsFiniteSet(1..now)
  BY <1>1, FS_Interval
<1>4. IsFiniteSet(recorded[e])
  BY <1>2, <1>3, FS_Injection
<1>5. QED
  BY <1>1, <1>4 DEF Dated

LEMMA EventsAreDated ==
  ASSUME TypeOK, NEW r \in Radios
  PROVE  Dated(triggered[r]) /\ IsFiniteSet(triggered[r])
<1>1. /\ now \in Nat
      /\ \A x \in triggered[r] : x.at \in 1..now
      /\ \A x, y \in triggered[r] : x.at = y.at => x = y
  BY StatesAssumption DEF TypeOK, Alone
<1> DEFINE date == [x \in triggered[r] |-> x.at]
<1>2. date \in Injection(triggered[r], 1..now)
  BY <1>1 DEF Injection, IsInjective
<1>3. IsFiniteSet(1..now)
  BY <1>1, FS_Interval
<1>4. IsFiniteSet(triggered[r])
  BY <1>2, <1>3, FS_Injection
<1>5. QED
  BY <1>1, <1>4 DEF Dated

LEMMA WriteAdds ==
  ASSUME NEW rows, NEW row
  PROVE  Write(rows, row) \in {rows, rows \union {row}}
  BY DEF Write

\* What is written is what an entity has from then on.
LEMMA WriteIsLatest ==
  ASSUME NEW rows, Dated(rows), NEW row, row.at \in Int, \A other \in rows : other.at < row.at
  PROVE  Write(rows, row) # {} /\ Latest(Write(rows, row)).state = row.state
<1>1. CASE rows # {} /\ Latest(rows).state = row.state
  BY <1>1 DEF Write
<1>2. CASE ~ (rows # {} /\ Latest(rows).state = row.state)
  <2>1. Write(rows, row) = rows \union {row}
    BY <1>2 DEF Write
  <2>2. Dated(rows \union {row}) /\ \A other \in rows \union {row} : other.at <= row.at
    BY DEF Dated
  <2>3. Latest(rows \union {row}) = row
    BY <2>2, LatestIs
  <2>4. QED
    BY <2>1, <2>3
<1>3. QED
  BY <1>1, <1>2
-----------------------------------------------------------------------------
(* Entities and what they record.                                          *)

LEMMA Kinds ==
  /\ \A e \in Diagnostics : /\ e.key \in {"utilization", "congested", "reachable"}
                            /\ RadioOf(e) \in Radios /\ e \in Entities /\ e \notin Incidents
                            /\ e # Internet
  /\ \A e \in Incidents : /\ e.key = "incident" /\ e \in Entities /\ RadioOf(e) \in Radios
                          /\ e \notin Diagnostics /\ e # Internet
  /\ Internet.key = "internet" /\ Internet \in Entities /\ Internet \notin Incidents
  /\ Internet \notin Diagnostics /\ RadioOf(Internet) \notin Radios
<1>1. ASSUME NEW r \in Radios, NEW key
      PROVE  /\ Entity(key, r).key = key
             /\ RadioOf(Entity(key, r)) = r
  BY RadiosAssumption DEF Entity, RadioOf
<1>2. \A e \in Incidents : e.key = "incident" /\ RadioOf(e) \in Radios
  BY <1>1 DEF Incidents
<1>3. \A e \in Diagnostics : /\ e.key \in {"utilization", "congested", "reachable"}
                             /\ RadioOf(e) \in Radios
  BY <1>1 DEF Diagnostics
<1>4. Internet.key = "internet" /\ RadioOf(Internet).node = None
  BY DEF Internet, RadioOf
<1>5. RadioOf(Internet) \notin Radios
  BY <1>4, RadiosAssumption
<1>6. QED
  BY <1>2, <1>3, <1>4, <1>5 DEF Entities

\* A node has one reachability sensor.
LEMMA ReachabilityIsUnique ==
  ASSUME NEW e, NEW f, IsReachability(e), IsReachability(f), e.node = f.node
  PROVE  e = f
<1>1. ASSUME NEW x, IsReachability(x)
      PROVE  x = [key |-> "reachable", node |-> x.node, band |-> "2.4"]
  BY <1>1 DEF IsReachability, Diagnostics, Entity
<1>2. QED
  BY <1>1

LEMMA StateIsTyped ==
  ASSUME NEW e \in Diagnostics, NEW ok, NEW some, NEW t \in 0..MaxTime
  PROVE  StateOf(e, ok, some, t) \in
            (IF e.key = "utilization" THEN Int ELSE {"on", "off"}) \union {Unavailable}
<1>1. e.key \in {"utilization", "congested", "reachable"} /\ RadioOf(e) \in Radios
  BY Kinds
<1>2. Utilization(RadioOf(e), t) \in Int
  BY <1>1, StatesAssumption
<1>3. QED
  BY <1>1, <1>2 DEF StateOf, OnOff

\* What a step may add to what an entity has recorded.
IsNew(e, row) == row.at \in (now + 1)..now' /\ Typed(e, row, now')
Adds(e) == \E new : /\ recorded'[e] = recorded[e] \union new
                    /\ \A row \in new : IsNew(e, row)
                    /\ Alone(new)

LEMMA WriteAddsTyped ==
  ASSUME NEW e, NEW row, IsNew(e, row), recorded'[e] = Write(recorded[e], row)
  PROVE  Adds(e)
<1>1. recorded'[e] \in {recorded[e] \union {}, recorded[e] \union {row}}
  BY WriteAdds
<1>2. Alone({}) /\ Alone({row})
  BY DEF Alone
<1>3. QED
  BY <1>1, <1>2 DEF Adds

LEMMA SameAdds ==
  ASSUME NEW e, recorded'[e] = recorded[e]
  PROVE  Adds(e)
<1>1. recorded'[e] = recorded[e] \union {} /\ Alone({})
  BY DEF Alone
<1>2. QED
  BY <1>1 DEF Adds

\* The rows that are written are of the kinds their entities have.
LEMMA RowsAreTyped ==
  ASSUME now \in Nat, now' \in {now + 1, now + 2}, now' \in 1..MaxTime, NEW e \in Entities
  PROVE  /\ e \in Diagnostics =>
               \A ok, some : IsNew(e, Row(now + 1, StateOf(e, ok, some, now + 1), None))
         /\ \A state \in {Unavailable, Unknown} : IsNew(e, Row(now + 1, state, None))
         /\ \A on \in BOOLEAN : IsNew(Internet, Row(now + 1, OnOff(on), None))
<1>0. now + 1 \in 1..now' /\ now + 1 \in 0..MaxTime /\ now + 1 \in (now + 1)..now'
  BY StatesAssumption
<1>1. ASSUME e \in Diagnostics, NEW ok, NEW some
      PROVE  IsNew(e, Row(now + 1, StateOf(e, ok, some, now + 1), None))
  <2>1. StateOf(e, ok, some, now + 1) \in
            (IF e.key = "utilization" THEN Int ELSE {"on", "off"}) \union {Unavailable}
    BY <1>0, <1>1, StateIsTyped
  <2>2. e.key \in {"utilization", "congested", "reachable"}
    BY <1>1, Kinds
  <2> DEFINE state == StateOf(e, ok, some, now + 1)
  <2>3. state \in Values(e, now') \union {Unavailable, Unknown}
    BY <2>1, <2>2 DEF Values
  <2> HIDE DEF state
  <2>4. QED
    BY <1>0, <2>3 DEF IsNew, Typed, Row, state
<1>2. \A state \in {Unavailable, Unknown} : IsNew(e, Row(now + 1, state, None))
  BY <1>0 DEF IsNew, Typed, Row
<1>3. ASSUME NEW on \in BOOLEAN PROVE IsNew(Internet, Row(now + 1, OnOff(on), None))
  <2>1. OnOff(on) \in Values(Internet, now')
    BY Kinds DEF Values, OnOff
  <2>2. QED
    BY <1>0, <2>1 DEF IsNew, Typed, Row
<1>4. QED
  BY <1>1, <1>2, <1>3

LEMMA Ages ==
  ASSUME NEW e, NEW row, NEW t \in Nat, NEW later \in Nat, t <= later, Typed(e, row, t)
  PROVE  Typed(e, row, later)
<1>1. 1..t \subseteq 1..later /\ Values(e, t) \subseteq Values(e, later)
  BY DEF Values
<1>2. QED
  BY <1>1 DEF Typed

\* The incidents of an update.
LEMMA RaisedIsTyped ==
  ASSUME NEW r \in Radios, NEW some, NEW further \in Causes
  PROVE  /\ Raised(r, some, further) \in Seq(EVENT_TYPES)
         /\ Len(Raised(r, some, further)) \in 0..2
<1>1. /\ <<>> \in Seq(EVENT_TYPES) /\ Len(<<>>) = 0
      /\ \A event \in EVENT_TYPES : <<event>> \in Seq(EVENT_TYPES) /\ Len(<<event>>) = 1
  OBVIOUS
<1>2. "node_recovered" \in EVENT_TYPES /\ "node_unreachable" \in EVENT_TYPES
  BY DEF EVENT_TYPES
<1>3. further[r] \in Seq(OTHER_EVENTS) /\ Len(further[r]) <= 2
  BY CausesAssumption
<1>4. further[r] \in Seq(EVENT_TYPES) /\ Len(further[r]) \in 0..2
  <2>1. OTHER_EVENTS \subseteq EVENT_TYPES
    BY DEF EVENT_TYPES
  <2> HIDE DEF EVENT_TYPES, OTHER_EVENTS
  <2>2. Len(further[r]) \in Nat /\ further[r] \in [1..Len(further[r]) -> OTHER_EVENTS]
    BY <1>3
  <2>3. further[r] \in [1..Len(further[r]) -> EVENT_TYPES]
    BY <2>1, <2>2
  <2>4. further[r] \in Seq(EVENT_TYPES)
    BY <2>2, <2>3
  <2> DEFINE n == Len(further[r])
  <2>5. n \in Nat /\ n <= 2
    BY <1>3, <2>2
  <2> HIDE DEF n
  <2>6. n \in 0..2
    BY <2>5
  <2>7. QED
    BY <2>4, <2>6 DEF n
<1>5. QED
  BY <1>1, <1>2, <1>4 DEF Raised

\* They become rows of their own, one after the other, even if their states are alike.
LEMMA EventsAreTyped ==
  ASSUME NEW causes \in Seq(EVENT_TYPES), NEW t \in Nat, 0 < t, NEW last \in Nat,
         t + Len(causes) - 1 <= last, NEW same \in BOOLEAN
  PROVE  LET new == Events(causes, t, same)
         IN  /\ \A x \in new : /\ x \in [at : t..last, state : t..last, event : EVENT_TYPES]
                               /\ x.state <= x.at
             /\ Alone(new)
             /\ \A x, y \in new : x.at <= y.at => x.state <= y.state
<1> DEFINE at(k) == t + k - 1
           state(k) == IF same THEN t ELSE at(k)
           new == Events(causes, t, same)
<1>1. /\ Len(causes) \in Nat /\ DOMAIN causes = 1..Len(causes)
      /\ \A k \in DOMAIN causes : causes[k] \in EVENT_TYPES
  OBVIOUS
<1>2. \A k \in DOMAIN causes : /\ at(k) \in t..last /\ state(k) \in t..last
                               /\ state(k) <= at(k)
  BY <1>1
<1>3. \A j, k \in DOMAIN causes : /\ at(j) = at(k) => j = k
                                  /\ at(j) <= at(k) => state(j) <= state(k)
  BY <1>1
<1>4. new = {[at |-> at(k), state |-> state(k), event |-> causes[k]] : k \in DOMAIN causes}
  BY DEF Events, Row
<1> HIDE DEF at, state, new
<1>5. \A x \in new : \E k \in DOMAIN causes :
         x = [at |-> at(k), state |-> state(k), event |-> causes[k]]
  BY <1>4
<1>6. \A x \in new : /\ x \in [at : t..last, state : t..last, event : EVENT_TYPES]
                     /\ x.state <= x.at
  BY <1>1, <1>2, <1>5
<1>7. ASSUME NEW x \in new, NEW y \in new
      PROVE  /\ x.at = y.at => x = y
             /\ x.at <= y.at => x.state <= y.state
  <2>1. PICK j \in DOMAIN causes : x = [at |-> at(j), state |-> state(j), event |-> causes[j]]
    BY <1>5
  <2>2. PICK k \in DOMAIN causes : y = [at |-> at(k), state |-> state(k), event |-> causes[k]]
    BY <1>5
  <2>3. QED
    BY <1>3, <2>1, <2>2
<1>8. QED
  BY <1>6, <1>7 DEF Alone, new

LEMMA RestoredIsNew ==
  ASSUME TypeOK, NEW e \in Incidents, now' = now + 1, now' \in 1..MaxTime
  PROVE  IsNew(e, Restored(RadioOf(e), recorded[e], now'))
<1> DEFINE r == RadioOf(e)
<1>1. e \in Entities /\ r \in Radios /\ now \in Nat /\ e.key = "incident"
  BY Kinds, StatesAssumption DEF TypeOK
<1>2. CASE triggered[r] = {}
  <2>1. Restored(r, recorded[e], now') = Row(now', Unknown, None)
    BY <1>2 DEF Restored
  <2>2. QED
    BY <1>1, <2>1, RowsAreTyped
<1>3. CASE triggered[r] # {}
  <2>1. PICK last \in triggered[r] : last = Latest(triggered[r])
    BY <1>1, <1>3, EventsAreDated, LatestExists
  <2>2. last.state \in 1..now /\ last.event \in EVENT_TYPES
    BY <1>1, <2>1 DEF TypeOK
  <2>3. PICK state \in {last.state, Unknown} :
           Restored(r, recorded[e], now') = Row(now', state, last.event)
    BY <1>3, <2>1 DEF Restored
  <2>4. state \in Values(e, now') \union {Unavailable, Unknown}
    BY <1>1, <2>2 DEF Values
  <2>5. state # Unavailable
    BY <1>1, <2>2, StatesAssumption
  <2>6. now' \in 1..now' /\ now' \in (now + 1)..now'
    BY <1>1
  <2>7. QED
    BY <2>2, <2>3, <2>4, <2>5, <2>6 DEF IsNew, Typed, Row
<1>4. QED
  BY <1>2, <1>3

\* The steps by name.
SetsUp == \E found \in Discoveries, some \in Answers : SetUp(found, some)
Polls == \E some \in Answers, further \in Causes, same \in BOOLEAN : Poll(some, further, same)
Fails == \E further \in Causes : PollFails(further)
Recorders == SetsUp \/ Polls \/ Fails \/ Unload \/ InternetChanges

LEMMA TimePasses ==
  ASSUME TypeOK, Recorders
  PROVE  /\ now \in Nat /\ now' \in {now + 1, now + 2} /\ now' \in 1..MaxTime
         /\ ~ Polls => now' = now + 1
         /\ tool' = tool /\ tool.stage # "done"
<1>1. now \in Nat /\ MaxTime \in Nat
  BY StatesAssumption DEF TypeOK
<1>2. tool' = tool
  BY DEF Recorders, SetsUp, Polls, Fails, SetUp, Poll, PollFails, Unload, InternetChanges
<1>3. ASSUME SetsUp \/ Fails \/ Unload \/ InternetChanges PROVE Tick(1)
  BY <1>3 DEF SetsUp, Fails, SetUp, PollFails, Unload, InternetChanges
<1>4. ASSUME Polls PROVE Tick(1) \/ Tick(2)
  BY <1>4 DEF Polls, Poll
<1>5. QED
  BY <1>1, <1>2, <1>3, <1>4 DEF Recorders, Tick

\* What a successful poll triggers, and writes.
PollEvents(r, some, further, same) == Events(Raised(r, some, further), now + 1, same)

LEMMA PollTriggers ==
  ASSUME TypeOK, NEW some \in Answers, NEW further \in Causes, NEW same \in BOOLEAN,
         Poll(some, further, same), NEW r \in Radios
  PROVE  LET new == PollEvents(r, some, further, same)
         IN  /\ triggered'[r] = triggered[r] \union new
             /\ \A x \in new : /\ x \in [at : (now + 1)..now', state : (now + 1)..now',
                                         event : EVENT_TYPES]
                               /\ x.state <= x.at
             /\ Alone(new)
             /\ \A x, y \in new : x.at <= y.at => x.state <= y.state
<1> DEFINE raised == [x \in Radios |-> Raised(x, some, further)]
           new == PollEvents(r, some, further, same)
<1>1. now \in Nat
  BY StatesAssumption DEF TypeOK
<1>2. raised[r] \in Seq(EVENT_TYPES) /\ Len(raised[r]) \in 0..2
  BY RaisedIsTyped
<1>3. now' = now + (IF \E x \in Radios : Len(raised[x]) > 1 THEN 2 ELSE 1)
  BY DEF Poll, Tick
<1>4. now' \in Nat /\ now + 1 + Len(raised[r]) - 1 <= now'
  <2> DEFINE two == \E x \in Radios : Len(raised[x]) > 1
             n == Len(raised[r])
  <2>1. n \in 0..2 /\ (n > 1 => two) /\ now' = now + (IF two THEN 2 ELSE 1)
    BY <1>2, <1>3
  <2> HIDE DEF two, n
  <2>2. now' \in Nat /\ now + 1 + n - 1 <= now'
    BY <1>1, <2>1
  <2>3. QED
    BY <2>2 DEF n
<1>5. raised[r] = Raised(r, some, further)
  OBVIOUS
<1>6. triggered'[r] = triggered[r] \union new
  BY DEF Poll, PollEvents
<1> HIDE DEF raised
<1>7. QED
  BY <1>1, <1>2, <1>4, <1>5, <1>6, EventsAreTyped DEF PollEvents

LEMMA PollRecords ==
  ASSUME TypeOK, NEW some \in Answers, NEW further \in Causes, NEW same \in BOOLEAN,
         Poll(some, further, same), NEW e \in Entities
  PROVE  /\ e \in Diagnostics => recorded'[e] = Shown(e, TRUE, some, now + 1)
         /\ e = Internet => recorded'[e] = recorded[e]
  BY Kinds DEF Poll

\* The radios whose trackers complete a minute when a poll has failed.
FailedHigh(further) == {r \in live \intersect answered :
                           /\ success /\ tracked
                           /\ "high_utilization" \in ToSet(further[r])}
FailedEvent == Row(now + 1, now + 1, "high_utilization")

LEMMA FailureRecords ==
  ASSUME TypeOK, NEW further \in Causes, PollFails(further)
  PROVE  /\ DOMAIN triggered' = Radios
         /\ \A r \in Radios : triggered'[r] =
               triggered[r] \union (IF r \in FailedHigh(further) THEN {FailedEvent} ELSE {})
         /\ \A e \in Incidents : recorded'[e] =
               IF RadioOf(e) \in FailedHigh(further)
               THEN Write(recorded[e], Row(now + 1, Unavailable, None)) ELSE recorded[e]
         /\ \A e \in Diagnostics : recorded'[e] = Shown(e, FALSE, answered, now + 1)
         /\ recorded'[Internet] = recorded[Internet]
  BY Kinds DEF PollFails, FailedHigh, FailedEvent

LEMMA ShownAdds ==
  ASSUME now \in Nat, now' \in {now + 1, now + 2}, now' \in 1..MaxTime,
         NEW e \in Diagnostics, NEW ok, NEW some, recorded'[e] = Shown(e, ok, some, now + 1)
  PROVE  Adds(e)
<1>1. CASE RadioOf(e) \in live
  <2>1. recorded'[e] = Write(recorded[e], Row(now + 1, StateOf(e, ok, some, now + 1), None))
    BY <1>1 DEF Shown
  <2>2. IsNew(e, Row(now + 1, StateOf(e, ok, some, now + 1), None))
    BY Kinds, RowsAreTyped
  <2>3. QED
    BY <2>1, <2>2, WriteAddsTyped
<1>2. CASE RadioOf(e) \notin live
  BY <1>2, SameAdds DEF Shown
<1>3. QED
  BY <1>1, <1>2

LEMMA RecordersAdd ==
  ASSUME TypeOK, Recorders
  PROVE  DOMAIN recorded' = Entities /\ \A e \in Entities : Adds(e)
<1>1. now \in Nat /\ now' \in {now + 1, now + 2} /\ now' \in 1..MaxTime
  BY TimePasses
<1>2. ASSUME NEW found \in Discoveries, NEW some \in Answers, SetUp(found, some)
      PROVE  DOMAIN recorded' = Entities /\ \A e \in Entities : Adds(e)
  <2>1. now' = now + 1
    BY <1>2 DEF SetUp, Tick
  <2>2. ASSUME NEW e \in Entities PROVE Adds(e)
    <3>1. CASE RadioOf(e) \notin found
      BY <1>2, <3>1, SameAdds DEF SetUp
    <3>2. CASE RadioOf(e) \in found /\ e \in Incidents
      <4>1. recorded'[e] = Write(recorded[e], Restored(RadioOf(e), recorded[e], now'))
        BY <1>2, <3>2 DEF SetUp
      <4>2. QED
        BY <1>1, <2>1, <3>2, <4>1, RestoredIsNew, WriteAddsTyped
    <3>3. CASE RadioOf(e) \in found /\ e \notin Incidents
      <4>1. recorded'[e] = Write(recorded[e], Row(now + 1, StateOf(e, TRUE, some, now + 1), None))
        BY <1>2, <2>1, <3>3 DEF SetUp
      <4>2. e \in Diagnostics
        BY <3>3, Kinds, RadiosAssumption DEF Entities
      <4>3. IsNew(e, Row(now + 1, StateOf(e, TRUE, some, now + 1), None))
        BY <1>1, <4>2, RowsAreTyped
      <4>4. QED
        BY <4>1, <4>3, WriteAddsTyped
    <3>4. QED
      BY <3>1, <3>2, <3>3
  <2>3. QED
    BY <1>2, <2>2 DEF SetUp
<1>3. ASSUME NEW some \in Answers, NEW further \in Causes, NEW same \in BOOLEAN,
             Poll(some, further, same)
      PROVE  DOMAIN recorded' = Entities /\ \A e \in Entities : Adds(e)
  <2>1. ASSUME NEW e \in Incidents PROVE Adds(e)
    <3> DEFINE new == PollEvents(RadioOf(e), some, further, same)
    <3>1. e \in Entities /\ RadioOf(e) \in Radios /\ e.key = "incident"
      BY Kinds
    <3>2. recorded'[e] = recorded[e] \union new
      BY <1>3, <2>1, Kinds DEF Poll, PollEvents
    <3>3. /\ \A x \in new : x \in [at : (now + 1)..now', state : (now + 1)..now',
                                   event : EVENT_TYPES]
          /\ Alone(new)
      BY <1>3, <3>1, PollTriggers
    <3> HIDE DEF new
    <3>4. (now + 1)..now' \subseteq 1..now' /\ Values(e, now') = 1..now'
      BY <1>1, <3>1 DEF Values
    <3>5. Unavailable \notin 1..now'
      BY StatesAssumption
    <3>6. \A x \in new : IsNew(e, x)
      BY <3>3, <3>4, <3>5 DEF IsNew, Typed
    <3>7. QED
      BY <3>2, <3>3, <3>6 DEF Adds
  <2>2. ASSUME NEW e \in Diagnostics PROVE Adds(e)
    BY <1>1, <1>3, Kinds, PollRecords, ShownAdds
  <2>3. Adds(Internet)
    BY <1>3, Kinds, PollRecords, SameAdds
  <2>4. DOMAIN recorded' = Entities
    BY <1>3 DEF Poll
  <2>5. QED
    BY <2>1, <2>2, <2>3, <2>4 DEF Entities
<1>4. ASSUME NEW further \in Causes, PollFails(further)
      PROVE  DOMAIN recorded' = Entities /\ \A e \in Entities : Adds(e)
  <2>1. ASSUME NEW e \in Incidents PROVE Adds(e)
    <3>1. e \in Entities
      BY Kinds
    <3>2. recorded'[e] = IF RadioOf(e) \in FailedHigh(further)
               THEN Write(recorded[e], Row(now + 1, Unavailable, None)) ELSE recorded[e]
      BY <1>4, FailureRecords
    <3>3. IsNew(e, Row(now + 1, Unavailable, None))
      BY <1>1, <3>1, RowsAreTyped
    <3>4. QED
      BY <3>2, <3>3, WriteAddsTyped, SameAdds
  <2>2. ASSUME NEW e \in Diagnostics PROVE Adds(e)
    BY <1>1, <1>4, FailureRecords, ShownAdds
  <2>3. Adds(Internet)
    BY <1>4, FailureRecords, SameAdds
  <2>4. DOMAIN recorded' = Entities
    BY <1>4 DEF PollFails
  <2>5. QED
    BY <2>1, <2>2, <2>3, <2>4 DEF Entities
<1>5. CASE Unload
  <2>1. now' = now + 1
    BY <1>5 DEF Unload, Tick
  <2>2. ASSUME NEW e \in Entities PROVE Adds(e)
    <3>1. recorded'[e] = IF RadioOf(e) \in live THEN Write(recorded[e], Row(now + 1, Unavailable, None))
                                                ELSE recorded[e]
      BY <1>5, <2>1 DEF Unload
    <3>2. IsNew(e, Row(now + 1, Unavailable, None))
      BY <1>1, RowsAreTyped
    <3>3. QED
      BY <3>1, <3>2, WriteAddsTyped, SameAdds
  <2>3. QED
    BY <1>5, <2>2 DEF Unload
<1>6. CASE InternetChanges
  <2> DEFINE on == recorded[Internet] = {} \/ Latest(recorded[Internet]).state = "off"
             row == Row(now + 1, OnOff(on), None)
  <2>1. /\ DOMAIN recorded' = Entities
        /\ \A e \in Entities : e # Internet => recorded'[e] = recorded[e]
        /\ recorded'[Internet] = recorded[Internet] \union {row}
    BY <1>6, Kinds DEF InternetChanges, Tick, TypeOK
  <2>2. IsNew(Internet, row)
    <3> HIDE DEF on
    <3>1. \A b \in BOOLEAN : IsNew(Internet, Row(now + 1, OnOff(b), None))
      BY <1>1, Kinds, RowsAreTyped
    <3>2. on \in BOOLEAN
      BY DEF on
    <3>3. QED
      BY <3>1, <3>2
  <2> HIDE DEF row
  <2>3. Alone({row})
    BY DEF Alone
  <2>4. Adds(Internet)
    BY <2>1, <2>2, <2>3 DEF Adds
  <2>5. QED
    BY <2>1, <2>4, SameAdds
<1>7. QED
  BY <1>2, <1>3, <1>4, <1>5, <1>6 DEF Recorders, SetsUp, Polls, Fails
-----------------------------------------------------------------------------
(* Recording.                                                              *)

LEMMA TypeInit == Init => TypeOK
<1> SUFFICES ASSUME Init PROVE TypeOK
  OBVIOUS
<1>1. loaded \in BOOLEAN /\ success \in BOOLEAN /\ tracked \in BOOLEAN /\ (success => loaded)
  BY Zenon DEF Init
<1>2. /\ now \in 0..MaxTime /\ answered \subseteq Radios /\ live \subseteq Radios
      /\ DOMAIN recorded = Entities /\ \A e \in Entities : recorded[e] = {}
      /\ DOMAIN triggered = Radios /\ \A r \in Radios : triggered[r] = {}
  BY StatesAssumption DEF Init
<1>3. tool.stage = "idle" /\ Alone({})
  BY DEF Init, Idle, Alone
<1>4. QED
  BY <1>1, <1>2, <1>3 DEF TypeOK

\* What is new does not disturb what there was.
LEMMA UnionIsAlone ==
  ASSUME NEW old, NEW new, NEW t \in Int, Alone(old), Alone(new),
         \A x \in old : x.at \in Int /\ x.at <= t, \A x \in new : x.at \in Int /\ x.at > t
  PROVE  Alone(old \union new)
  BY DEF Alone

LEMMA TriggeredIsTyped ==
  ASSUME TypeOK, Recorders
  PROVE  /\ DOMAIN triggered' = Radios
         /\ \A r \in Radios :
               /\ triggered'[r] \subseteq [at : 1..now', state : 1..now', event : EVENT_TYPES]
               /\ Alone(triggered'[r])
<1>1. now \in Nat /\ now' \in {now + 1, now + 2} /\ now' \in 1..MaxTime
  BY TimePasses
<1>2. ASSUME NEW r \in Radios, NEW new, triggered'[r] = triggered[r] \union new, Alone(new),
             new \subseteq [at : (now + 1)..now', state : (now + 1)..now', event : EVENT_TYPES]
      PROVE  /\ triggered'[r] \subseteq [at : 1..now', state : 1..now', event : EVENT_TYPES]
             /\ Alone(triggered'[r])
  <2>1. triggered[r] \subseteq [at : 1..now, state : 1..now, event : EVENT_TYPES] /\ Alone(triggered[r])
    BY DEF TypeOK
  <2>2. 1..now \subseteq 1..now' /\ (now + 1)..now' \subseteq 1..now'
    BY <1>1
  <2>3. triggered'[r] \subseteq [at : 1..now', state : 1..now', event : EVENT_TYPES]
    BY <1>2, <2>1, <2>2
  <2>4. Alone(triggered'[r])
    <3>1. \A x \in triggered[r] : x.at \in Int /\ x.at <= now
      BY <1>1, <2>1
    <3>2. \A x \in new : x.at \in Int /\ x.at > now
      BY <1>1, <1>2
    <3>3. QED
      BY <1>1, <1>2, <2>1, <3>1, <3>2, UnionIsAlone
  <2>5. QED
    BY <2>3, <2>4
<1>3. Alone({})
  BY DEF Alone
<1>4. CASE Polls
  <2>1. PICK some \in Answers, further \in Causes, same \in BOOLEAN : Poll(some, further, same)
    BY <1>4 DEF Polls
  <2>2. DOMAIN triggered' = Radios
    BY <2>1 DEF Poll
  <2>3. QED
    BY <1>2, <2>1, <2>2, PollTriggers
<1>5. CASE Fails
  <2>1. PICK further \in Causes : PollFails(further)
    BY <1>5 DEF Fails
  <2>2. /\ FailedEvent \in [at : (now + 1)..now', state : (now + 1)..now', event : EVENT_TYPES]
        /\ Alone({FailedEvent})
    BY <1>1 DEF FailedEvent, Row, EVENT_TYPES, OTHER_EVENTS, Alone
  <2>3. QED
    BY <1>2, <1>3, <2>1, <2>2, FailureRecords
<1>6. CASE SetsUp \/ Unload \/ InternetChanges
  <2>1. triggered' = triggered
    BY <1>6 DEF SetsUp, SetUp, Unload, InternetChanges, integration
  <2>2. QED
    BY <1>2, <1>3, <2>1 DEF TypeOK
<1>7. QED
  BY <1>4, <1>5, <1>6 DEF Recorders

LEMMA TypeRecorded ==
  ASSUME TypeOK, Recorders
  PROVE  TypeOK'
<1>1. /\ now \in Nat /\ now' \in {now + 1, now + 2} /\ now' \in 1..MaxTime /\ tool' = tool
  BY TimePasses
<1>2. /\ loaded' \in BOOLEAN /\ success' \in BOOLEAN /\ tracked' \in BOOLEAN
      /\ success' => loaded'
  <2>1. loaded \in BOOLEAN /\ success \in BOOLEAN /\ tracked \in BOOLEAN /\ (success => loaded)
    BY Zenon DEF TypeOK
  <2>2. ASSUME SetsUp \/ Polls
        PROVE  loaded' = TRUE /\ success' = TRUE /\ tracked' \in BOOLEAN
    <3>1. ASSUME NEW found, NEW some, SetUp(found, some)
          PROVE  loaded' = TRUE /\ success' = TRUE /\ tracked' \in BOOLEAN
      BY <3>1, Zenon DEF SetUp
    <3>2. ASSUME NEW some, NEW further, NEW same, Poll(some, further, same)
          PROVE  loaded' = TRUE /\ success' = TRUE /\ tracked' \in BOOLEAN
      BY <3>2, Zenon DEF Poll
    <3>3. QED
      BY <2>2, <3>1, <3>2, Zenon DEF SetsUp, Polls
  <2>3. ASSUME Fails \/ Unload
        PROVE  /\ loaded' \in BOOLEAN /\ success' = FALSE /\ tracked' \in BOOLEAN
    <3>1. ASSUME NEW further, PollFails(further)
          PROVE  loaded' \in BOOLEAN /\ success' = FALSE /\ tracked' \in BOOLEAN
      BY <2>1, <3>1, Zenon DEF PollFails
    <3>2. ASSUME Unload PROVE loaded' \in BOOLEAN /\ success' = FALSE /\ tracked' \in BOOLEAN
      BY <3>2, Zenon DEF Unload
    <3>3. QED
      BY <2>3, <3>1, <3>2, Zenon DEF Fails
  <2>4. ASSUME InternetChanges
        PROVE  /\ loaded' \in BOOLEAN /\ success' \in BOOLEAN /\ tracked' \in BOOLEAN
               /\ success' => loaded'
    <3>1. loaded' = loaded /\ success' = success /\ tracked' = tracked
      BY <2>4 DEF InternetChanges, integration
    <3>2. QED
      BY <2>1, <3>1, Zenon
  <2>5. QED
    BY <2>2, <2>3, <2>4, Zenon DEF Recorders
<1>3. answered' \subseteq Radios /\ live' \subseteq Radios
  <2>1. CASE SetsUp
    BY <2>1, RadiosAssumption DEF SetsUp, SetUp
  <2>2. CASE Polls
    <3>1. ASSUME NEW some \in Answers, NEW further, NEW same, Poll(some, further, same)
          PROVE  answered' = some /\ live' = live
      BY <3>1 DEF Poll
    <3>2. QED
      BY <2>2, <3>1, RadiosAssumption DEF Polls, TypeOK
  <2>3. CASE Fails
    <3>1. ASSUME NEW further, PollFails(further)
          PROVE  answered' = answered /\ live' = live
      BY <3>1 DEF PollFails
    <3>2. QED
      BY <2>3, <3>1 DEF Fails, TypeOK
  <2>4. CASE Unload \/ InternetChanges
    BY <2>4 DEF Unload, InternetChanges, integration, TypeOK
  <2>5. QED
    BY <2>1, <2>2, <2>3, <2>4 DEF Recorders
<1>4. DOMAIN recorded' = Entities /\ \A e \in Entities : Adds(e)
  BY RecordersAdd
<1>5. ASSUME NEW e \in Entities
      PROVE  (\A row \in recorded'[e] : Typed(e, row, now')) /\ Alone(recorded'[e])
  <2>1. /\ \A row \in recorded[e] : Typed(e, row, now')
        /\ Alone(recorded[e])
        /\ \A row \in recorded[e] : row.at \in 1..now
    BY <1>1, Ages, RowsAreDated DEF TypeOK
  <2>2. PICK new : /\ recorded'[e] = recorded[e] \union new
                   /\ \A row \in new : IsNew(e, row)
                   /\ Alone(new)
    BY <1>4 DEF Adds
  <2>3. /\ \A row \in recorded[e] : row.at \in Int /\ row.at <= now
        /\ \A row \in new : row.at \in Int /\ row.at > now
    BY <1>1, <2>1, <2>2 DEF IsNew
  <2>4. Alone(recorded[e] \union new)
    BY <1>1, <2>1, <2>2, <2>3, UnionIsAlone
  <2>5. QED
    BY <2>1, <2>2, <2>4 DEF IsNew
<1>6. now' \in 0..MaxTime
  BY <1>1
<1>7. tool'.stage \in {"idle", "asked", "done"}
  BY <1>1 DEF TypeOK
<1>8. QED
  BY <1>2, <1>3, <1>4, <1>5, <1>6, <1>7, TriggeredIsTyped DEF TypeOK

\* What was recorded at a time stays so.
LEMMA PastStays ==
  ASSUME TypeOK, Recorders, NEW e \in Entities, NEW t \in 0..now
  PROVE  Past(e, t)' = Past(e, t)
<1>1. now \in Nat
  BY TimePasses
<1>2. PICK new : /\ recorded'[e] = recorded[e] \union new
                 /\ \A row \in new : IsNew(e, row)
  BY RecordersAdd DEF Adds
<1>3. \A row \in new : ~ (row.at <= t)
  BY <1>1, <1>2 DEF IsNew
<1>4. QED
  BY <1>2, <1>3 DEF Past

\* A sensor that exists is on or off after a successful poll.
LEMMA ReachableWritten ==
  ASSUME TypeOK, now \in Nat, NEW e \in Entities, IsReachability(e), NEW some,
         recorded'[e] = Write(recorded[e], Row(now + 1, StateOf(e, TRUE, some, now + 1), None))
  PROVE  recorded'[e] # {} /\ State(e)' # Unavailable
<1> DEFINE row == Row(now + 1, StateOf(e, TRUE, some, now + 1), None)
<1>1. StateOf(e, TRUE, some, now + 1) \in {"on", "off"}
  BY DEF IsReachability, StateOf, Available, OnOff
<1>2. row.at = now + 1 /\ row.state # Unavailable
  BY <1>1, StatesAssumption DEF Row
<1> HIDE DEF row
<1>3. Dated(recorded[e]) /\ \A other \in recorded[e] : other.at < row.at
  <2>1. Dated(recorded[e]) /\ \A other \in recorded[e] : other.at \in 1..now
    BY RowsAreDated
  <2>2. QED
    BY <1>2, <2>1
<1>4. /\ Write(recorded[e], row) # {}
      /\ Latest(Write(recorded[e], row)).state = row.state
  BY <1>2, <1>3, WriteIsLatest
<1>5. recorded'[e] = Write(recorded[e], row)
  BY DEF row
<1>6. QED
  BY <1>2, <1>4, <1>5 DEF State

LEMMA ReachableRecorded ==
  ASSUME TypeOK, Reachable, Recorders
  PROVE  Reachable'
<1>1. now \in Nat /\ (~ Polls => now' = now + 1)
  BY TimePasses
<1>2. ASSUME NEW found \in Discoveries, NEW some \in Answers, SetUp(found, some)
      PROVE  Reachable'
  <2>1. ASSUME NEW e \in Entities, IsReachability(e), RadioOf(e) \in found
        PROVE  recorded'[e] # {} /\ State(e)' # Unavailable
    <3>1. e \notin Incidents /\ now' = now + 1
      BY <1>2, <2>1, Kinds DEF IsReachability, SetUp, Tick
    <3>2. recorded'[e] = Write(recorded[e], Row(now + 1, StateOf(e, TRUE, some, now + 1), None))
      BY <1>2, <2>1, <3>1 DEF SetUp
    <3>3. QED
      BY <1>1, <2>1, <3>2, ReachableWritten
  <2>2. live' = found
    BY <1>2 DEF SetUp
  <2>3. QED
    BY <2>1, <2>2 DEF Reachable
<1>3. ASSUME NEW some \in Answers, NEW further \in Causes, NEW same \in BOOLEAN,
             Poll(some, further, same)
      PROVE  Reachable'
  <2>1. ASSUME NEW e \in Entities, IsReachability(e), RadioOf(e) \in live
        PROVE  recorded'[e] # {} /\ State(e)' # Unavailable
    <3>1. recorded'[e] = Shown(e, TRUE, some, now + 1)
      BY <1>3, <2>1, PollRecords DEF IsReachability
    <3>2. recorded'[e] = Write(recorded[e], Row(now + 1, StateOf(e, TRUE, some, now + 1), None))
      BY <2>1, <3>1 DEF Shown
    <3>3. QED
      BY <1>1, <2>1, <3>2, ReachableWritten
  <2>2. live' = live
    BY <1>3 DEF Poll
  <2>3. QED
    BY <2>1, <2>2 DEF Reachable
<1>4. CASE Fails \/ Unload
  <2>1. success' = FALSE
    <3>1. ASSUME NEW further, PollFails(further) PROVE success' = FALSE
      BY <3>1, Zenon DEF PollFails
    <3>2. QED
      BY <1>4, <3>1, Zenon DEF Fails, Unload
  <2>2. QED
    BY <2>1 DEF Reachable
<1>5. CASE InternetChanges
  <2>1. \A e \in Entities : IsReachability(e) => recorded'[e] = recorded[e]
    BY <1>5, Kinds DEF InternetChanges, TypeOK, IsReachability
  <2>2. success' = success /\ live' = live
    BY <1>5 DEF InternetChanges, integration
  <2>3. \A e \in Entities : IsReachability(e) => State(e)' = State(e)
    BY <2>1 DEF State
  <2>4. QED
    BY <2>1, <2>2, <2>3 DEF Reachable
<1>6. QED
  BY <1>2, <1>3, <1>4, <1>5 DEF Recorders, SetsUp, Polls
-----------------------------------------------------------------------------
(* Events.                                                                 *)

\* What an entity has recorded stays traced when more is triggered.
LEMMA StaysTraced ==
  ASSUME NEW rows, NEW events, NEW more, events \subseteq more, Traced(rows, events)
  PROVE  Traced(rows, more)
  BY DEF Traced

\* New events, which come later than what there was, and are recorded as they are.
LEMMA EventsFollow ==
  ASSUME TypeOK, NEW e \in Incidents, NEW new,
         Successive(triggered[RadioOf(e)]),
         Traced(recorded[e], triggered[RadioOf(e)]), Sequential(recorded[e]),
         \A x \in new : /\ x \in [at : (now + 1)..now', state : (now + 1)..now',
                                  event : EVENT_TYPES]
                        /\ x.state <= x.at,
         \A x, y \in new : x.at <= y.at => x.state <= y.state,
         now' \in Nat
  PROVE  /\ Traced(recorded[e] \union new, triggered[RadioOf(e)] \union new)
         /\ Sequential(recorded[e] \union new)
<1> DEFINE r == RadioOf(e)
<1>1. /\ now \in Nat /\ r \in Radios /\ e \in Entities
      /\ \A x \in triggered[r] : x.at \in 1..now /\ x.state \in 1..now
      /\ \A row \in recorded[e] : row.at \in 1..now
  BY Kinds, RowsAreDated, StatesAssumption DEF TypeOK
<1>2. \A x \in new : /\ x.at \in Int /\ x.state \in Int
                     /\ now < x.at /\ now < x.state /\ x.state <= x.at
  BY <1>1
<1>3. \A row \in recorded[e] : IsOccurrence(row) => row.state \in 1..now
  BY <1>1 DEF Traced, IsOccurrence
<1>4. Traced(recorded[e] \union new, triggered[r] \union new)
  <2>1. \A row \in new : \E x \in triggered[r] \union new :
           x.event = row.event /\ x.at <= row.at /\ row.state \in {x.state, Unknown}
    BY <1>2
  <2>2. Traced(recorded[e], triggered[r] \union new)
    BY StaysTraced
  <2>3. QED
    BY <2>1, <2>2 DEF Traced
<1>5. Sequential(recorded[e] \union new)
  <2> SUFFICES ASSUME NEW row \in recorded[e] \union new, NEW other \in recorded[e] \union new,
                      IsOccurrence(row), IsOccurrence(other), row.at <= other.at
               PROVE  row.state <= other.state
    BY DEF Sequential
  <2>1. CASE row \in recorded[e] /\ other \in recorded[e]
    BY <2>1 DEF Sequential
  <2>2. CASE row \in recorded[e] /\ other \in new
    BY <1>1, <1>2, <1>3, <2>2
  <2>3. CASE row \in new /\ other \in recorded[e]
    BY <1>1, <1>2, <2>3
  <2>4. CASE row \in new /\ other \in new
    BY <2>4
  <2>5. QED
    BY <2>1, <2>2, <2>3, <2>4
<1>6. QED
  BY <1>4, <1>5

\* A row without an event disturbs nothing.
LEMMA PlainRow ==
  ASSUME NEW rows, NEW events, Traced(rows, events), Sequential(rows), NEW row, row.event = None
  PROVE  /\ Traced(Write(rows, row), events) /\ Sequential(Write(rows, row))
<1>1. \A x \in Write(rows, row) : x.event # None => x \in rows
  BY WriteAdds
<1>2. QED
  BY <1>1 DEF Traced, Sequential, IsOccurrence

\* A restored event is the latest that was triggered.
LEMMA RestoredFollows ==
  ASSUME TypeOK, EventsKept, NEW e \in Incidents
  PROVE  LET rows == Write(recorded[e], Restored(RadioOf(e), recorded[e], now + 1))
         IN  Traced(rows, triggered[RadioOf(e)]) /\ Sequential(rows)
<1> DEFINE r == RadioOf(e)
           events == triggered[r]
           row == Restored(r, recorded[e], now + 1)
<1>1. /\ r \in Radios /\ e \in Entities /\ now \in Nat
      /\ \A x \in events : x.at \in 1..now /\ x.state \in 1..now /\ x.event \in EVENT_TYPES
      /\ \A other \in recorded[e] : other.at \in 1..now
      /\ Dated(events) /\ IsFiniteSet(events)
  BY Kinds, RowsAreDated, EventsAreDated, StatesAssumption DEF TypeOK
<1>2. Traced(recorded[e], events) /\ Sequential(recorded[e]) /\ Successive(events)
  BY <1>1 DEF EventsKept
<1>3. CASE events = {}
  <2>1. row = Row(now + 1, Unknown, None)
    BY <1>3 DEF Restored
  <2>2. row.event = None
    BY <2>1 DEF Row
  <2> HIDE DEF row
  <2>3. QED
    BY <1>2, <2>2, PlainRow DEF row
<1>4. CASE events # {}
  <2>1. PICK last \in events : last = Latest(events) /\ \A x \in events : x.at <= last.at
    BY <1>1, <1>4, LatestExists
  <2>2. PICK state \in {last.state, Unknown} : row = Row(now + 1, state, last.event)
    BY <1>4, <2>1 DEF Restored
  <2>3. row.at = now + 1 /\ row.state = state /\ row.event = last.event
    BY <2>2 DEF Row
  <2> HIDE DEF row, events, r
  <2>4. Traced(recorded[e] \union {row}, events)
    <3>1. last.at <= row.at
      BY <1>1, <2>1, <2>3
    <3>2. QED
      BY <1>2, <2>1, <2>2, <2>3, <3>1 DEF Traced
  <2>5. Sequential(recorded[e] \union {row})
    <3> SUFFICES ASSUME NEW x \in recorded[e] \union {row}, NEW y \in recorded[e] \union {row},
                        IsOccurrence(x), IsOccurrence(y), x.at <= y.at
                 PROVE  x.state <= y.state
      BY DEF Sequential
    <3>1. CASE x \in recorded[e] /\ y \in recorded[e]
      BY <1>2, <3>1 DEF Sequential
    <3>2. CASE x \in recorded[e] /\ y = row
      <4>1. PICK z \in events : x.state = z.state
        BY <1>2, <3>2 DEF Traced, IsOccurrence
      <4>2. z.state <= last.state
        BY <1>2, <2>1 DEF Successive
      <4>3. y.state = last.state
        BY <2>2, <2>3, <3>2 DEF IsOccurrence
      <4>4. QED
        BY <4>1, <4>2, <4>3
    <3>3. CASE x = row /\ y \in recorded[e]
      BY <1>1, <2>3, <3>3
    <3>4. CASE x = row /\ y = row
      <4>1. y.state = last.state
        BY <2>2, <2>3, <3>4 DEF IsOccurrence
      <4>2. QED
        BY <1>1, <2>1, <3>4, <4>1
    <3>5. QED
      BY <3>1, <3>2, <3>3, <3>4
  <2>6. Write(recorded[e], row) \in {recorded[e], recorded[e] \union {row}}
    BY WriteAdds
  <2>7. QED
    BY <1>2, <2>4, <2>5, <2>6 DEF row, events, r
<1>5. QED
  BY <1>3, <1>4

LEMMA EventsRecorded ==
  ASSUME TypeOK, EventsKept, Recorders
  PROVE  EventsKept'
<1>1. now \in Nat /\ now' \in Nat /\ (~ Polls => now' = now + 1)
  BY TimePasses
<1>2. \A e \in Incidents : e \in Entities /\ RadioOf(e) \in Radios /\ e # Internet
  BY Kinds
<1>3. \A r \in Radios : \A x \in triggered[r] : x.at \in 1..now /\ x.state \in 1..now
  BY DEF TypeOK
<1>4. /\ \A r \in Radios : Successive(triggered[r])
      /\ \A e \in Incidents : /\ Traced(recorded[e], triggered[RadioOf(e)])
                              /\ Sequential(recorded[e])
  BY DEF EventsKept
<1>5. ASSUME NEW r \in Radios, NEW new, triggered'[r] = triggered[r] \union new,
             \A x \in new : /\ x \in [at : (now + 1)..now', state : (now + 1)..now',
                                      event : EVENT_TYPES]
                            /\ x.state <= x.at,
             \A x, y \in new : x.at <= y.at => x.state <= y.state
      PROVE  Successive(triggered'[r])
  <2>1. \A x \in new : x.at \in Int /\ x.state \in Int /\ now < x.at /\ now < x.state
    BY <1>1, <1>5
  <2>2. \A x, y \in triggered[r] \union new : x.at <= y.at => x.state <= y.state
    BY <1>1, <1>3, <1>4, <1>5, <2>1 DEF Successive
  <2>3. QED
    BY <1>4, <1>5, <2>2 DEF Successive
<1>6. ASSUME NEW found \in Discoveries, NEW some \in Answers, SetUp(found, some)
      PROVE  EventsKept'
  <2>1. triggered' = triggered /\ now' = now + 1
    BY <1>6 DEF SetUp, Tick
  <2>2. ASSUME NEW e \in Incidents
        PROVE  Traced(recorded'[e], triggered[RadioOf(e)]) /\ Sequential(recorded'[e])
    <3>1. recorded'[e] = IF RadioOf(e) \notin found THEN recorded[e]
                         ELSE Write(recorded[e], Restored(RadioOf(e), recorded[e], now + 1))
      BY <1>2, <1>6, <2>1 DEF SetUp
    <3>2. QED
      BY <1>4, <3>1, RestoredFollows
  <2>3. QED
    BY <1>4, <2>1, <2>2 DEF EventsKept
<1>7. ASSUME NEW some \in Answers, NEW further \in Causes, NEW same \in BOOLEAN,
             Poll(some, further, same)
      PROVE  EventsKept'
  <2>1. ASSUME NEW r \in Radios PROVE Successive(triggered'[r])
    BY <1>5, <1>7, PollTriggers
  <2>2. ASSUME NEW e \in Incidents
        PROVE  Traced(recorded'[e], triggered'[RadioOf(e)]) /\ Sequential(recorded'[e])
    <3> DEFINE new == PollEvents(RadioOf(e), some, further, same)
    <3>1. recorded'[e] = recorded[e] \union new
      BY <1>2, <1>7, <2>2, Kinds DEF Poll, PollEvents
    <3>2. /\ triggered'[RadioOf(e)] = triggered[RadioOf(e)] \union new
          /\ \A x \in new : /\ x \in [at : (now + 1)..now', state : (now + 1)..now',
                                      event : EVENT_TYPES]
                            /\ x.state <= x.at
          /\ \A x, y \in new : x.at <= y.at => x.state <= y.state
      BY <1>2, <1>7, PollTriggers
    <3> HIDE DEF new
    <3>3. /\ Traced(recorded[e] \union new, triggered[RadioOf(e)] \union new)
          /\ Sequential(recorded[e] \union new)
      BY <1>1, <1>2, <1>4, <3>2, EventsFollow
    <3>4. QED
      BY <3>1, <3>2, <3>3
  <2>3. QED
    BY <2>1, <2>2 DEF EventsKept
<1>8. ASSUME NEW further \in Causes, PollFails(further)
      PROVE  EventsKept'
  <2>1. now' = now + 1
    BY <1>8 DEF PollFails, Tick
  <2>2. /\ FailedEvent \in [at : (now + 1)..now', state : (now + 1)..now', event : EVENT_TYPES]
        /\ FailedEvent.state <= FailedEvent.at
    BY <1>1, <2>1 DEF FailedEvent, Row, EVENT_TYPES, OTHER_EVENTS
  <2>3. ASSUME NEW r \in Radios PROVE Successive(triggered'[r])
    <3> DEFINE new == IF r \in FailedHigh(further) THEN {FailedEvent} ELSE {}
    <3>1. triggered'[r] = triggered[r] \union new
      BY <1>8, FailureRecords
    <3>2. /\ \A x \in new : /\ x \in [at : (now + 1)..now', state : (now + 1)..now',
                                      event : EVENT_TYPES]
                            /\ x.state <= x.at
          /\ \A x, y \in new : x.at <= y.at => x.state <= y.state
      BY <1>1, <2>2
    <3> HIDE DEF new
    <3>3. QED
      BY <1>5, <3>1, <3>2
  <2>4. ASSUME NEW e \in Incidents
        PROVE  Traced(recorded'[e], triggered'[RadioOf(e)]) /\ Sequential(recorded'[e])
    <3>1. recorded'[e] \in {recorded[e], Write(recorded[e], Row(now + 1, Unavailable, None))}
      BY <1>8, FailureRecords
    <3>2. Row(now + 1, Unavailable, None).event = None
      BY DEF Row
    <3>3. Traced(recorded'[e], triggered[RadioOf(e)]) /\ Sequential(recorded'[e])
      BY <1>4, <3>1, <3>2, PlainRow
    <3>4. triggered[RadioOf(e)] \subseteq triggered'[RadioOf(e)]
      BY <1>2, <1>8, FailureRecords
    <3>5. QED
      BY <3>3, <3>4, StaysTraced
  <2>5. QED
    BY <2>3, <2>4 DEF EventsKept
<1>9. CASE Unload
  <2>1. triggered' = triggered
    BY <1>9 DEF Unload
  <2>2. ASSUME NEW e \in Incidents
        PROVE  Traced(recorded'[e], triggered[RadioOf(e)]) /\ Sequential(recorded'[e])
    <3>1. recorded'[e] \in {recorded[e], Write(recorded[e], Row(now', Unavailable, None))}
      BY <1>2, <1>9 DEF Unload
    <3>2. Row(now', Unavailable, None).event = None
      BY DEF Row
    <3>3. QED
      BY <1>4, <3>1, <3>2, PlainRow
  <2>3. QED
    BY <1>4, <2>1, <2>2 DEF EventsKept
<1>10. CASE InternetChanges
  <2>1. triggered' = triggered /\ \A e \in Incidents : recorded'[e] = recorded[e]
    BY <1>2, <1>10, Kinds DEF InternetChanges, integration, TypeOK
  <2>2. QED
    BY <1>4, <2>1 DEF EventsKept
<1>11. QED
  BY <1>6, <1>7, <1>8, <1>9, <1>10 DEF Recorders, SetsUp, Polls, Fails
-----------------------------------------------------------------------------
(* What the tool reads.                                                    *)

LEMMA AccurateStays ==
  ASSUME TypeOK, Accurate(tool), Recorders
  PROVE  Accurate(tool)'
<1>1. now \in Nat /\ now' \in {now + 1, now + 2} /\ tool' = tool
  BY TimePasses
<1>2. tool.asked.at \in 0..now
  BY DEF Accurate
<1>3. \A e \in Entities : Past(e, tool.asked.at)' = Past(e, tool.asked.at)
  <2>1. \A e \in Entities, t \in 0..now : Past(e, t)' = {row \in recorded'[e] : row.at <= t}
    BY DEF Past
  <2>2. \A e \in Entities, t \in 0..now : {row \in recorded'[e] : row.at <= t} = Past(e, t)
    BY <2>1, PastStays
  <2>3. QED
    BY <1>1, <1>2, <2>2 DEF Past
<1>4. tool.asked.at \in 0..now'
  BY <1>1, <1>2
<1>5. DOMAIN tool.current \subseteq Entities /\ Internet \in Entities
  BY Kinds DEF Accurate
<1>6. QED
  BY <1>1, <1>3, <1>4, <1>5 DEF Accurate

\* At the moment it reads the states, the tool has them right.
LEMMA AskIsAccurate ==
  ASSUME TypeOK, Reachable, NEW end \in 1..now, NEW start \in 0..(end - 1), Ask(start, end)
  PROVE  Accurate(tool)'
<1>1. /\ tool' = [stage   |-> "asked", start |-> start, end |-> end,
                  current |-> [e \in Described |-> State(e)],
                  health  |-> recorded[Internet] # {},
                  asked   |-> [at |-> now, success |-> success, live |-> live]]
      /\ now' = now /\ recorded' = recorded
  BY DEF Ask
<1>2. now \in Nat
  BY StatesAssumption DEF TypeOK
<1>3. ASSUME NEW e \in Entities PROVE Past(e, now) = recorded[e] /\ Past(e, now)' = recorded[e]
  <2>1. \A row \in recorded[e] : row.at <= now
    BY <1>2, RowsAreDated
  <2>2. QED
    BY <1>1, <2>1 DEF Past
<1>4. \A e \in Described : /\ e \in Entities /\ e \in Diagnostics
                           /\ recorded[e] # {}
                           /\ Latest(recorded[e]).state = State(e)
                           /\ State(e) # Unavailable
  BY Kinds DEF Described, State
<1>5. success => \A e \in Entities :
         IsReachability(e) /\ RadioOf(e) \in live => e \in Described
  BY DEF Reachable, IsReachability, Described
<1>6. recorded[Internet] = {} => Past(Internet, now)' = {}
  BY <1>3, Kinds
<1>7. start \in Nat /\ end \in Nat /\ start < end /\ end <= now /\ now \in 0..now
  BY <1>2
<1>8. DOMAIN tool'.current = Described /\ \A e \in Described : tool'.current[e] = State(e)
  BY <1>1
<1>9. /\ tool'.start = start /\ tool'.end = end /\ tool'.asked.at = now
      /\ tool'.asked.success = success /\ tool'.asked.live = live
      /\ tool'.health = (recorded[Internet] # {})
  BY <1>1
<1>10. /\ tool'.start \in Nat /\ tool'.end \in Nat /\ tool'.asked.at \in 0..now'
       /\ tool'.start < tool'.end /\ tool'.end <= tool'.asked.at
  BY <1>1, <1>7, <1>9
<1>11. /\ DOMAIN tool'.current \subseteq Diagnostics
       /\ \A e \in DOMAIN tool'.current :
             /\ Past(e, now)' # {}
             /\ Latest(Past(e, now)').state = tool'.current[e]
             /\ tool'.current[e] # Unavailable
  BY <1>3, <1>4, <1>8
<1>12. tool'.asked.success => \A e \in Entities :
          IsReachability(e) /\ RadioOf(e) \in tool'.asked.live => e \in DOMAIN tool'.current
  BY <1>5, <1>8, <1>9
<1>13. ~ tool'.health => Past(Internet, now)' = {}
  BY <1>6, <1>9
<1>14. \A e : Past(e, now)' = Past(e, tool.asked.at)'
  BY <1>1, <1>9 DEF Past
<1>15. QED
  BY <1>10, <1>11, <1>12, <1>13, <1>14 DEF Accurate
-----------------------------------------------------------------------------
(* Reports.                                                                *)

IsRow(row) == row = [at |-> row.at, state |-> row.state, event |-> row.event]

\* A first row for the start of a window goes with those that come later.
LEMMA Started ==
  ASSUME NEW before, Dated(before), IsFiniteSet(before),
         NEW within, Dated(within), IsFiniteSet(within), NEW start \in Int,
         \A row \in before : IsRow(row) /\ row.at <= start,
         \A row \in within : IsRow(row) /\ start < row.at
  PROVE  LET rows == FromStart(before, within, start)
         IN  /\ Dated(rows) /\ IsFiniteSet(rows) /\ within \subseteq rows
             /\ before # {} => \E row \in rows : row.at = start /\ row.state = Latest(before).state
             /\ \A row \in rows : /\ IsRow(row)
                                  /\ row \in within \/ /\ before # {} /\ row.at = start
                                                       /\ row.state = Latest(before).state
                                                       /\ row.event = Latest(before).event
<1> DEFINE first == [Latest(before) EXCEPT !.at = start]
           rows == FromStart(before, within, start)
<1>1. before # {} => Latest(before) \in before
  BY LatestExists
<1>2. before # {} => /\ first.at = start /\ first.state = Latest(before).state
                     /\ first.event = Latest(before).event /\ IsRow(first)
  BY <1>1 DEF IsRow
<1>3. rows = IF before = {} THEN within ELSE within \union {first}
  BY DEF FromStart
<1> HIDE DEF first, rows
<1>4. \A row \in within : row.at \in Int
  BY DEF Dated
<1>5. \A row \in rows : row \in within \/ (before # {} /\ row = first)
  BY <1>3
<1>6. Dated(rows)
  <2>1. \A row \in rows : row.at \in Int
    BY <1>2, <1>4, <1>5
  <2>2. ASSUME NEW row \in rows, NEW other \in rows, row.at = other.at
        PROVE  row = other
    <3>1. CASE row \in within /\ other \in within
      BY <2>2, <3>1 DEF Dated
    <3>2. CASE before # {} /\ row = first /\ other \in within
      BY <1>2, <1>4, <2>2, <3>2
    <3>3. CASE before # {} /\ other = first /\ row \in within
      BY <1>2, <1>4, <2>2, <3>3
    <3>4. QED
      BY <1>5, <3>1, <3>2, <3>3
  <2>3. QED
    BY <2>1, <2>2 DEF Dated
<1>7. IsFiniteSet(rows)
  <2>1. IsFiniteSet(within \union {first})
    BY FS_AddElement
  <2>2. QED
    BY <1>3, <2>1
<1>8. QED
  BY <1>2, <1>3, <1>5, <1>6, <1>7 DEF rows

\* The rows of an entity before and in a window.
LEMMA Windows ==
  ASSUME TypeOK, NEW e \in Entities, NEW start \in Nat, NEW end \in Nat, start < end
  PROVE  /\ Dated(Until(e, start)) /\ IsFiniteSet(Until(e, start))
         /\ Dated(Within(e, start, end)) /\ IsFiniteSet(Within(e, start, end))
         /\ \A row \in Until(e, start) : /\ row \in recorded[e] /\ IsRow(row)
                                         /\ row.at \in Int /\ row.at <= start
         /\ \A row \in Within(e, start, end) : /\ row \in recorded[e] /\ IsRow(row)
                                               /\ row.at \in Int /\ start < row.at /\ row.at <= end
         /\ Past(e, end) = Until(e, start) \union Within(e, start, end)
         /\ Dated(Past(e, end))
<1>1. /\ Dated(recorded[e]) /\ IsFiniteSet(recorded[e])
      /\ \A row \in recorded[e] : row.at \in Int
  BY RowsAreDated DEF Dated
<1>2. \A row \in recorded[e] : IsRow(row)
  BY DEF TypeOK, Typed, IsRow
<1>3. IsFiniteSet(Until(e, start)) /\ IsFiniteSet(Within(e, start, end))
  BY <1>1, FS_Subset DEF Until, Within
<1>4. Past(e, end) = Until(e, start) \union Within(e, start, end)
  BY <1>1 DEF Past, Until, Within
<1>5. QED
  BY <1>1, <1>2, <1>3, <1>4 DEF Until, Within, Past, Dated

\* A history has what was recorded in its window, and a first state if there is one.
LEMMA Histories ==
  ASSUME TypeOK, NEW e \in Entities, NEW start \in Nat, NEW end \in Nat, start < end
  PROVE  /\ Dated(History(e, start, end)) /\ IsFiniteSet(History(e, start, end))
         /\ \A row \in recorded[e] :
               start < row.at /\ row.at <= end => row \in History(e, start, end)
         /\ Past(e, end) # {} =>
               /\ History(e, start, end) # {}
               /\ Latest(History(e, start, end)).state = Latest(Past(e, end)).state
<1> DEFINE before == Until(e, start)
           within == Within(e, start, end)
           rows == History(e, start, end)
<1>1. /\ Dated(before) /\ Dated(within) /\ IsFiniteSet(before) /\ IsFiniteSet(within)
      /\ \A row \in before : IsRow(row) /\ row.at \in Int /\ row.at <= start
      /\ \A row \in within : IsRow(row) /\ row.at \in Int /\ start < row.at /\ row.at <= end
      /\ Past(e, end) = before \union within
      /\ Dated(Past(e, end))
  BY Windows
<1>2. \A row \in recorded[e] : start < row.at /\ row.at <= end => row \in within
  BY DEF Within
<1> HIDE DEF before, within
<1>3. rows = FromStart(before, within, start)
  BY DEF History, before, within
<1>4. /\ Dated(rows) /\ IsFiniteSet(rows) /\ within \subseteq rows
      /\ before # {} => \E row \in rows : row.at = start /\ row.state = Latest(before).state
      /\ \A row \in rows : row \in within \/ /\ before # {} /\ row.at = start
                                             /\ row.state = Latest(before).state
  BY <1>1, <1>3, Started
<1> HIDE DEF rows
<1>5. ASSUME Past(e, end) # {}
      PROVE  rows # {} /\ Latest(rows).state = Latest(Past(e, end)).state
  <2>1. CASE within # {}
    <3> DEFINE last == Latest(within)
    <3>1. last \in within /\ \A other \in within : other.at <= last.at
      BY <1>1, <2>1, LatestExists
    <3> HIDE DEF last
    <3>2. \A other \in rows : other.at <= last.at
      BY <1>1, <1>4, <3>1
    <3>3. \A other \in Past(e, end) : other.at <= last.at
      BY <1>1, <3>1
    <3>4. last \in rows /\ last \in Past(e, end)
      BY <1>1, <1>4, <3>1
    <3>5. Latest(rows) = last /\ Latest(Past(e, end)) = last
      BY <1>1, <1>4, <3>2, <3>3, <3>4, LatestIs
    <3>6. QED
      BY <3>4, <3>5
  <2>2. CASE within = {}
    <3>1. before # {} /\ Past(e, end) = before
      BY <1>1, <1>5, <2>2
    <3>2. \A row \in rows : row.at = start /\ row.state = Latest(before).state
      BY <1>4, <2>2
    <3>3. rows # {}
      BY <1>4, <3>1
    <3>4. Latest(rows) \in rows
      BY <1>4, <3>3, LatestExists
    <3>5. QED
      BY <3>1, <3>2, <3>3, <3>4
  <2>3. QED
    BY <2>1, <2>2
<1>6. QED
  BY <1>2, <1>4, <1>5 DEF rows

\* What is left of the history of an event entity are rows of it, none older than its
\* state at the start.
LEMMA IncidentHistories ==
  ASSUME TypeOK, NEW e \in Incidents, NEW start \in Nat, NEW end \in Nat, start < end,
         NEW lastInFull
  PROVE  LET rows == IncidentHistory(e, start, end, lastInFull)
         IN  /\ Dated(rows) /\ IsFiniteSet(rows)
             /\ \A row \in rows : row.event # None =>
                   \E old \in recorded[e] :
                      /\ old.state = row.state /\ old.event = row.event /\ old.at <= end
                      /\ \A other \in recorded[e] : other.at <= start => other.at <= old.at
<1> DEFINE before == Until(e, start)
           within == {row \in Within(e, start, end) : Changed(e, row)}
           full == FromStart(before, within, start)
           Given(row) == IF row = Earliest(full) \/ (lastInFull /\ row = Latest(full))
                         THEN row ELSE [row EXCEPT !.event = None]
           rows == IncidentHistory(e, start, end, lastInFull)
<1>1. e \in Entities
  BY Kinds
<1>2. /\ Dated(before) /\ IsFiniteSet(before)
      /\ Dated(Within(e, start, end)) /\ IsFiniteSet(Within(e, start, end))
      /\ \A row \in before : /\ row \in recorded[e] /\ IsRow(row)
                             /\ row.at \in Int /\ row.at <= start
      /\ \A row \in Within(e, start, end) : /\ row \in recorded[e] /\ IsRow(row)
                                            /\ row.at \in Int /\ start < row.at /\ row.at <= end
  BY <1>1, Windows
<1>3. /\ Dated(within) /\ IsFiniteSet(within)
      /\ \A row \in within : /\ row \in recorded[e] /\ IsRow(row)
                             /\ row.at \in Int /\ start < row.at /\ row.at <= end
  <2>1. within \subseteq Within(e, start, end)
    OBVIOUS
  <2> HIDE DEF within
  <2>2. QED
    BY <1>2, <2>1, FS_Subset DEF Dated
<1>4. \A other \in recorded[e] : other.at <= start => other \in before
  BY DEF Until
<1>5. \A other \in recorded[e] : other.at \in Int
  BY <1>1, RowsAreDated DEF Dated
<1>6. rows = {Given(row) : row \in full}
  BY DEF IncidentHistory
<1> HIDE DEF before, within
<1>7. /\ Dated(full) /\ IsFiniteSet(full)
      /\ \A row \in full : /\ IsRow(row)
                           /\ row \in within \/ /\ before # {} /\ row.at = start
                                                /\ row.state = Latest(before).state
                                                /\ row.event = Latest(before).event
  BY <1>2, <1>3, Started
<1> HIDE DEF full
<1>8. \A row \in full : /\ Given(row).at = row.at
                        /\ Given(row).event # None => Given(row) = row
  BY <1>7 DEF IsRow
<1> HIDE DEF Given, rows
<1>9. Dated(rows)
  BY <1>6, <1>7, <1>8 DEF Dated
<1>10. IsFiniteSet(rows)
  <2> DEFINE f == [row \in full |-> Given(row)]
  <2>1. f \in Surjection(full, rows)
    BY <1>6 DEF Surjection
  <2> HIDE DEF f
  <2>2. QED
    BY <1>7, <2>1, FS_Surjection
<1>11. ASSUME NEW row \in rows, row.event # None
       PROVE  \E old \in recorded[e] :
                 /\ old.state = row.state /\ old.event = row.event /\ old.at <= end
                 /\ \A other \in recorded[e] : other.at <= start => other.at <= old.at
  <2>1. row \in full
    BY <1>6, <1>8, <1>11
  <2>2. CASE row \in within
    BY <1>3, <1>5, <2>2
  <2>3. CASE /\ before # {} /\ row.at = start
             /\ row.state = Latest(before).state /\ row.event = Latest(before).event
    <3>1. Latest(before) \in before /\ \A other \in before : other.at <= Latest(before).at
      BY <1>2, <2>3, LatestExists
    <3>2. Latest(before) \in recorded[e] /\ Latest(before).at <= end
      BY <1>2, <3>1
    <3>3. QED
      BY <1>4, <2>3, <3>1, <3>2
  <2>4. QED
    BY <1>7, <2>1, <2>2, <2>3
<1>12. QED
  BY <1>9, <1>10, <1>11 DEF rows

\* The entities are finite, and have different positions.
LEMMA Positions ==
  /\ IsFiniteSet(Entities)
  /\ \A e \in Entities : Position[e] \in Nat
  /\ \A e, f \in Entities : Position[e] = Position[f] => e = f
<1>1. /\ Len(StatesOrder) \in Nat /\ DOMAIN StatesOrder = 1..Len(StatesOrder)
      /\ StatesOrder \in [1..Len(StatesOrder) -> Entities]
      /\ {StatesOrder[k] : k \in DOMAIN StatesOrder} = Entities
  BY StatesOrderAssumption DEF ToSet
<1>2. StatesOrder \in Surjection(1..Len(StatesOrder), Entities)
  BY <1>1 DEF Surjection
<1>3. IsFiniteSet(1..Len(StatesOrder))
  BY <1>1, FS_Interval
<1>4. IsFiniteSet(Entities)
  BY <1>2, <1>3, FS_Surjection
<1>5. \A e \in Entities : Position[e] \in DOMAIN StatesOrder /\ StatesOrder[Position[e]] = e
  BY <1>1 DEF Position
<1>6. QED
  BY <1>1, <1>4, <1>5

LEMMA LastExists ==
  ASSUME NEW ids, ids \subseteq Entities, ids # {}
  PROVE  LastOf(ids) \in ids
<1> DEFINE Behind == {p \in ids \X ids : Position[p[1]] > Position[p[2]]}
<1>1. IsFiniteSet(ids)
  BY Positions, FS_Subset
<1>2. /\ \A e \in ids : Position[e] \in Nat
      /\ \A e, f \in ids : Position[e] = Position[f] => e = f
  BY Positions
<1>3. \A x, y \in ids : <<x, y>> \in Behind <=> Position[x] > Position[y]
  OBVIOUS
<1> HIDE DEF Behind
<1>4. IsStrictOrder(ids, Behind)
  <2>1. \A x \in ids : <<x, x>> \notin Behind
    BY <1>2, <1>3
  <2>2. ASSUME NEW x \in ids, NEW y \in ids, x # y
        PROVE  <<x, y>> \in Behind \/ <<y, x>> \in Behind
    BY <1>2, <1>3, <2>2
  <2>3. \A x, y, z \in ids : <<x, y>> \in Behind /\ <<y, z>> \in Behind => <<x, z>> \in Behind
    BY <1>2, <1>3
  <2>4. QED
    BY <2>1, <2>2, <2>3 DEF IsStrictOrder
<1>5. PICK m \in ids : \A x \in ids : x = m \/ <<m, x>> \in Behind
  BY <1>1, <1>4, First
<1>6. ASSUME NEW x \in ids PROVE Position[x] <= Position[m]
  <2>1. x = m \/ Position[m] > Position[x]
    BY <1>3, <1>5
  <2>2. QED
    BY <1>2, <2>1
<1>7. QED
  BY <1>6 DEF LastOf

\* Where the radios of a node overwrite each other, they do so alike.
LEMMA CurrentAnswered ==
  ASSUME TypeOK, Accurate(tool), NEW lastInFull, Answer(lastInFull)
  PROVE  CurrentIsLatest'
<1> DEFINE series == [e \in DOMAIN tool.current |-> History(e, tool.start, tool.end)]
           Ids(node) == {e \in DOMAIN tool.current : e.node = node}
           Numeric(node) == {e \in Ids(node) : e.key \in METRIC_KEYS /\ Points(series[e]) # {}}
<1>1. /\ tool'.end = tool.end /\ tool'.asked = tool.asked
      /\ DOMAIN tool'.nodes = {e.node : e \in DOMAIN tool.current}
      /\ \A node \in DOMAIN tool'.nodes : tool'.nodes[node] = NodeReport(node, tool.current, series)
  BY DEF Answer, Report
<1>2. DOMAIN tool.current \subseteq Entities
  BY Kinds DEF Accurate
<1>3. ASSUME tool.end = tool.asked.at, NEW e \in DOMAIN tool.current
      PROVE  Points(series[e]) # {} /\ Latest(Points(series[e])).state = tool.current[e]
  <2> DEFINE rows == History(e, tool.start, tool.end)
  <2>1. tool.start \in Nat /\ tool.end \in Nat /\ tool.start < tool.end
    BY DEF Accurate
  <2>2. /\ Past(e, tool.end) # {}
        /\ Latest(Past(e, tool.end)).state = tool.current[e]
        /\ tool.current[e] # Unavailable
    BY <1>3 DEF Accurate
  <2>3. /\ Dated(rows) /\ IsFiniteSet(rows) /\ rows # {}
        /\ Latest(rows).state = tool.current[e]
    BY <1>2, <1>3, <2>1, <2>2, Histories
  <2>4. series[e] = rows
    OBVIOUS
  <2> HIDE DEF rows, series
  <2>5. Latest(rows) \in rows /\ \A other \in rows : other.at <= Latest(rows).at
    BY <2>3, LatestExists
  <2>6. Latest(rows) \in Points(rows) /\ Points(rows) \subseteq rows
    BY <2>2, <2>3, <2>5 DEF Points
  <2>7. Dated(Points(rows))
    BY <2>3, <2>6 DEF Dated
  <2>8. Latest(Points(rows)) = Latest(rows)
    BY <2>5, <2>6, <2>7, LatestIs
  <2>9. QED
    BY <2>3, <2>4, <2>6, <2>8
<1> HIDE DEF series
<1>4. ASSUME tool.end = tool.asked.at, NEW node \in DOMAIN tool'.nodes
      PROVE  LET report == tool'.nodes[node]
             IN  /\ DOMAIN report.history = DOMAIN report.current \intersect METRIC_KEYS
                 /\ \A key \in DOMAIN report.history :
                       report.history[key].latest = report.current[key]
  <2> DEFINE shown == Overwriting(Ids(node))
             summarised == Overwriting(Numeric(node))
             report == tool'.nodes[node]
  <2>1. /\ report.current = [key \in DOMAIN shown |-> tool.current[shown[key]]]
        /\ report.history = [key \in DOMAIN summarised |-> Summary(Points(series[summarised[key]]))]
    <3> DEFINE values == [key \in DOMAIN shown |-> tool.current[shown[key]]]
               summaries == [key \in DOMAIN summarised |->
                                Summary(Points(series[summarised[key]]))]
               listed == Overwriting({e \in Ids(node) : e.key \in STATE_KEYS /\ series[e] # {}})
               states == [key \in DOMAIN listed |-> series[listed[key]]]
    <3>1. NodeReport(node, tool.current, series) =
             [current |-> values, history |-> summaries, state_history |-> states]
      BY DEF NodeReport
    <3>2. report = NodeReport(node, tool.current, series)
      BY <1>1, <1>4
    <3> HIDE DEF report, values, summaries, states
    <3>3. report.current = values /\ report.history = summaries
      BY <3>1, <3>2
    <3>4. QED
      BY <3>3 DEF values, summaries
  <2>2. Numeric(node) = {e \in Ids(node) : e.key \in METRIC_KEYS}
    BY <1>3, <1>4
  <2>3. Ids(node) \subseteq DOMAIN tool.current
    OBVIOUS
  <2> HIDE DEF Ids, Numeric
  <2>4. DOMAIN shown = {e.key : e \in Ids(node)} /\ DOMAIN summarised = {e.key : e \in Numeric(node)}
    BY DEF Overwriting
  <2>5. DOMAIN summarised = DOMAIN shown \intersect METRIC_KEYS
    BY <2>2, <2>4
  <2>6. ASSUME NEW key \in DOMAIN summarised
        PROVE  summarised[key] = shown[key] /\ shown[key] \in DOMAIN tool.current
    <3>1. {e \in Numeric(node) : e.key = key} = {e \in Ids(node) : e.key = key}
      BY <2>2, <2>5, <2>6
    <3>2. /\ summarised[key] = LastOf({e \in Numeric(node) : e.key = key})
          /\ shown[key] = LastOf({e \in Ids(node) : e.key = key})
      BY <2>4, <2>5, <2>6 DEF Overwriting
    <3>3. {e \in Ids(node) : e.key = key} # {} /\ {e \in Ids(node) : e.key = key} \subseteq Entities
      BY <1>2, <2>3, <2>4, <2>5, <2>6
    <3>4. LastOf({e \in Ids(node) : e.key = key}) \in {e \in Ids(node) : e.key = key}
      BY <3>3, LastExists
    <3>5. QED
      BY <2>3, <3>1, <3>2, <3>4
  <2> HIDE DEF shown, summarised
  <2>7. ASSUME NEW key \in DOMAIN summarised
        PROVE  report.history[key].latest = report.current[key]
    <3>1. report.history[key].latest = Latest(Points(series[summarised[key]])).state
      BY <2>1 DEF Summary
    <3>2. key \in DOMAIN shown
      BY <2>5
    <3>3. report.current[key] = tool.current[shown[key]]
      BY <2>1, <3>2
    <3>4. QED
      BY <1>3, <1>4, <2>6, <3>1, <3>3
  <2>8. DOMAIN report.history = DOMAIN summarised /\ DOMAIN report.current = DOMAIN shown
    BY <2>1
  <2>9. QED
    BY <2>5, <2>7, <2>8
<1>5. QED
  BY <1>1, <1>4 DEF CurrentIsLatest

\* A node with a reachability sensor is in the report with all its history.
LEMMA OutagesAnswered ==
  ASSUME TypeOK, Accurate(tool), NEW lastInFull, Answer(lastInFull)
  PROVE  OutagesAreReported'
<1> DEFINE series == [e \in DOMAIN tool.current |-> History(e, tool.start, tool.end)]
<1>1. /\ tool'.start = tool.start /\ tool'.end = tool.end /\ tool'.asked = tool.asked
      /\ DOMAIN tool'.nodes = {e.node : e \in DOMAIN tool.current}
      /\ \A node \in DOMAIN tool'.nodes : tool'.nodes[node] = NodeReport(node, tool.current, series)
      /\ tool'.health = IF tool.health THEN History(Internet, tool.start, tool.end) ELSE {}
      /\ recorded' = recorded
  BY DEF Answer, Report
<1>2. /\ DOMAIN tool.current \subseteq Diagnostics
      /\ tool.start \in Nat /\ tool.end \in Nat /\ tool.start < tool.end
      /\ tool.asked.at \in 0..now /\ tool.end <= tool.asked.at /\ now \in Nat
  BY StatesAssumption DEF Accurate, TypeOK
<1>3. ASSUME tool.asked.success, NEW e, IsReachability(e), RadioOf(e) \in tool.asked.live,
             NEW row \in History(e, tool.start, tool.end)
      PROVE  /\ e.node \in DOMAIN tool'.nodes
             /\ row \in tool'.nodes[e.node].state_history["reachable"]
  <2> DEFINE ids == {x \in DOMAIN tool.current : x.node = e.node}
             states == {x \in ids : x.key \in STATE_KEYS /\ series[x] # {}}
             listed == Overwriting(states)
  <2>1. e \in Entities /\ e.key = "reachable"
    BY <1>3, Kinds DEF IsReachability
  <2>2. e \in DOMAIN tool.current
    BY <1>3, <2>1 DEF Accurate
  <2>3. series[e] = History(e, tool.start, tool.end)
    BY <2>2
  <2> HIDE DEF series
  <2>4. e.node \in DOMAIN tool'.nodes
    BY <1>1, <2>2
  <2>5. tool'.nodes[e.node].state_history = [key \in DOMAIN listed |-> series[listed[key]]]
    <3> DEFINE shown == Overwriting(ids)
               values == [key \in DOMAIN shown |-> tool.current[shown[key]]]
               numeric == {x \in ids : x.key \in METRIC_KEYS /\ Points(series[x]) # {}}
               summarised == Overwriting(numeric)
               summaries == [key \in DOMAIN summarised |->
                                Summary(Points(series[summarised[key]]))]
               histories == [key \in DOMAIN listed |-> series[listed[key]]]
    <3>1. NodeReport(e.node, tool.current, series) =
             [current |-> values, history |-> summaries, state_history |-> histories]
      BY DEF NodeReport
    <3> HIDE DEF values, summaries, histories
    <3>2. tool'.nodes[e.node].state_history = histories
      BY <1>1, <2>4, <3>1
    <3>3. QED
      BY <3>2 DEF histories
  <2>6. {x \in states : x.key = "reachable"} = {e}
    <3>1. e \in states
      BY <1>3, <2>1, <2>2, <2>3 DEF STATE_KEYS
    <3>2. \A x \in states : x.key = "reachable" => x = e
      BY <1>2, <1>3, ReachabilityIsUnique DEF IsReachability
    <3>3. QED
      BY <2>1, <3>1, <3>2
  <2> HIDE DEF states
  <2>7. "reachable" \in DOMAIN listed /\ listed["reachable"] = LastOf({e})
    BY <2>6 DEF Overwriting
  <2>8. LastOf({e}) = e
    BY <2>1, LastExists
  <2>9. QED
    BY <1>3, <2>3, <2>4, <2>5, <2>7, <2>8
<1>4. ASSUME NEW row \in recorded[Internet], tool.start < row.at, row.at <= tool.end
      PROVE  row \in tool'.health
  <2>1. row.at <= tool.asked.at
    <3>1. row.at \in Int
      BY <1>4, Kinds, RowsAreDated
    <3>2. QED
      BY <1>2, <1>4, <3>1
  <2>2. Past(Internet, tool.asked.at) # {}
    BY <1>4, <2>1 DEF Past
  <2>3. tool.health
    BY <2>2 DEF Accurate
  <2>4. row \in History(Internet, tool.start, tool.end)
    BY <1>2, <1>4, Kinds, Histories
  <2>5. QED
    BY <1>1, <2>3, <2>4
<1> HIDE DEF series
<1>5. \A e : History(e, tool.start, tool.end)' = History(e, tool.start, tool.end)
  BY <1>1 DEF History, Until, Within
<1>6. QED
  BY <1>1, <1>3, <1>4, <1>5 DEF OutagesAreReported, IsReachability

\* There are finitely many incidents to report, which have occurred.
LEMMA Occurrences ==
  ASSUME TypeOK, EventsKept, NEW start \in Nat, NEW end \in Nat, start < end, NEW lastInFull
  PROVE  /\ IsFiniteSet(Occurred(start, end, lastInFull))
         /\ \A i \in Occurred(start, end, lastInFull) :
               /\ i = [entity |-> i.entity, row |-> i.row]
               /\ i.entity \in Incidents /\ i.row.event # None
               /\ i.row \in IncidentHistory(i.entity, start, end, lastInFull)
               /\ i.row.state \in Nat \union {Unknown} /\ i.row.at \in Int
               /\ \E x \in triggered[RadioOf(i.entity)] :
                     /\ x.event = i.row.event /\ x.at <= end
                     /\ i.row.state \in {x.state, Unknown}
               /\ \A row \in recorded[i.entity] :
                     row.event # None /\ row.state # Unknown /\ row.at <= start =>
                        row.state <= When(i.row.state)
<1> DEFINE Of(e) == {row \in IncidentHistory(e, start, end, lastInFull) : row.event # None}
           Items(e) == {[entity |-> e, row |-> row] : row \in Of(e)}
           all == {Items(e) : e \in IncidentIds}
<1>1. IncidentIds \subseteq Incidents /\ IncidentIds \subseteq Entities
  BY Kinds DEF IncidentIds
<1>2. IsFiniteSet(IncidentIds)
  BY <1>1, Positions, FS_Subset
<1>3. ASSUME NEW e \in IncidentIds PROVE IsFiniteSet(Items(e))
  <2>1. IsFiniteSet(Of(e))
    <3>1. IsFiniteSet(IncidentHistory(e, start, end, lastInFull))
      BY <1>1, IncidentHistories
    <3>2. QED
      BY <3>1, FS_Subset
  <2> DEFINE f == [row \in Of(e) |-> [entity |-> e, row |-> row]]
  <2>2. f \in Surjection(Of(e), Items(e))
    BY DEF Surjection
  <2> HIDE DEF Of, Items, f
  <2>3. QED
    BY <2>1, <2>2, FS_Surjection
<1>4. IsFiniteSet(all)
  <2> DEFINE g == [e \in IncidentIds |-> Items(e)]
  <2> HIDE DEF Items
  <2>1. g \in Surjection(IncidentIds, all)
    BY DEF Surjection
  <2> HIDE DEF g, all
  <2>2. QED
    BY <1>2, <2>1, FS_Surjection
<1>5. Occurred(start, end, lastInFull) = UNION all
  BY DEF Occurred
<1>6. IsFiniteSet(Occurred(start, end, lastInFull))
  <2>1. \A T \in all : IsFiniteSet(T)
    BY <1>3
  <2> HIDE DEF all
  <2>2. QED
    BY <1>4, <1>5, <2>1, FS_UNION
<1>7. ASSUME NEW i \in Occurred(start, end, lastInFull)
      PROVE  /\ i = [entity |-> i.entity, row |-> i.row]
             /\ i.entity \in Incidents /\ i.row.event # None
             /\ i.row \in IncidentHistory(i.entity, start, end, lastInFull)
             /\ i.row.state \in Nat \union {Unknown} /\ i.row.at \in Int
             /\ \E x \in triggered[RadioOf(i.entity)] :
                   /\ x.event = i.row.event /\ x.at <= end
                   /\ i.row.state \in {x.state, Unknown}
             /\ \A row \in recorded[i.entity] :
                   row.event # None /\ row.state # Unknown /\ row.at <= start =>
                      row.state <= When(i.row.state)
  <2>0. PICK e \in IncidentIds : \E row \in IncidentHistory(e, start, end, lastInFull) :
           i = [entity |-> e, row |-> row] /\ row.event # None
    BY DEF Occurred
  <2>1. PICK row \in IncidentHistory(e, start, end, lastInFull) :
           i = [entity |-> e, row |-> row] /\ row.event # None
    BY <2>0
  <2>2. /\ e \in Incidents /\ e \in Entities /\ RadioOf(e) \in Radios
        /\ Traced(recorded[e], triggered[RadioOf(e)]) /\ Sequential(recorded[e])
    BY <1>1, Kinds DEF EventsKept
  <2>3. row.at \in Int
    BY <2>2, IncidentHistories DEF Dated
  <2>4. PICK old \in recorded[e] :
           /\ old.state = row.state /\ old.event = row.event /\ old.at <= end
           /\ \A other \in recorded[e] : other.at <= start => other.at <= old.at
    BY <2>1, <2>2, IncidentHistories
  <2>5. PICK x \in triggered[RadioOf(e)] :
           x.event = old.event /\ x.at <= old.at /\ old.state \in {x.state, Unknown}
    BY <2>1, <2>2, <2>4 DEF Traced
  <2>6. /\ x.at \in 1..now /\ x.state \in 1..now /\ now \in 0..MaxTime
        /\ old.at \in 1..now /\ now \in Nat /\ MaxTime \in Nat
    BY <2>2, RowsAreDated, StatesAssumption DEF TypeOK
  <2>7. x.at <= end /\ row.state \in Nat \union {Unknown}
    BY <2>4, <2>5, <2>6
  <2>8. ASSUME NEW other \in recorded[e], other.event # None, other.state # Unknown,
               other.at <= start
        PROVE  other.state <= When(row.state)
    <3>1. other.at <= old.at
      BY <2>4, <2>8
    <3>2. PICK y \in triggered[RadioOf(e)] : other.state = y.state
      BY <2>2, <2>8 DEF Traced
    <3>3. y.state \in 1..now
      BY <2>2, <3>2 DEF TypeOK
    <3>4. CASE row.state = Unknown
      BY <2>6, <3>2, <3>3, <3>4 DEF When
    <3>5. CASE row.state # Unknown
      <4>1. other.state <= old.state
        BY <2>1, <2>2, <2>4, <2>8, <3>1, <3>5 DEF Sequential, IsOccurrence
      <4>2. QED
        BY <2>4, <3>5, <4>1 DEF When
    <3>6. QED
      BY <3>4, <3>5
  <2>9. i.entity = e /\ i.row = row
    BY <2>1
  <2>10. QED
    BY <2>1, <2>2, <2>3, <2>4, <2>5, <2>7, <2>8, <2>9
<1>8. QED
  BY <1>6, <1>7

\* What is reported of incidents has occurred, and is sorted.
LEMMA IncidentsAnswered ==
  ASSUME TypeOK, EventsKept, Accurate(tool), NEW lastInFull, Answer(lastInFull)
  PROVE  IncidentsAreReal'
<1> DEFINE start == tool.start
           end == tool.end
           items == Occurred(start, end, lastInFull)
           Before == {p \in items \X items : Sooner(p[1], p[2])}
           order == InOrder(items, Before)
           n == Cardinality(items)
<1>1. /\ tool'.start = start /\ tool'.end = end
      /\ tool'.incidents = IncidentReport(start, end, lastInFull)
      /\ recorded' = recorded /\ triggered' = triggered
  BY DEF Answer, Report, integration
<1>2. start \in Nat /\ end \in Nat /\ start < end
  BY DEF Accurate
<1>3. tool'.incidents = [k \in DOMAIN order |-> Incident(order[k])]
  BY <1>1 DEF IncidentReport
<1> HIDE DEF start, end
<1>4. /\ IsFiniteSet(items)
      /\ \A i \in items : /\ i = [entity |-> i.entity, row |-> i.row]
                          /\ i.entity \in Entities /\ i.entity \in Incidents
                          /\ i.row \in IncidentHistory(i.entity, start, end, lastInFull)
                          /\ i.row.at \in Int /\ Position[i.entity] \in Nat
                          /\ When(i.row.state) \in Int
  <2>1. \A state \in Nat \union {Unknown} : When(state) \in Int
    BY StatesAssumption DEF When
  <2>2. QED
    BY <1>2, <2>1, Kinds, Occurrences, Positions
<1>5. \A i \in items : /\ \E x \in triggered[RadioOf(i.entity)] :
                             /\ x.event = i.row.event /\ x.at <= end
                             /\ i.row.state \in {x.state, Unknown}
                       /\ \A row \in recorded[i.entity] :
                             row.event # None /\ row.state # Unknown /\ row.at <= start =>
                                row.state <= When(i.row.state)
  BY <1>2, Occurrences
<1>6. \A i, j \in items : <<i, j>> \in Before <=> Sooner(i, j)
  OBVIOUS
<1> HIDE DEF items, Before
<1>7. IsStrictOrder(items, Before)
  <2>1. \A x \in items : <<x, x>> \notin Before
    BY <1>4, <1>6 DEF Sooner, Listed
  <2>2. ASSUME NEW x \in items, NEW y \in items, x # y
        PROVE  <<x, y>> \in Before \/ <<y, x>> \in Before
    <3>1. CASE When(x.row.state) # When(y.row.state) \/ Position[x.entity] # Position[y.entity]
      BY <1>4, <1>6, <3>1 DEF Sooner, Listed
    <3>2. CASE When(x.row.state) = When(y.row.state) /\ Position[x.entity] = Position[y.entity]
      <4>1. x.entity = y.entity
        BY <1>4, <3>2, Positions
      <4>2. x.row # y.row
        BY <1>4, <2>2, <4>1
      <4>3. x.row.at # y.row.at
        <5>1. Dated(IncidentHistory(x.entity, start, end, lastInFull))
          BY <1>2, <1>4, IncidentHistories
        <5>2. QED
          BY <1>4, <4>1, <4>2, <5>1 DEF Dated
      <4>4. x.row.at < y.row.at \/ y.row.at < x.row.at
        BY <1>4, <4>3
      <4>5. QED
        BY <1>6, <3>2, <4>1, <4>4 DEF Sooner, Listed
    <3>3. QED
      BY <3>1, <3>2
  <2>3. \A x, y, z \in items : <<x, y>> \in Before /\ <<y, z>> \in Before => <<x, z>> \in Before
    BY <1>4, <1>6 DEF Sooner, Listed
  <2>4. QED
    BY <2>1, <2>2, <2>3 DEF IsStrictOrder
<1>8. /\ n \in Nat /\ order \in [1..n -> items]
      /\ \A i, j \in 1..n : i < j => <<order[i], order[j]>> \in Before
  BY <1>4, <1>7, Sorting
<1> HIDE DEF order, n
<1>9. DOMAIN tool'.incidents = 1..n /\ \A k \in 1..n : tool'.incidents[k] = Incident(order[k])
  BY <1>3, <1>8
<1>10. \A item : /\ Incident(item).entity = item.entity /\ Incident(item).state = item.row.state
                 /\ Incident(item).event = item.row.event
  BY DEF Incident
<1>11. ASSUME NEW k \in DOMAIN tool'.incidents
       PROVE  LET i == tool'.incidents[k]
              IN  /\ \E x \in triggered'[RadioOf(i.entity)] :
                        /\ x.event = i.event /\ x.at <= tool'.end
                        /\ i.state \in {x.state, Unknown}
                  /\ \A row \in recorded'[i.entity] :
                        row.event # None /\ row.state # Unknown /\ row.at <= tool'.start =>
                           row.state <= When(i.state)
  <2> DEFINE i == tool'.incidents[k]
             item == order[k]
  <2>1. item \in items /\ i = Incident(item)
    BY <1>8, <1>9
  <2>2. i.entity = item.entity /\ i.state = item.row.state /\ i.event = item.row.event
    BY <1>10, <2>1
  <2> HIDE DEF i, item
  <2>3. /\ \E x \in triggered[RadioOf(item.entity)] :
              /\ x.event = item.row.event /\ x.at <= end
              /\ item.row.state \in {x.state, Unknown}
        /\ \A row \in recorded[item.entity] :
              row.event # None /\ row.state # Unknown /\ row.at <= start =>
                 row.state <= When(item.row.state)
    BY <1>5, <2>1
  <2>4. \E x \in triggered'[RadioOf(i.entity)] :
           /\ x.event = i.event /\ x.at <= tool'.end
           /\ i.state \in {x.state, Unknown}
    BY <1>1, <2>2, <2>3
  <2>5. \A row \in recorded'[i.entity] :
           row.event # None /\ row.state # Unknown /\ row.at <= tool'.start =>
              row.state <= When(i.state)
    BY <1>1, <2>2, <2>3
  <2>6. QED
    BY <2>4, <2>5 DEF i
<1>12. ASSUME NEW j \in DOMAIN tool'.incidents, NEW k \in DOMAIN tool'.incidents, j < k
       PROVE  When(tool'.incidents[j].state) <= When(tool'.incidents[k].state)
  <2>1. Sooner(order[j], order[k]) /\ order[j] \in items /\ order[k] \in items
    BY <1>6, <1>8, <1>9, <1>12
  <2>2. When(order[j].row.state) <= When(order[k].row.state)
    BY <1>4, <2>1 DEF Sooner
  <2>3. /\ tool'.incidents[j] = Incident(order[j])
        /\ tool'.incidents[k] = Incident(order[k])
    BY <1>9
  <2>4. QED
    BY <1>10, <2>2, <2>3
<1>13. QED
  BY <1>11, <1>12 DEF IncidentsAreReal
-----------------------------------------------------------------------------
LEMMA ReportInit == Init => ReportInv
<1> SUFFICES ASSUME Init PROVE ReportInv
  OBVIOUS
<1>1. tool.stage = "idle" /\ success = FALSE
  BY DEF Init, Idle
<1>2. EventsKept
  BY Kinds DEF Init, EventsKept, Successive, Traced, Sequential
<1>3. QED
  BY <1>1, <1>2, TypeInit DEF ReportInv, Recording, Reachable, CurrentIsLatest,
                              OutagesAreReported, IncidentsAreReal, Done

LEMMA EventsStay ==
  ASSUME EventsKept, UNCHANGED <<triggered, recorded>>
  PROVE  EventsKept'
  BY DEF EventsKept

LEMMA ReportNext == ReportInv /\ [Next]_vars => ReportInv'
<1> SUFFICES ASSUME ReportInv, [Next]_vars PROVE ReportInv'
  OBVIOUS
<1>1. TypeOK /\ Reachable /\ EventsKept /\ (tool.stage = "asked" => Accurate(tool))
  BY DEF ReportInv, Recording
<1>2. ASSUME tool'.stage # "done"
      PROVE  CurrentIsLatest' /\ OutagesAreReported' /\ IncidentsAreReal'
  BY <1>2 DEF CurrentIsLatest, OutagesAreReported, IncidentsAreReal, Done
<1>3. CASE Recorders
  <2>1. TypeOK' /\ Reachable' /\ EventsKept'
    BY <1>1, <1>3, TypeRecorded, ReachableRecorded, EventsRecorded
  <2>2. tool' = tool /\ tool.stage # "done"
    BY <1>1, <1>3, TimePasses
  <2>3. tool.stage = "asked" => Accurate(tool)'
    BY <1>1, <1>3, AccurateStays
  <2>4. QED
    BY <1>2, <2>1, <2>2, <2>3 DEF ReportInv, Recording
<1>4. ASSUME NEW end \in 1..now, NEW start \in 0..(end - 1), Ask(start, end)
      PROVE  ReportInv'
  <2>1. tool'.stage = "asked" /\ UNCHANGED <<now, loaded, live, success, answered, tracked, triggered, recorded>>
    BY <1>4 DEF Ask, integration
  <2>2. TypeOK' /\ Reachable' /\ EventsKept'
    BY <1>1, <2>1, EventsStay DEF TypeOK, Reachable, State
  <2>3. Accurate(tool)'
    BY <1>1, <1>4, AskIsAccurate
  <2>4. QED
    BY <1>2, <2>1, <2>2, <2>3 DEF ReportInv, Recording
<1>5. ASSUME NEW lastInFull \in LastInFull, Answer(lastInFull)
      PROVE  ReportInv'
  <2>1. /\ tool.stage = "asked" /\ tool'.stage = "done"
        /\ UNCHANGED <<now, loaded, live, success, answered, tracked, triggered, recorded>>
    BY <1>5 DEF Answer, Report, integration
  <2>2. TypeOK' /\ Reachable' /\ EventsKept'
    BY <1>1, <2>1, EventsStay DEF TypeOK, Reachable, State
  <2>3. CurrentIsLatest' /\ OutagesAreReported' /\ IncidentsAreReal'
    BY <1>1, <1>5, <2>1, CurrentAnswered, OutagesAnswered, IncidentsAnswered
  <2>4. QED
    BY <2>1, <2>2, <2>3 DEF ReportInv, Recording
<1>6. CASE UNCHANGED vars
  <2>1. UNCHANGED <<now, loaded, live, success, answered, tracked, triggered, recorded, tool>>
    BY <1>6 DEF vars, integration
  <2>2. TypeOK' /\ Reachable' /\ EventsKept'
    BY <1>1, <2>1, EventsStay DEF TypeOK, Reachable, State
  <2>3. tool.stage = "asked" => Accurate(tool)'
    BY <1>1, <2>1 DEF Accurate, Past
  <2>4. CurrentIsLatest'
    BY <2>1 DEF ReportInv, CurrentIsLatest, Done
  <2>5. OutagesAreReported'
    BY <2>1 DEF ReportInv, OutagesAreReported, Done, History, Until, Within
  <2>6. IncidentsAreReal'
    BY <2>1 DEF ReportInv, IncidentsAreReal, Done
  <2>7. QED
    BY <2>1, <2>2, <2>3, <2>4, <2>5, <2>6 DEF ReportInv, Recording
<1>7. QED
  BY <1>3, <1>4, <1>5, <1>6 DEF Next, Recorders, SetsUp, Polls, Fails
-----------------------------------------------------------------------------
(* An entity has one row for a time, of its own kind, and a restored event  *)
(* keeps the time it occurred at, whatever is polled, lost and reloaded.    *)
THEOREM ReportTyped == Spec => []TypeOK
<1>1. ReportInv => TypeOK
  BY DEF ReportInv, Recording
<1>2. QED
  BY ReportInit, ReportNext, <1>1, PTL DEF Spec

(* In a report up to the present, the current value of each metric of a     *)
(* node and the latest of its history are those of one radio, although the  *)
(* states were read before the histories (wifi_diagnostic_report.py:109-182, *)
(* 272-305).                                                               *)
THEOREM CurrentAlwaysLatest == Spec => []CurrentIsLatest
<1>1. ReportInv => CurrentIsLatest
  BY DEF ReportInv
<1>2. QED
  BY ReportInit, ReportNext, <1>1, PTL DEF Spec

(* A report that was asked for while polls succeeded misses no outage of a   *)
(* node that the latest setup found, nor any change of the Internet         *)
(* (wifi_diagnostic_report.py:156-174, binary_sensor.py:38-46, 88-96).      *)
THEOREM OutagesAlwaysReported == Spec => []OutagesAreReported
<1>1. ReportInv => OutagesAreReported
  BY DEF ReportInv
<1>2. QED
  BY ReportInit, ReportNext, <1>1, PTL DEF Spec

(* No report invents an incident, moves one to another time or radio, digs   *)
(* up one that had been replaced before the window, or gives them in another *)
(* order, whatever was unloaded, restored or unavailable in between         *)
(* (event.py:63-95, wifi_diagnostic_report.py:184-202, 294-306).            *)
THEOREM IncidentsAlwaysReal == Spec => []IncidentsAreReal
<1>1. ReportInv => IncidentsAreReal
  BY DEF ReportInv
<1>2. QED
  BY ReportInit, ReportNext, <1>1, PTL DEF Spec
=============================================================================
