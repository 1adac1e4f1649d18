-------------------------- MODULE RetryCountersProofs --------------------------
(***************************************************************************)
(* Theorems about RetryCounters, for any number of radios and any bound on *)
(* the counters.                                                           *)
(***************************************************************************)
EXTENDS RetryCounters, TLAPS

Naturals3 == [sent : Nat, retries : Nat, failures : Nat]

\* A reading that was remembered; the failures may have been unreadable.
Remembered == [sent : Counts, retries : Counts, failures : Counts \union {None}]

Typed ==
    /\ TypeOK
    /\ count.retries <= count.sent /\ count.failures <= count.sent
    /\ ghost \in [since : [Radios -> Naturals3], left : SUBSET Radios]

\* No more than what the radio sent since it was last read.
Within(c, since) == /\ c.sent <= since.sent
                    /\ c.retries <= since.retries
                    /\ c.failures <= since.failures

(***************************************************************************)
(* Counters of an association that has been read have grown by what was    *)
(* sent since; those of another one started later, at zero.                *)
(***************************************************************************)
Accounted ==
    \A r \in Radios :
       /\ stored[r] # None /\ r \notin ghost.left =>
             /\ r = at
             /\ count.sent = stored[r].sent + ghost.since[r].sent
             /\ count.retries = stored[r].retries + ghost.since[r].retries
             /\ stored[r].failures # None =>
                   count.failures = stored[r].failures + ghost.since[r].failures
       /\ r = at /\ (stored[r] = None \/ r \in ghost.left) => Within(count, ghost.since[r])

CountersInv == Typed /\ Accounted
-----------------------------------------------------------------------------
(* The figures.                                                            *)

\* round(100 * retries / attempts, 1) is a percentage.
LEMMA TenthsBounded ==
  ASSUME NEW packets \in Nat \ {0}, NEW retries \in Nat
  PROVE  Tenths(packets, retries) \in 0..1000
<1> DEFINE attempts == packets + retries
           share == 1000 * retries + attempts \div 2
           tenths == share \div attempts
<1>1. attempts \in Nat \ {0} /\ retries < attempts
  OBVIOUS
<1>2. attempts \div 2 \in Nat /\ attempts \div 2 <= attempts
  BY <1>1
<1>3. share \in Nat /\ share < 1001 * attempts
  BY <1>1, <1>2
<1>4. tenths \in Int /\ share - attempts < tenths * attempts /\ tenths * attempts <= share
  BY <1>1, <1>3
<1>5. tenths < 1001
  BY <1>1, <1>3, <1>4
<1>6. tenths >= 0
  BY <1>1, <1>3, <1>4
<1>7. QED
  BY <1>4, <1>5, <1>6 DEF Tenths

LEMMA PercentTyped ==
  ASSUME NEW previous \in Remembered, NEW reading \in Remembered
  PROVE  /\ Percent(previous, reading) \in 0..1000 \union {None}
         /\ Failures(previous, reading) \in Counts \union {None}
<1>1. Percent(previous, reading) \in 0..1000 \union {None}
  <2> DEFINE packets == reading.sent - previous.sent
             retries == reading.retries - previous.retries
  <2>1. packets \in Int /\ retries \in Int
    BY CountersAssumption DEF Remembered, Counts
  <2>2. CASE packets > 0 /\ retries >= 0
    <3>1. packets \in Nat \ {0} /\ retries \in Nat
      BY <2>1, <2>2
    <3>2. Tenths(packets, retries) \in 0..1000
      BY <3>1, TenthsBounded
    <3>3. Percent(previous, reading) = Tenths(packets, retries)
      BY <2>2 DEF Percent
    <3>4. QED
      BY <3>2, <3>3
  <2>3. CASE ~(packets > 0 /\ retries >= 0)
    BY <2>3 DEF Percent
  <2>4. QED
    BY <2>2, <2>3
<1>2. Failures(previous, reading) \in Counts \union {None}
  BY CountersAssumption DEF Failures, Remembered, Counts
<1>3. QED
  BY <1>1, <1>2
-----------------------------------------------------------------------------
(* What a poll reads.                                                      *)

Reads(r, answered, readable) == r \in answered /\ r = at /\ readable

Reading(failuresReadable) ==
    IF failuresReadable THEN count ELSE [count EXCEPT !.failures = None]

LEMMA ReadingTyped ==
  ASSUME Typed, NEW failuresReadable \in BOOLEAN
  PROVE  /\ Reading(failuresReadable) \in Remembered
         /\ Reading(failuresReadable).sent = count.sent
         /\ Reading(failuresReadable).retries = count.retries
         /\ Reading(failuresReadable).failures \in {count.failures, None}
  BY DEF Reading, Remembered, Typed, TypeOK, Counters

LEMMA RememberedIsSomething == None \notin Remembered
<1>1. Remembered \subseteq [sent : Int, retries : Int, failures : Int \union {None}]
  BY CountersAssumption DEF Remembered, Counts
<1>2. QED
  BY <1>1, CountersAssumption

LEMMA PollReads ==
  ASSUME Typed, NEW answered \in SUBSET Radios, NEW readable \in BOOLEAN,
         NEW failuresReadable \in BOOLEAN, Poll(answered, readable, failuresReadable),
         NEW r \in Radios
  PROVE  IF Reads(r, answered, readable)
         THEN /\ reported'[r] = ReportOf(r, Reading(failuresReadable))
              /\ stored'[r] = Reading(failuresReadable)
              /\ ghost'.since[r] = Zero
              /\ r \notin ghost'.left
         ELSE /\ reported'[r] = Unreported
              /\ stored'[r] = stored[r]
              /\ ghost'.since[r] = ghost.since[r]
              /\ r \in ghost'.left <=> r \in ghost.left
  BY DEF Poll, Reads, Reading

LEMMA PollKeeps ==
  ASSUME CountersInv, NEW answered \in SUBSET Radios, NEW readable \in BOOLEAN,
         NEW failuresReadable \in BOOLEAN, Poll(answered, readable, failuresReadable)
  PROVE  CountersInv'
<1>1. ghost' \in [since : [Radios -> Naturals3], left : SUBSET Radios]
  <2>1. Zero \in Naturals3
    BY DEF Zero, Naturals3
  <2>2. ghost' = [since  |-> [r \in Radios |-> IF Reads(r, answered, readable)
                                             THEN Zero ELSE ghost.since[r]],
                  left   |-> {r \in ghost.left : ~Reads(r, answered, readable)}]
    BY DEF Poll, Reads
  <2>3. [r \in Radios |-> IF Reads(r, answered, readable) THEN Zero ELSE ghost.since[r]]
           \in [Radios -> Naturals3]
    BY <2>1 DEF CountersInv, Typed
  <2>4. {r \in ghost.left : ~Reads(r, answered, readable)} \in SUBSET Radios
    BY DEF CountersInv, Typed
  <2>5. QED
    BY <2>2, <2>3, <2>4
<1>2. Reading(failuresReadable) \in Remembered
  BY ReadingTyped DEF CountersInv
<1>3. ASSUME NEW r \in Radios
      PROVE  ReportOf(r, Reading(failuresReadable))
                \in [percent : 0..1000 \union {None}, failures : Counts \union {None}]
  <2>1. stored[r] \in Remembered \union {None}
    BY DEF CountersInv, Typed, TypeOK, Remembered
  <2>2. QED
    BY <1>2, <2>1, PercentTyped DEF ReportOf, Unreported
<1>4. Unreported \in [percent : 0..1000 \union {None}, failures : Counts \union {None}]
  BY DEF Unreported
<1>5. reported' \in [Radios -> [percent : 0..1000 \union {None},
                               failures : Counts \union {None}]]
  <2>1. reported' = [r \in Radios |-> IF Reads(r, answered, readable)
                                     THEN ReportOf(r, Reading(failuresReadable))
                                     ELSE Unreported]
    BY DEF Poll, Reads, Reading
  <2>2. QED
    BY <1>3, <1>4, <2>1
<1>6. stored' \in [Radios -> {None} \union Remembered]
  <2>1. stored' = [r \in Radios |-> IF Reads(r, answered, readable)
                                   THEN Reading(failuresReadable) ELSE stored[r]]
    BY DEF Poll, Reads, Reading
  <2>2. QED
    BY <1>2, <2>1 DEF CountersInv, Typed, TypeOK, Remembered
<1>7. Typed'
  BY <1>1, <1>5, <1>6 DEF Poll, CountersInv, Typed, TypeOK, Remembered
<1>8. ASSUME NEW r \in Radios
      PROVE  /\ stored'[r] # None /\ r \notin ghost'.left =>
                   /\ r = at'
                   /\ count'.sent = stored'[r].sent + ghost'.since[r].sent
                   /\ count'.retries = stored'[r].retries + ghost'.since[r].retries
                   /\ stored'[r].failures # None =>
                         count'.failures = stored'[r].failures + ghost'.since[r].failures
             /\ r = at' /\ (stored'[r] = None \/ r \in ghost'.left) =>
                   Within(count', ghost'.since[r])
  <2>1. count' = count /\ at' = at
    BY DEF Poll
  <2>2. CASE Reads(r, answered, readable)
    <3>1. /\ stored'[r] = Reading(failuresReadable) /\ ghost'.since[r] = Zero
          /\ r \notin ghost'.left
      BY <2>2, PollReads DEF CountersInv
    <3>2. stored'[r] # None
      BY <1>2, <3>1, RememberedIsSomething
    <3>3. count \in Counters
      BY DEF CountersInv, Typed, TypeOK
    <3>4. /\ stored'[r].sent = count.sent /\ stored'[r].retries = count.retries
          /\ stored'[r].failures \in {count.failures, None}
      BY <3>1, ReadingTyped DEF CountersInv
    <3>5. r = at
      BY <2>2 DEF Reads
    <3>6. QED
      BY <2>1, <3>1, <3>2, <3>3, <3>4, <3>5, CountersAssumption DEF Zero, Counters, Counts
  <2>3. CASE ~Reads(r, answered, readable)
    <3>1. /\ stored'[r] = stored[r] /\ ghost'.since[r] = ghost.since[r]
          /\ r \in ghost'.left <=> r \in ghost.left
      BY <2>3, PollReads DEF CountersInv
    <3>2. QED
      BY <2>1, <3>1 DEF CountersInv, Accounted
  <2>4. QED
    BY <2>2, <2>3
<1>9. Accounted'
  BY <1>8 DEF Accounted
<1>10. QED
  BY <1>7, <1>9 DEF CountersInv
-----------------------------------------------------------------------------
(* What happens between polls.                                             *)

LEMMA RoamKeeps ==
  ASSUME CountersInv, NEW place \in Radios \union {None}, Roam(place)
  PROVE  CountersInv'
<1>1. /\ at' = place /\ place # at /\ count' = Zero /\ UNCHANGED <<stored, reported>>
      /\ ghost'.since = ghost.since
      /\ ghost'.left = ghost.left \union ({at} \ {None})
      /\ ghost' \in [since : [Radios -> Naturals3], left : SUBSET Radios]
  BY DEF Roam, CountersInv, Typed, TypeOK
<1>2. Zero \in Counters /\ Zero.retries <= Zero.sent /\ Zero.failures <= Zero.sent
  BY CountersAssumption DEF Zero, Counters, Counts
<1>3. Typed'
  BY <1>1, <1>2 DEF CountersInv, Typed, TypeOK
<1>4. ASSUME NEW r \in Radios
      PROVE  /\ stored[r] # None => r \in ghost'.left
             /\ Within(Zero, ghost.since[r])
  <2>1. stored[r] # None => r \in ghost'.left
    BY <1>1, CountersAssumption DEF CountersInv, Accounted
  <2>2. ghost.since[r] \in Naturals3
    BY DEF CountersInv, Typed
  <2>3. QED
    BY <2>1, <2>2 DEF Within, Zero, Naturals3
<1>5. Accounted'
  BY <1>1, <1>4 DEF Accounted
<1>6. QED
  BY <1>3, <1>5 DEF CountersInv

LEMMA TransmitKeeps ==
  ASSUME CountersInv, NEW retried \in BOOLEAN, NEW failed \in BOOLEAN,
         Transmit(retried, failed)
  PROVE  CountersInv'
<1>1. /\ at \in Radios /\ UNCHANGED <<at, stored, reported>>
      /\ count' = Plus(count, retried, failed)
      /\ ghost' = [ghost EXCEPT !.since =
                     [ghost.since EXCEPT ![at] = Plus(ghost.since[at], retried, failed)]]
  BY DEF Transmit, CountersInv, Typed, TypeOK
<1>2. /\ count \in Counters /\ ghost.since \in [Radios -> Naturals3]
      /\ count.retries <= count.sent /\ count.failures <= count.sent
      /\ count.sent < MaxCount
  BY DEF Transmit, CountersInv, Typed, TypeOK
<1>3. /\ count' \in Counters /\ count'.retries <= count'.sent /\ count'.failures <= count'.sent
  BY <1>1, <1>2, CountersAssumption DEF Plus, Counters, Counts
<1>4. Plus(ghost.since[at], retried, failed) \in Naturals3
  BY <1>1, <1>2 DEF Plus, Naturals3
<1>5. /\ ghost'.left = ghost.left
      /\ ghost'.since = [ghost.since EXCEPT ![at] = Plus(ghost.since[at], retried, failed)]
      /\ ghost' \in [since : [Radios -> Naturals3], left : SUBSET Radios]
  <2>1. [ghost.since EXCEPT ![at] = Plus(ghost.since[at], retried, failed)]
           \in [Radios -> Naturals3]
    BY <1>2, <1>4
  <2>2. QED
    BY <1>1, <2>1 DEF CountersInv, Typed
<1>6. Typed'
  BY <1>1, <1>3, <1>5 DEF CountersInv, Typed, TypeOK
<1>7. ASSUME NEW r \in Radios, r # at
      PROVE  ghost'.since[r] = ghost.since[r]
  BY <1>2, <1>5, <1>7
<1>8. ghost'.since[at] = Plus(ghost.since[at], retried, failed)
  BY <1>1, <1>2, <1>5
<1>9. /\ count.sent \in Int /\ count.retries \in Int /\ count.failures \in Int
      /\ ghost.since[at] \in Naturals3
  BY <1>1, <1>2 DEF Counters, Counts
<1>10. stored[at] # None => stored[at] \in Remembered
  BY <1>1 DEF CountersInv, Typed, TypeOK, Remembered
<1>11. stored[at] # None /\ at \notin ghost.left =>
         /\ count'.sent = stored[at].sent + ghost'.since[at].sent
         /\ count'.retries = stored[at].retries + ghost'.since[at].retries
         /\ stored[at].failures # None =>
               count'.failures = stored[at].failures + ghost'.since[at].failures
  BY <1>1, <1>8, <1>9, <1>10, CountersAssumption
     DEF CountersInv, Accounted, Plus, Naturals3, Remembered, Counts
<1>12. stored[at] = None \/ at \in ghost.left => Within(count', ghost'.since[at])
  BY <1>1, <1>8, <1>9 DEF CountersInv, Accounted, Within, Plus, Naturals3
<1>13. Accounted'
  BY <1>1, <1>5, <1>7, <1>11, <1>12 DEF CountersInv, Accounted
<1>14. QED
  BY <1>6, <1>13 DEF CountersInv

LEMMA CountersInit == Init => CountersInv
<1> SUFFICES ASSUME Init PROVE CountersInv
  OBVIOUS
<1>1. Zero \in Counters /\ Zero \in Naturals3
  BY CountersAssumption DEF Zero, Counters, Counts, Naturals3
<1>2. ghost \in [since : [Radios -> Naturals3], left : SUBSET Radios]
  BY <1>1 DEF Init
<1>3. Typed
  BY <1>1, <1>2 DEF Init, Typed, TypeOK, Zero, Unreported
<1>4. Accounted
  BY CountersAssumption DEF Init, Accounted
<1>5. QED
  BY <1>3, <1>4 DEF CountersInv

LEMMA CountersNext == CountersInv /\ [Next]_vars => CountersInv'
<1> SUFFICES ASSUME CountersInv, [Next]_vars PROVE CountersInv'
  OBVIOUS
<1>1. CASE \E r \in Radios \union {None} : Roam(r)
  BY <1>1, RoamKeeps
<1>2. CASE \E retried, failed \in BOOLEAN : Transmit(retried, failed)
  BY <1>2, TransmitKeeps
<1>3. CASE \E answered \in SUBSET Radios, readable, failuresReadable \in BOOLEAN :
              Poll(answered, readable, failuresReadable)
  BY <1>3, PollKeeps
<1>4. CASE UNCHANGED vars
  BY <1>4 DEF vars, CountersInv, Typed, TypeOK, Accounted, Within
<1>5. QED
  BY <1>1, <1>2, <1>3, <1>4 DEF Next

(* A percentage is one, whatever counters it is computed from, also those   *)
(* of different associations (api.py:257-262).                              *)
THEOREM CountersTyped == Spec => []TypeOK
<1>1. CountersInv => TypeOK
  BY DEF CountersInv, Typed
<1>2. QED
  BY CountersInit, CountersNext, <1>1, PTL DEF Spec
-----------------------------------------------------------------------------
(* The figures against what really happened.                               *)

LEMMA FiguresStep ==
  ASSUME CountersInv, Polled, NEW r \in Radios
  PROVE  /\ reported'[r].failures # None =>
               /\ reported'[r].failures <= ghost.since[r].failures
               /\ r \notin ghost.left => reported'[r].failures = ghost.since[r].failures
         /\ reported'[r].percent # None /\ r \notin ghost.left =>
               /\ ghost.since[r].sent > 0
               /\ reported'[r].percent = Tenths(ghost.since[r].sent, ghost.since[r].retries)
<1>1. PICK answered \in SUBSET Radios, readable \in BOOLEAN, failuresReadable \in BOOLEAN :
         Poll(answered, readable, failuresReadable)
  BY DEF Polled
<1> DEFINE reading == Reading(failuresReadable)
<1>2. CASE Reads(r, answered, readable) /\ stored[r] # None
  <2>1. /\ reported'[r].percent = Percent(stored[r], reading)
        /\ reported'[r].failures = Failures(stored[r], reading)
    <3>1. reported'[r] = ReportOf(r, reading)
      BY <1>1, <1>2, PollReads DEF CountersInv
    <3>2. QED
      BY <1>2, <3>1 DEF ReportOf
  <2>2. r = at
    BY <1>2 DEF Reads
  <2>3. /\ reading.sent = count.sent /\ reading.retries = count.retries
        /\ reading.failures \in {count.failures, None}
    BY ReadingTyped DEF CountersInv
  <2>4. /\ count \in Counters /\ stored[r] \in Remembered /\ ghost.since[r] \in Naturals3
    BY <1>2 DEF CountersInv, Typed, TypeOK, Remembered
  <2>5. r \notin ghost.left =>
           /\ count.sent = stored[r].sent + ghost.since[r].sent
           /\ count.retries = stored[r].retries + ghost.since[r].retries
           /\ stored[r].failures # None =>
                 count.failures = stored[r].failures + ghost.since[r].failures
    BY <1>2 DEF CountersInv, Accounted
  <2>6. r \in ghost.left => count.failures <= ghost.since[r].failures
    BY <2>2 DEF CountersInv, Accounted, Within
  <2>7. Failures(stored[r], reading) # None =>
           /\ Failures(stored[r], reading) <= ghost.since[r].failures
           /\ r \notin ghost.left => Failures(stored[r], reading) = ghost.since[r].failures
    <3>1. ASSUME Failures(stored[r], reading) # None
          PROVE  /\ stored[r].failures # None /\ reading.failures = count.failures
                 /\ Failures(stored[r], reading) = count.failures - stored[r].failures
      BY <2>3, <3>1 DEF Failures
    <3>2. /\ count.failures \in Int /\ ghost.since[r].failures \in Int
          /\ stored[r].failures # None => stored[r].failures \in Nat
      BY <2>4, CountersAssumption DEF Counters, Counts, Remembered, Naturals3
    <3>3. QED
      BY <2>5, <2>6, <3>1, <3>2
  <2>8. Percent(stored[r], reading) # None /\ r \notin ghost.left =>
           /\ ghost.since[r].sent > 0
           /\ Percent(stored[r], reading)
                 = Tenths(ghost.since[r].sent, ghost.since[r].retries)
    <3>1. SUFFICES ASSUME Percent(stored[r], reading) # None, r \notin ghost.left
                   PROVE  /\ ghost.since[r].sent > 0
                          /\ Percent(stored[r], reading)
                                = Tenths(ghost.since[r].sent, ghost.since[r].retries)
      OBVIOUS
    <3>2. /\ reading.sent - stored[r].sent = ghost.since[r].sent
          /\ reading.retries - stored[r].retries = ghost.since[r].retries
      BY <2>3, <2>4, <2>5, <3>1, CountersAssumption
         DEF Counters, Counts, Remembered, Naturals3
    <3>3. QED
      BY <3>1, <3>2 DEF Percent
  <2>9. QED
    BY <2>1, <2>7, <2>8
<1>3. CASE ~(Reads(r, answered, readable) /\ stored[r] # None)
  <2>1. reported'[r] = Unreported
    BY <1>1, <1>3, PollReads DEF CountersInv, ReportOf
  <2>2. QED
    BY <2>1 DEF Unreported
<1>4. QED
  BY <1>2, <1>3

(* No reassociation makes the reported failures exceed the real ones        *)
(* (api.py:263-266).                                                        *)
THEOREM FailuresNeverOverstated == Spec => FailuresNotOverstated
<1>1. CountersInv /\ [Next]_vars =>
        [Polled => \A r \in Radios :
           reported'[r].failures # None =>
              reported'[r].failures <= ghost.since[r].failures]_vars
  BY FiguresStep
<1>2. QED
  BY CountersInit, CountersNext, <1>1, PTL DEF Spec, FailuresNotOverstated

(* The figures of a client that stayed are exact, however many polls missed *)
(* it (api.py:246-266).                                                     *)
THEOREM AlwaysExactWhileAssociated == Spec => ExactWhileAssociated
<1>1. CountersInv /\ [Next]_vars =>
        [Polled => \A r \in Radios \ ghost.left :
           /\ reported'[r].percent # None =>
                 /\ ghost.since[r].sent > 0
                 /\ reported'[r].percent =
                       Tenths(ghost.since[r].sent, ghost.since[r].retries)
           /\ reported'[r].failures # None =>
                 reported'[r].failures = ghost.since[r].failures]_vars
  BY FiguresStep
<1>2. QED
  BY CountersInit, CountersNext, <1>1, PTL DEF Spec, ExactWhileAssociated
================================================================================
