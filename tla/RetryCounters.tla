---------------------------- MODULE RetryCounters ----------------------------
(***************************************************************************)
(* The retry percentage and failure delta of one Wi-Fi client (api.py,     *)
(* collect: _station_counters).  A radio counts what it sent to the client *)
(* from the moment the client associates, and forgets it when the client   *)
(* leaves.  The API remembers, per radio, the counters it read last, and   *)
(* reports the difference when it reads them again; it never forgets them. *)
(***************************************************************************)
EXTENDS Integers

CONSTANTS Radios,
          MaxCount, \* bound on the counters
          None

ASSUME CountersAssumption ==
    /\ MaxCount \in Nat
    /\ None \notin Int \union Radios
    /\ None \notin [sent : Int, retries : Int, failures : Int \union {None}]

Counts == 0..MaxCount
Counters == [sent : Counts, retries : Counts, failures : Counts]
Zero == [sent |-> 0, retries |-> 0, failures |-> 0]

VARIABLES at,       \* the radio the client is associated with, or None
          count,    \* that radio's counters of the client
          stored,   \* _station_counters of the client, per radio
          reported, \* what the latest poll reported of the client, per radio
          ghost     \* what really happened, for the properties only: since
                    \* (what each radio sent since its counters were stored) and
                    \* left (the radios the client left since then)

vars == <<at, count, stored, reported, ghost>>

Unreported == [percent |-> None, failures |-> None]

Init == /\ at = None
        /\ count = Zero
        /\ stored = [r \in Radios |-> None]
        /\ reported = [r \in Radios |-> Unreported]
        /\ ghost = [since  |-> [r \in Radios |-> Zero],
                    left   |-> {}]

\* The client associates with another radio, or leaves (None): external.
Roam(r) ==
    /\ r # at
    /\ at' = r
    /\ count' = Zero
    /\ ghost' = [ghost EXCEPT !.left = @ \union ({at} \ {None})]
    /\ UNCHANGED <<stored, reported>>

Plus(c, retried, failed) ==
    [sent     |-> c.sent + 1,
     retries  |-> c.retries + (IF retried THEN 1 ELSE 0),
     failures |-> c.failures + (IF failed THEN 1 ELSE 0)]

\* The radio sends one packet to the client, perhaps not at the first attempt.
Transmit(retried, failed) ==
    /\ at # None
    /\ count.sent < MaxCount
    /\ ghost.since[at].sent < 2 * MaxCount
    /\ count' = Plus(count, retried, failed)
    /\ ghost' = [ghost EXCEPT !.since[at] = Plus(@, retried, failed)]
    /\ UNCHANGED <<at, stored, reported>>

\* round(100 * retry_delta / attempts, 1), in tenths of a percent.
Tenths(packets, retries) ==
    LET attempts == packets + retries
    IN  (1000 * retries + attempts \div 2) \div attempts

\* Slip: counters that went back are not noticed.
PercentUnchecked(previous, reading) ==
    LET packets == reading.sent - previous.sent
        retries == reading.retries - previous.retries
    IN  IF packets # 0 /\ packets + retries > 0 THEN Tenths(packets, retries) ELSE None
\* Slip: the share of the packets instead of that of the attempts.
PercentOfPackets(previous, reading) ==
    LET packets == reading.sent - previous.sent
        retries == reading.retries - previous.retries
    IN  IF packets > 0 /\ retries >= 0 THEN (1000 * retries) \div packets ELSE None

Percent(previous, reading) ==
    LET packets == reading.sent - previous.sent
        retries == reading.retries - previous.retries
    IN  IF packets > 0 /\ retries >= 0 THEN Tenths(packets, retries) ELSE None

\* Slip: a counter that went back counts from zero, added to nothing lost.
FailuresAbsolute(previous, reading) ==
    IF reading.failures = None \/ previous.failures = None THEN None
    ELSE IF reading.failures >= previous.failures
         THEN reading.failures ELSE previous.failures - reading.failures

Failures(previous, reading) ==
    IF reading.failures # None /\ previous.failures # None
       /\ reading.failures >= previous.failures
    THEN reading.failures - previous.failures
    ELSE None

\* What a poll reports when it reads these counters of the client at radio r.
ReportOf(r, reading) ==
    IF stored[r] = None THEN Unreported
    ELSE [percent  |-> Percent(stored[r], reading),
          failures |-> Failures(stored[r], reading)]

(***************************************************************************)
(* A poll of the radios.  Those that answer list the client if it is       *)
(* theirs.  Its failures may be unreadable; when its packets or retries    *)
(* are, nothing is reported and nothing stored.                            *)
(***************************************************************************)
Poll(answered, readable, failuresReadable) ==
    LET reads(r) == r \in answered /\ r = at /\ readable
        reading == IF failuresReadable THEN count
                                       ELSE [count EXCEPT !.failures = None]
    IN  /\ reported' = [r \in Radios |-> IF reads(r) THEN ReportOf(r, reading)
                                                     ELSE Unreported]
        /\ stored' = [r \in Radios |-> IF reads(r) THEN reading ELSE stored[r]]
        /\ ghost' = [since  |-> [r \in Radios |-> IF reads(r) THEN Zero
                                                  ELSE ghost.since[r]],
                     left   |-> {r \in ghost.left : ~reads(r)}]
        /\ UNCHANGED <<at, count>>

Next == \/ \E r \in Radios \union {None} : Roam(r)
        \/ \E retried, failed \in BOOLEAN : Transmit(retried, failed)
        \/ \E answered \in SUBSET Radios, readable, failuresReadable \in BOOLEAN :
              Poll(answered, readable, failuresReadable)

Spec == Init /\ [][Next]_vars
-----------------------------------------------------------------------------
(* Type invariant; a percentage lies between 0.0 and 100.0 even after the  *)
(* counters restarted (api.py:257-262).                                    *)
TypeOK == /\ at \in Radios \union {None}
          /\ count \in Counters
          /\ stored \in [Radios -> {None} \union
                [sent : Counts, retries : Counts, failures : Counts \union {None}]]
          /\ reported \in [Radios -> [percent  : 0..1000 \union {None},
                                      failures : Counts \union {None}]]

Polled == \E answered \in SUBSET Radios, readable, failuresReadable \in BOOLEAN :
             Poll(answered, readable, failuresReadable)

(* A failure delta never exceeds the failures that really happened at the  *)
(* radio since it was last read, however often the client left, came back  *)
(* and restarted the counters in between (api.py:263-266).                 *)
FailuresNotOverstated ==
    [][Polled => \A r \in Radios :
          reported'[r].failures # None =>
             reported'[r].failures <= ghost.since[r].failures]_vars

(* For a client that stayed associated since it was last read, the figures *)
(* are exact, over however many polls that missed it (api.py:246-266).     *)
ExactWhileAssociated ==
    [][Polled => \A r \in Radios \ ghost.left :
          /\ reported'[r].percent # None =>
                /\ ghost.since[r].sent > 0
                /\ reported'[r].percent =
                      Tenths(ghost.since[r].sent, ghost.since[r].retries)
          /\ reported'[r].failures # None =>
                reported'[r].failures = ghost.since[r].failures]_vars
=============================================================================
