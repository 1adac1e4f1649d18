-------------------------- MODULE TrustOnFirstUse --------------------------
(***************************************************************************)
(* What the host keys of a config entry promise (README.md:127 and 146 of  *)
(* the repository): the key of a host is learnt once and then never        *)
(* replaced, and what has been stored is never forgotten.  Only what was   *)
(* learnt since the last time all of it was stored can be lost.            *)
(***************************************************************************)
CONSTANTS Hosts, Keys, None

VARIABLES known,   \* the keys in force
          stored   \* the keys that survive a restart

Nothing == [h \in Hosts |-> None]

Init == known = Nothing /\ stored = Nothing

\* The first connection to a host.
Learn(h, key) == /\ known[h] = None
                 /\ known' = [known EXCEPT ![h] = key]
                 /\ UNCHANGED stored

Store == stored' = known /\ UNCHANGED known

Restart == known' = stored /\ UNCHANGED stored

Next == \/ \E h \in Hosts, key \in Keys : Learn(h, key)
        \/ Store
        \/ Restart

Spec == Init /\ [][Next]_<<known, stored>>
=============================================================================
