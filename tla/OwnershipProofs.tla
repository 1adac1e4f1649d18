--------------------------- MODULE OwnershipProofs ---------------------------
(***************************************************************************)
(* Proofs about Ownership for any registries, addresses and texts.         *)
(***************************************************************************)
EXTENDS Ownership, FiniteSetTheorems, WellFoundedInduction, TLAPS

\* SoleOwner names a device exactly when it is the only owned claimant.
LEMMA SoleOwnerIsSole ==
    ASSUME NEW reg, NEW claimants \in SUBSET Devices
    PROVE  LET owners == {d \in claimants : Owned(reg[d])}
           IN  \/ SoleOwner(reg, claimants) = None /\ ~ \E d \in Devices : owners = {d}
               \/ /\ SoleOwner(reg, claimants) \in Devices
                  /\ owners = {SoleOwner(reg, claimants)}
  BY DEF SoleOwner

\* An index of a registry, read at a MAC or an IP address.
LEMMA IndexReads ==
    ASSUME NEW reg
    PROVE  /\ BuildIndex(reg).byDeviceId = reg
           /\ \A m \in Macs : BuildIndex(reg).byMac[m] = SoleOwner(reg, ClaimMac(reg, m))
           /\ \A a \in Ips : BuildIndex(reg).byIp[a] = SoleOwner(reg, ClaimIp(reg, a))
  BY DEF BuildIndex

LEMMA NoMappingsTyped == NoMappings \in Mappings
  BY DEF NoMappings, Mappings

LEMMA EmptyRegistry == [d \in Devices |-> None] \in Registries
  BY DEF Registries, AllEntries

LEMMA RebuiltIndex ==
    ASSUME NEW reg \in Registries
    PROVE  /\ BuildIndex(reg).byDeviceId \in Registries
           /\ BuildIndex(reg) = BuildIndex(BuildIndex(reg).byDeviceId)
  BY IndexReads

LEMMA EmptyIndexTyped == /\ EmptyIndex.byDeviceId \in Registries
                         /\ EmptyIndex = BuildIndex(EmptyIndex.byDeviceId)
  BY EmptyRegistry, RebuiltIndex DEF EmptyIndex
-----------------------------------------------------------------------------
(* What a scheduled reload has still to do: without one, the mappings of a *)
(* coordinator, and then of the sensors, are those of the options.         *)
ReloadInv == /\ stage # "down" /\ ~reloading => overrides = options
             /\ stage = "loaded" /\ ~reloading => sensors = options

\* What the index remembers is what there is, until something changes.
IndexInv == stage # "down" /\ ~stale => Seen = registry

OwnershipInv == TypeOK /\ ReloadInv /\ IndexInv

LEMMA InitOwnership == Init => OwnershipInv
  BY NoMappingsTyped, EmptyIndexTyped
  DEF Init, OwnershipInv, TypeOK, ReloadInv, IndexInv, Seen

LEMMA StepOwnership == OwnershipInv /\ [Next]_vars => OwnershipInv'
<1> SUFFICES ASSUME OwnershipInv, [Next]_vars
             PROVE  OwnershipInv'
  OBVIOUS
<1> USE DEF OwnershipInv
<1>1. ASSUME NEW d \in Devices, ChangeDevice(d)
      PROVE  OwnershipInv'
  <2>1. registry' \in Registries
    BY <1>1 DEF ChangeDevice, TypeOK, Registries, AllEntries
  <2>2. TypeOK'
    BY <1>1, <2>1 DEF ChangeDevice, TypeOK, Seen
  <2>3. ReloadInv' /\ IndexInv'
    BY <1>1 DEF ChangeDevice, ReloadInv, IndexInv
  <2> QED
    BY <2>2, <2>3
<1>2. ASSUME NEW mappings \in Mappings, Save(mappings)
      PROVE  OwnershipInv'
  <2>1. TypeOK'
    BY <1>2 DEF Save, TypeOK, Seen
  <2>2. ReloadInv' /\ IndexInv'
    BY <1>2 DEF Save, ReloadInv, IndexInv, Seen, TypeOK
  <2> QED
    BY <2>1, <2>2
<1>3. ASSUME NEW text \in Written, NEW d \in Devices, AddMapping(text, d)
      PROVE  OwnershipInv'
  <2>1. [options EXCEPT ![MacOf(text)] = d] \in Mappings
    BY DEF TypeOK, Mappings
  <2> QED
    BY <1>2, <1>3, <2>1 DEF AddMapping
<1>4. ASSUME NEW m \in Macs, RemoveMapping(m)
      PROVE  OwnershipInv'
  <2>1. [options EXCEPT ![m] = None] \in Mappings
    BY DEF TypeOK, Mappings
  <2> QED
    BY <1>2, <1>4, <2>1 DEF RemoveMapping
<1>5. CASE BeginSetup
  <2>1. TypeOK'
    BY <1>5, RebuiltIndex DEF BeginSetup, TypeOK, Seen
  <2>2. ReloadInv' /\ IndexInv'
    BY <1>5, IndexReads DEF BeginSetup, ReloadInv, IndexInv, Seen
  <2> QED
    BY <2>1, <2>2
<1>6. CASE FinishSetup
  <2>1. TypeOK'
    BY <1>6 DEF FinishSetup, TypeOK, Seen
  <2>2. ReloadInv' /\ IndexInv'
    BY <1>6 DEF FinishSetup, ReloadInv, IndexInv, Seen
  <2> QED
    BY <2>1, <2>2
<1>7. CASE FailSetup \/ Unload
  <2>1. TypeOK'
    BY <1>7, NoMappingsTyped, EmptyIndexTyped
    DEF FailSetup, Unload, Discard, TypeOK, Seen
  <2>2. ReloadInv' /\ IndexInv'
    BY <1>7 DEF FailSetup, Unload, Discard, ReloadInv, IndexInv
  <2> QED
    BY <2>1, <2>2
<1>8. CASE Refresh
  <2>1. TypeOK'
    BY <1>8, RebuiltIndex DEF Refresh, TypeOK, Seen
  <2>2. ReloadInv' /\ IndexInv'
    BY <1>8, IndexReads DEF Refresh, ReloadInv, IndexInv, Seen
  <2> QED
    BY <2>1, <2>2
<1>9. CASE UNCHANGED vars
  BY <1>9 DEF vars, TypeOK, ReloadInv, IndexInv, Seen
<1> QED
  BY <1>1, <1>3, <1>4, <1>5, <1>6, <1>7, <1>8, <1>9 DEF Next

THEOREM OwnershipInvariant == Spec => []OwnershipInv
  BY InitOwnership, StepOwnership, PTL DEF Spec

(* Type correctness; in particular the index in use is always one that     *)
(* build_ownership_index made of one state of the registries.              *)
THEOREM OwnershipTyped == Spec => []TypeOK
<1>1. OwnershipInv => TypeOK
  BY DEF OwnershipInv
<1> QED
  BY <1>1, OwnershipInvariant, PTL
-----------------------------------------------------------------------------
\* At an address an index reads the device that owns it alone, if there is one.
LEMMA OwnersIndexed ==
    ASSUME ownership = BuildIndex(registry)
    PROVE  /\ \A m \in Macs :
                 \/ ownership.byMac[m] \in Devices /\ OwnsMacAlone(ownership.byMac[m], m)
                 \/ ownership.byMac[m] = None /\ ~ \E d \in Devices : OwnsMacAlone(d, m)
           /\ \A a \in Ips :
                 \/ ownership.byIp[a] \in Devices /\ OwnsIpAlone(ownership.byIp[a], a)
                 \/ ownership.byIp[a] = None /\ ~ \E d \in Devices : OwnsIpAlone(d, a)
<1>1. /\ \A m \in Macs : ownership.byMac[m] = SoleOwner(registry, ClaimMac(registry, m))
      /\ \A a \in Ips : ownership.byIp[a] = SoleOwner(registry, ClaimIp(registry, a))
  BY IndexReads
<1>2. ASSUME NEW m \in Macs
      PROVE  \/ ownership.byMac[m] \in Devices /\ OwnsMacAlone(ownership.byMac[m], m)
             \/ ownership.byMac[m] = None /\ ~ \E d \in Devices : OwnsMacAlone(d, m)
  <2> DEFINE owners == {d \in ClaimMac(registry, m) : Owned(registry[d])}
  <2>1. owners = {d \in Devices : OwnsMac(d, m)}
    BY DEF ClaimMac, Known, OwnsMac
  <2>2. ClaimMac(registry, m) \in SUBSET Devices
    BY DEF ClaimMac, Known
  <2>3. \/ ownership.byMac[m] = None /\ ~ \E d \in Devices : owners = {d}
        \/ ownership.byMac[m] \in Devices /\ owners = {ownership.byMac[m]}
    BY <1>1, <2>2, SoleOwnerIsSole
  <2>4. \A sole \in Devices :
           owners = {sole} <=> \A d \in Devices : OwnsMac(d, m) <=> d = sole
    BY <2>1
  <2>5. m # None
    BY OwnershipAssumption
  <2> HIDE DEF owners
  <2> QED
    BY <2>3, <2>4, <2>5 DEF OwnsMacAlone
<1>3. ASSUME NEW a \in Ips
      PROVE  \/ ownership.byIp[a] \in Devices /\ OwnsIpAlone(ownership.byIp[a], a)
             \/ ownership.byIp[a] = None /\ ~ \E d \in Devices : OwnsIpAlone(d, a)
  <2> DEFINE owners == {d \in ClaimIp(registry, a) : Owned(registry[d])}
  <2>1. owners = {d \in Devices : OwnsIp(d, a)}
    BY DEF ClaimIp, Known, OwnsIp
  <2>2. ClaimIp(registry, a) \in SUBSET Devices
    BY DEF ClaimIp, Known
  <2>3. \/ ownership.byIp[a] = None /\ ~ \E d \in Devices : owners = {d}
        \/ ownership.byIp[a] \in Devices /\ owners = {ownership.byIp[a]}
    BY <1>1, <2>2, SoleOwnerIsSole
  <2>4. \A sole \in Devices :
           owners = {sole} <=> \A d \in Devices : OwnsIp(d, a) <=> d = sole
    BY <2>1
  <2>5. a # None
    BY OwnershipAssumption
  <2> HIDE DEF owners
  <2> QED
    BY <2>3, <2>4, <2>5 DEF OwnsIpAlone
<1> QED
  BY <1>2, <1>3

\* An address is owned alone by one device.
LEMMA OneOwner ==
    ASSUME NEW d \in Devices, NEW e \in Devices
    PROVE  /\ \A mac : OwnsMacAlone(d, mac) /\ OwnsMacAlone(e, mac) => d = e
           /\ \A ip : OwnsIpAlone(d, ip) /\ OwnsIpAlone(e, ip) => d = e
  BY DEF OwnsMacAlone, OwnsIpAlone

LEMMA IndexedMatches == OwnershipInv => MatchHasOneOwner
<1> SUFFICES ASSUME OwnershipInv, stage # "down", ~stale,
                    NEW mac \in Macs \union {None}, NEW ip \in Ips \union {None},
                    ~IsMapped(mac), NEW d \in Devices
             PROVE  /\ OwnershipFor(mac, ip) = [owner |-> d, method |-> "device_registry_mac"]
                          <=> OwnsMacAlone(d, mac)
                    /\ OwnershipFor(mac, ip) = [owner |-> d, method |-> "entity_ip"]
                          <=> OwnsIpAlone(d, ip)
                              /\ ~ \E e \in Devices : OwnsMacAlone(e, mac)
  BY DEF MatchHasOneOwner
<1> DEFINE exact == IF mac = None THEN None ELSE ownership.byMac[mac]
           probable == IF ip = None THEN None ELSE ownership.byIp[ip]
<1>1. ownership = BuildIndex(registry) /\ ownership.byDeviceId = registry
  BY IndexReads DEF OwnershipInv, TypeOK, IndexInv, Seen
<1>2. None \notin Devices
  BY OwnershipAssumption
<1>3. \/ exact \in Devices /\ OwnsMacAlone(exact, mac)
      \/ exact = None /\ ~ \E e \in Devices : OwnsMacAlone(e, mac)
  BY <1>1, OwnersIndexed DEF OwnsMacAlone
<1>4. \/ probable \in Devices /\ OwnsIpAlone(probable, ip)
      \/ probable = None /\ ~ \E e \in Devices : OwnsIpAlone(e, ip)
  BY <1>1, OwnersIndexed DEF OwnsIpAlone
<1>5. OwnershipFor(mac, ip) =
         IF exact # None THEN [owner |-> exact, method |-> "device_registry_mac"]
         ELSE IF probable # None THEN [owner |-> probable, method |-> "entity_ip"]
         ELSE Unmapped
  BY <1>1 DEF OwnershipFor, Resolve, IsMapped
<1> HIDE DEF exact, probable
<1>6. /\ OwnsMacAlone(d, mac) <=> exact = d
      /\ OwnsIpAlone(d, ip) <=> probable = d
      /\ (\E e \in Devices : OwnsMacAlone(e, mac)) <=> exact # None
  BY <1>2, <1>3, <1>4, OneOwner
<1>7. CASE exact # None
  BY <1>2, <1>5, <1>6, <1>7
<1>8. CASE exact = None /\ probable # None
  BY <1>2, <1>5, <1>6, <1>8
<1>9. CASE exact = None /\ probable = None
  BY <1>2, <1>5, <1>6, <1>9 DEF Unmapped
<1> QED
  BY <1>7, <1>8, <1>9

(* After a refresh a client is matched by an address exactly when one      *)
(* device owns it, in the registry as it is and for any registry.          *)
THEOREM MatchAlwaysHasOneOwner == Spec => []MatchHasOneOwner
  BY IndexedMatches, OwnershipInvariant, PTL

LEMMA ConfirmedMatches == OwnershipInv => ConfirmationsInForce
<1> SUFFICES ASSUME OwnershipInv, stage = "loaded", ~reloading
             PROVE  /\ overrides = options
                    /\ sensors = options
                    /\ \A m \in Macs, ip \in Ips \union {None} :
                          options[m] # None /\ Seen[options[m]] # None =>
                             OwnershipFor(m, ip) = [owner |-> options[m],
                                                    method |-> "manual_mac"]
  BY DEF ConfirmationsInForce
<1>1. overrides = options /\ sensors = options
  BY DEF OwnershipInv, ReloadInv
<1>2. None \notin Macs
  BY OwnershipAssumption
<1>3. ASSUME NEW m \in Macs, NEW ip \in Ips \union {None},
             options[m] # None, Seen[options[m]] # None
      PROVE  OwnershipFor(m, ip) = [owner |-> options[m], method |-> "manual_mac"]
  BY <1>1, <1>2, <1>3 DEF OwnershipFor, Resolve, Seen
<1> QED
  BY <1>1, <1>3

(* When no reload is outstanding, every confirmation of the user is in     *)
(* force in the coordinator and has its sensor.                            *)
THEOREM ConfirmationsAlwaysInForce == Spec => []ConfirmationsInForce
  BY ConfirmedMatches, OwnershipInvariant, PTL
-----------------------------------------------------------------------------
(* Suggestions: ranks in finite sets.                                      *)

\* A strict order of a finite set has a first element: the one that the
\* fewest are ahead of.
LEMMA FirstOfFinite ==
    ASSUME NEW S, IsFiniteSet(S), S # {}, NEW R,
           \A x \in S : <<x, x>> \notin R,
           \A x, y, z \in S : <<x, y>> \in R /\ <<y, z>> \in R => <<x, z>> \in R
    PROVE  \E m \in S : \A x \in S : <<x, m>> \notin R
<1> DEFINE Front(y) == {x \in S : <<x, y>> \in R}
           Ranks == {Cardinality(Front(y)) : y \in S}
           Below == OpToRel(<, Nat)
<1>1. \A y \in S : IsFiniteSet(Front(y)) /\ Cardinality(Front(y)) \in Nat
  BY FS_Subset, FS_CardinalityType
<1> HIDE DEF Front
<1>2. Ranks \subseteq Nat /\ Ranks # {}
  BY <1>1
<1>3. PICK least \in Ranks : \A r \in Ranks : ~ (r < least)
  <2>1. IsWellFoundedOn(Below, Nat)
    BY NatLessThanWellFounded
  <2> HIDE DEF Below, Ranks
  <2>2. PICK least \in Ranks : \A r \in Ranks : ~ (<<r, least>> \in Below)
    BY <1>2, <2>1, WFMin
  <2>3. \A r \in Ranks : ~ (r < least)
    BY <1>2, <2>2 DEF Below, OpToRel
  <2>4. QED
    BY <2>3
<1>4. PICK m \in S : least = Cardinality(Front(m))
  BY <1>3
<1>5. ASSUME NEW x \in S, <<x, m>> \in R
      PROVE  FALSE
  <2>1. Front(x) \subseteq Front(m) \ {x} /\ x \in Front(m)
    BY <1>5 DEF Front
  <2>2. /\ IsFiniteSet(Front(m) \ {x})
        /\ Cardinality(Front(m) \ {x}) = Cardinality(Front(m)) - 1
    BY <1>1, <2>1, FS_RemoveElement
  <2>3. Cardinality(Front(x)) <= Cardinality(Front(m)) - 1
    BY <2>1, <2>2, FS_Subset
  <2>4. Cardinality(Front(x)) \in Ranks
    OBVIOUS
  <2> HIDE DEF Ranks
  <2>5. QED
    BY <1>1, <1>3, <1>4, <2>3, <2>4
<1>6. QED
  BY <1>5

\* The first k places of a finite set in a strict total order.
LEMMA FirstFew ==
    ASSUME NEW S, IsFiniteSet(S), NEW R, NEW k \in Nat,
           \A x \in S : <<x, x>> \notin R,
           \A x, y, z \in S : <<x, y>> \in R /\ <<y, z>> \in R => <<x, z>> \in R,
           \A x, y \in S : x = y \/ <<x, y>> \in R \/ <<y, x>> \in R
    PROVE  LET few == {x \in S : Cardinality({y \in S : <<y, x>> \in R}) < k}
           IN  IsFiniteSet(few) /\ Cardinality(few) <= k
<1> DEFINE Front(x) == {y \in S : <<y, x>> \in R}
           few == {x \in S : Cardinality(Front(x)) < k}
           Reverse == {p \in S \X S : <<p[2], p[1]>> \in R}
<1>1. IsFiniteSet(few) /\ Cardinality(few) \in Nat
  BY FS_Subset, FS_CardinalityType
<1>2. ASSUME few = {}
      PROVE  Cardinality(few) <= k
  <2> HIDE DEF few
  <2>1. QED
    BY <1>2, FS_EmptySet
<1>3. ASSUME few # {}
      PROVE  Cardinality(few) <= k
  <2>1. PICK last \in few : \A x \in few : <<x, last>> \notin Reverse
    <3>1. /\ \A x \in few : <<x, x>> \notin Reverse
          /\ \A x, y, z \in few : <<x, y>> \in Reverse /\ <<y, z>> \in Reverse
                                     => <<x, z>> \in Reverse
      OBVIOUS
    <3> HIDE DEF few, Reverse
    <3>2. QED
      BY <1>1, <1>3, <3>1, FirstOfFinite
  <2>2. few \ {last} \subseteq Front(last)
    BY <2>1
  <2>3. IsFiniteSet(Front(last)) /\ Cardinality(Front(last)) \in Nat
    BY FS_Subset, FS_CardinalityType
  <2>4. Cardinality(Front(last)) < k
    BY <2>1
  <2> HIDE DEF few, Front
  <2>5. Cardinality(few \ {last}) = Cardinality(few) - 1
    BY <1>1, <2>1, FS_RemoveElement
  <2>6. Cardinality(few \ {last}) <= Cardinality(Front(last))
    BY <2>2, <2>3, FS_Subset
  <2>7. QED
    BY <1>1, <2>3, <2>4, <2>5, <2>6
<1>4. QED
  BY <1>1, <1>2, <1>3
-----------------------------------------------------------------------------
(* Suggestions: what is scored, and in which order.                        *)

LEMMA NamesAreTexts ==
    ASSUME NEW reg \in Registries, NEW d \in Known(reg)
    PROVE  /\ d \in Devices
           /\ reg[d].name \in Texts
           /\ reg[d].model \in Texts
<1>1. d \in Devices /\ reg[d] \in AllEntries
  BY DEF Known, Registries, AllEntries
<1>2. QED
  BY <1>1 DEF Texts

LEMMA ScoreIsPercent ==
    ASSUME NEW client, NEW area, NEW device
    PROVE  Score(client, area, device) \in 0..100
<1>1. NameScore(client, device) \in 0..100
  BY DEF NameScore
<1>2. ModelScore(client, device) \in 0..100
  BY DEF ModelScore
<1>3. QED
  BY <1>1, <1>2 DEF Score, Greater

\* Without evidence in name or model, maker and area do not reach 65.
LEMMA EnoughIsEvidence ==
    ASSUME NEW client, NEW area, NEW device, Score(client, area, device) >= 65
    PROVE  NameScore(client, device) # 0 \/ ModelScore(client, device) # 0
  BY DEF Score, Greater

LEMMA ScoredTyped ==
    ASSUME NEW reg \in Registries, NEW client, NEW area,
           NEW a \in Scored(reg, client, area)
    PROVE  /\ a.device \in Known(reg)
           /\ a.score \in 0..100
           /\ a.place \in Nat
  BY ScoreIsPercent, OwnershipAssumption
  DEF Scored, RootFor, RootsFor, OwnedIn, Known, Devices

\* A device is scored once, and the places tell the devices apart.
LEMMA ScoredApart ==
    ASSUME NEW reg \in Registries, NEW client, NEW area,
           NEW a \in Scored(reg, client, area), NEW b \in Scored(reg, client, area),
           a.device = b.device \/ a.place = b.place
    PROVE  a = b
<1> DEFINE root == RootFor(reg, client)
<1>1. \A d, e \in root : d = e
  BY DEF RootFor
<1>2. \A d \in OwnedIn(reg) : d \in 1..N
  BY DEF OwnedIn, Known, Devices
<1>3. root \subseteq OwnedIn(reg)
  BY DEF RootFor, RootsFor
<1>4. QED
  BY <1>1, <1>2, <1>3, OwnershipAssumption DEF Scored

LEMMA ScoredFinite ==
    ASSUME NEW reg \in Registries, NEW client, NEW area
    PROVE  IsFiniteSet(Scored(reg, client, area))
<1> DEFINE all == Scored(reg, client, area)
           DeviceOf == [a \in all |-> a.device]
<1>1. DeviceOf \in Injection(all, Devices)
  BY ScoredTyped, ScoredApart, NamesAreTexts
  DEF Injection, IsInjective
<1>2. IsFiniteSet(Devices)
  BY OwnershipAssumption, FS_Interval DEF Devices
<1>3. QED
  BY <1>1, <1>2, FS_Injection

\* Sorting by score, name and place is a strict total order.
LEMMA AheadIsOrder ==
    ASSUME NEW reg \in Registries, NEW client, NEW area,
           NEW a \in Scored(reg, client, area),
           NEW b \in Scored(reg, client, area),
           NEW c \in Scored(reg, client, area)
    PROVE  /\ ~Ahead(reg, a, a)
           /\ Ahead(reg, a, b) /\ Ahead(reg, b, c) => Ahead(reg, a, c)
           /\ a = b \/ Ahead(reg, a, b) \/ Ahead(reg, b, a)
<1> DEFINE nameA == reg[a.device].name
           nameB == reg[b.device].name
           nameC == reg[c.device].name
<1>1. nameA \in Texts /\ nameB \in Texts /\ nameC \in Texts
  BY ScoredTyped, NamesAreTexts
<1>2. /\ a.score \in Nat /\ b.score \in Nat /\ c.score \in Nat
      /\ a.place \in Nat /\ b.place \in Nat /\ c.place \in Nat
  BY ScoredTyped
<1>3. a.place = b.place => a = b
  BY ScoredApart
<1>4. /\ \A x, y \in {nameA, nameB, nameC} : Before(x, y) => ~Before(y, x)
      /\ \A x, y, z \in {nameA, nameB, nameC} :
            Before(x, z) => Before(x, y) \/ Before(y, z)
  BY <1>1, TextsAssumption
<1>5. QED
  BY <1>2, <1>3, <1>4 DEF Ahead

\* The order of the candidates as a set of pairs.
Sorting(reg, client, area) ==
    {p \in Candidates(reg, client, area) \X Candidates(reg, client, area) :
        Ahead(reg, p[1], p[2])}

LEMMA SortingIsOrder ==
    ASSUME NEW reg \in Registries, NEW client, NEW area
    PROVE  LET ranked == Candidates(reg, client, area)
               R == Sorting(reg, client, area)
           IN  /\ ranked \subseteq Scored(reg, client, area)
               /\ IsFiniteSet(ranked)
               /\ \A x, y \in ranked : <<x, y>> \in R <=> Ahead(reg, x, y)
               /\ \A x \in ranked : <<x, x>> \notin R
               /\ \A x, y, z \in ranked :
                     <<x, y>> \in R /\ <<y, z>> \in R => <<x, z>> \in R
               /\ \A x, y \in ranked : x = y \/ <<x, y>> \in R \/ <<y, x>> \in R
<1> DEFINE ranked == Candidates(reg, client, area)
<1>1. ranked \subseteq Scored(reg, client, area)
  BY DEF Candidates
<1>2. IsFiniteSet(ranked)
  BY <1>1, ScoredFinite, FS_Subset
<1>3. \A x, y, z \in ranked :
         /\ ~Ahead(reg, x, x)
         /\ Ahead(reg, x, y) /\ Ahead(reg, y, z) => Ahead(reg, x, z)
         /\ x = y \/ Ahead(reg, x, y) \/ Ahead(reg, y, x)
  BY <1>1, AheadIsOrder
<1>4. \A x, y \in ranked : <<x, y>> \in Sorting(reg, client, area) <=> Ahead(reg, x, y)
  BY DEF Sorting
<1>5. QED
  BY <1>1, <1>2, <1>3, <1>4

LEMMA FewSuggestions ==
    ASSUME NEW reg \in Registries, NEW client, NEW area
    PROVE  Cardinality(Suggest(reg, client, area)) <= MaxSuggestions
<1> DEFINE ranked == Candidates(reg, client, area)
           R == Sorting(reg, client, area)
           few == {a \in ranked : Cardinality({b \in ranked : <<b, a>> \in R})
                                     < MaxSuggestions}
<1>1. MaxSuggestions \in Nat
  BY OwnershipAssumption
<1>2. Cardinality(few) <= MaxSuggestions
  <2>1. /\ IsFiniteSet(ranked)
        /\ \A x \in ranked : <<x, x>> \notin R
        /\ \A x, y, z \in ranked :
              <<x, y>> \in R /\ <<y, z>> \in R => <<x, z>> \in R
        /\ \A x, y \in ranked : x = y \/ <<x, y>> \in R \/ <<y, x>> \in R
    BY SortingIsOrder
  <2> HIDE DEF ranked, R
  <2>2. QED
    BY <1>1, <2>1, FirstFew
<1>3. \A a \in ranked : {b \in ranked : <<b, a>> \in R}
                           = {b \in ranked : Ahead(reg, b, a)}
  BY SortingIsOrder
<1>4. ~Nameless(client) => Suggest(reg, client, area) = few
  <2> HIDE DEF R
  <2>1. QED
    BY <1>3 DEF Suggest
<1>5. Nameless(client) => Suggest(reg, client, area) = {}
  BY DEF Suggest
<1> HIDE DEF few
<1>6. QED
  BY <1>1, <1>2, <1>4, <1>5, FS_EmptySet

LEMMA EvidenceOfSuggested ==
    ASSUME NEW reg \in Registries, NEW client \in ClientNames, NEW area,
           NEW s \in Suggest(reg, client, area)
    PROVE  \/ \E text \in {reg[s.device].name, reg[s.device].model} :
                 Size(text) >= 4 /\ Overlap(client, text)
           \/ RootsFor(reg, client) = {s.device}
<1> DEFINE device == reg[s.device]
<1>1. ~Nameless(client) /\ s \in Scored(reg, client, area)
  BY DEF Suggest, Candidates
<1>2. client \in Texts /\ Size(client) \in Nat /\ Size(client) >= 4
  BY <1>1, TextsAssumption DEF Nameless, Texts
<1>3. /\ device.name \in Texts
      /\ Size(device.name) \in Nat
      /\ Within(client, device.name) => Size(client) <= Size(device.name)
  BY <1>1, <1>2, ScoredTyped, NamesAreTexts, TextsAssumption
<1>4. CASE s.device \in RootFor(reg, client)
  BY <1>4 DEF RootFor
<1>5. CASE Score(client, area, device) >= 65
  <2>1. CASE NameScore(client, device) # 0
    BY <1>2, <1>3, <2>1 DEF NameScore, SameText, Overlap
  <2>2. CASE ModelScore(client, device) # 0
    BY <2>2 DEF ModelScore
  <2>3. QED
    BY <1>5, <2>1, <2>2, EnoughIsEvidence
<1>6. s.device \in RootFor(reg, client) \/ Score(client, area, device) >= 65
  BY <1>1 DEF Scored
<1>7. QED
  BY <1>4, <1>5, <1>6

(* However many devices resemble a client, few are suggested, and none for  *)
(* its maker and area alone (ownership.py:126-221).                         *)
THEOREM SuggestionsAlwaysHaveEvidence == Spec => []SuggestionsHaveEvidence
<1>1. OwnershipInv => SuggestionsHaveEvidence
  <2> SUFFICES ASSUME OwnershipInv
               PROVE  SuggestionsHaveEvidence
    OBVIOUS
  <2>1. Seen \in Registries
    BY DEF OwnershipInv, TypeOK
  <2> HIDE DEF Seen
  <2>2. QED
    BY <2>1, FewSuggestions, EvidenceOfSuggested DEF SuggestionsHaveEvidence
<1>2. QED
  BY OwnershipInvariant, <1>1, PTL
-----------------------------------------------------------------------------
(* Suggestions: the best one.                                              *)

\* Of the devices that score best, one with the longest name is outdone by
\* none.
LEMMA BestIsCandidate ==
    ASSUME NEW reg \in Registries, NEW client, NEW area,
           Scored(reg, client, area) # {}
    PROVE  \E best \in Candidates(reg, client, area) :
              \A other \in Scored(reg, client, area) : other.score <= best.score
<1> DEFINE all == Scored(reg, client, area)
           Long(x) == Size(reg[x.device].name)
           Better == {p \in all \X all :
                        \/ p[1].score > p[2].score
                        \/ p[1].score = p[2].score /\ Long(p[1]) > Long(p[2])}
<1>1. \A x \in all : x.score \in Nat /\ Long(x) \in Nat
  BY ScoredTyped, NamesAreTexts, TextsAssumption
<1> HIDE DEF Long
<1>2. \A x, y \in all : <<x, y>> \in Better <=>
         x.score > y.score \/ (x.score = y.score /\ Long(x) > Long(y))
  OBVIOUS
<1>3. PICK best \in all : \A x \in all : <<x, best>> \notin Better
  <2>1. IsFiniteSet(all) /\ all # {}
    BY ScoredFinite
  <2> HIDE DEF all, Better
  <2>2. \A x \in all : <<x, x>> \notin Better
    BY <1>1, <1>2
  <2>3. \A x, y, z \in all : <<x, y>> \in Better /\ <<y, z>> \in Better
                                => <<x, z>> \in Better
    BY <1>1, <1>2
  <2>4. QED
    BY <2>1, <2>2, <2>3, FirstOfFinite
<1>4. \A x \in all : /\ x.score <= best.score
                     /\ x.score >= best.score => Long(x) <= Long(best)
  <2> HIDE DEF all, Better
  <2>1. TAKE x \in all
  <2>2. ~ (x.score > best.score)
    BY <1>2, <1>3
  <2>3. ~ (x.score = best.score /\ Long(x) > Long(best))
    BY <1>2, <1>3
  <2>4. /\ x.score \in Nat /\ best.score \in Nat
        /\ Long(x) \in Nat /\ Long(best) \in Nat
    BY <1>1, <1>3
  <2>5. QED
    BY <2>2, <2>3, <2>4
<1>5. \A x \in all : ~Outdone(reg, best, x)
  BY <1>1, <1>4 DEF Outdone, Long
<1>6. best \in Candidates(reg, client, area)
  BY <1>5 DEF Candidates
<1>7. QED
  BY <1>4, <1>6

LEMMA BestSuggested ==
    ASSUME NEW reg \in Registries, NEW client, NEW area,
           ~Nameless(client), Scored(reg, client, area) # {}
    PROVE  \E s \in Suggest(reg, client, area) :
              \A other \in Scored(reg, client, area) : other.score <= s.score
<1> DEFINE ranked == Candidates(reg, client, area)
           R == Sorting(reg, client, area)
<1>1. PICK best \in ranked :
         \A other \in Scored(reg, client, area) : other.score <= best.score
  BY BestIsCandidate
<1>2. /\ ranked \subseteq Scored(reg, client, area)
      /\ IsFiniteSet(ranked)
      /\ \A x, y \in ranked : <<x, y>> \in R <=> Ahead(reg, x, y)
      /\ \A x \in ranked : <<x, x>> \notin R
      /\ \A x, y, z \in ranked : <<x, y>> \in R /\ <<y, z>> \in R => <<x, z>> \in R
  BY SortingIsOrder
<1>3. PICK first \in ranked : \A x \in ranked : <<x, first>> \notin R
  <2> HIDE DEF ranked, R
  <2>1. QED
    BY <1>1, <1>2, FirstOfFinite
<1>4. \A x \in ranked : ~Ahead(reg, x, first)
  <2> HIDE DEF ranked, R
  <2>1. QED
    BY <1>2, <1>3
<1>5. first.score >= best.score
  <2>1. first.score \in Nat /\ best.score \in Nat
    BY <1>1, <1>2, <1>3, ScoredTyped
  <2>2. ~ (best.score > first.score)
    BY <1>1, <1>4 DEF Ahead
  <2>3. QED
    BY <2>1, <2>2
<1>6. first \in Suggest(reg, client, area)
  <2>1. {x \in ranked : Ahead(reg, x, first)} = {}
    BY <1>4
  <2>2. Cardinality({x \in ranked : Ahead(reg, x, first)}) < MaxSuggestions
    BY <2>1, OwnershipAssumption, FS_EmptySet
  <2>3. QED
    BY <1>3, <2>2 DEF Suggest
<1>7. \A other \in Scored(reg, client, area) : other.score <= first.score
  BY <1>1, <1>2, <1>3, <1>5, ScoredTyped
<1>8. QED
  BY <1>6, <1>7

(* Neither the preference for specific names nor the limit ever loses the   *)
(* devices that score best (ownership.py:204-221).                          *)
THEOREM BestAlwaysSuggested == Spec => []BestIsSuggested
<1>1. OwnershipInv => BestIsSuggested
  <2> SUFFICES ASSUME OwnershipInv
               PROVE  BestIsSuggested
    OBVIOUS
  <2>1. Seen \in Registries
    BY DEF OwnershipInv, TypeOK
  <2> HIDE DEF Seen
  <2>2. QED
    BY <2>1, BestSuggested DEF BestIsSuggested
<1>2. QED
  BY OwnershipInvariant, <1>1, PTL
=============================================================================
