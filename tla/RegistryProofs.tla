--------------------------- MODULE RegistryProofs ---------------------------
(* Why the registry stays consistent, for any number of physical domains,  *)
(* CPUs, logical domains and streams.                                      *)
EXTENDS Registry, FiniteSetTheorems, TLAPS

\* The source domain has no CPU, and nothing is infinite.
SourceEmpty ==
  HSTR_SRC_LOG_DOMAIN \in DOMAIN log_domains => log_domains[HSTR_SRC_LOG_DOMAIN].mask = {}
Finite == IsFiniteSet(DOMAIN log_streams) /\ IsFiniteSet(DOMAIN phys_streams)

IInv ==
  /\ TypeOK
  /\ CollectionsAgree
  /\ SourceEmpty
  /\ Finite
  /\ MasksEqualOrDisjoint
  /\ SharingIsExact
  /\ RefCountsMatch
  /\ OversubscriptionMatches

-----------------------------------------------------------------------------
(* Functions with changing domains.                                        *)

\* A function extended by one argument.
LEMMA ExtendFacts ==
  ASSUME NEW f, NEW x, NEW v
  PROVE /\ DOMAIN Extend(f, x, v) = DOMAIN f \cup {x}
        /\ Extend(f, x, v)[x] = v
        /\ \A y \in DOMAIN f \ {x} : Extend(f, x, v)[y] = f[y]
BY DEF Extend

\* A function without some of its arguments.
LEMMA WithoutFacts ==
  ASSUME NEW f, NEW S
  PROVE /\ DOMAIN Without(f, S) = DOMAIN f \ S
        /\ \A y \in DOMAIN f \ S : Without(f, S)[y] = f[y]
BY DEF Without, Restrict

-----------------------------------------------------------------------------
(* Initially.                                                              *)

\* A fresh registry satisfies the invariant.
LEMMA FreshRegistry ==
  Init => IInv
<1> SUFFICES ASSUME Init PROVE IInv
  OBVIOUS
<1> USE DEF Init, SourceDomain, SourceList, NoLists, NoCounts, Empty, HSTR_SRC_LOG_DOMAIN
<1>1. TypeOK
  <2>1. DOMAIN log_domains \subseteq 0..(next_log_dom_id - 1)
    OBVIOUS
  <2>2. log_domains \in [DOMAIN log_domains -> [phys : PhysDomains, mask : SUBSET CPUs]]
    BY PhysDomainsAssumption
  <2> QED BY <2>1, <2>2, MaxLogDomIDAssumption DEF TypeOK
<1>2. CollectionsAgree BY DEF CollectionsAgree, StreamsFit
<1>3. SourceEmpty BY DEF SourceEmpty
<1>4. Finite BY FS_EmptySet DEF Finite
<1>5. MasksEqualOrDisjoint BY DEF MasksEqualOrDisjoint
<1>6. SharingIsExact BY DEF SharingIsExact
<1>7. RefCountsMatch BY DEF RefCountsMatch
<1>8. OversubscriptionMatches
  <2> SUFFICES ASSUME NEW p \in PhysDomains, NEW c \in CPUs
      PROVE oversubscription_array_[p][c] = Cardinality(UsersOf(p, c))
    BY DEF OversubscriptionMatches
  <2>1. UsersOf(p, c) = {} BY DEF UsersOf
  <2> QED BY <2>1, FS_EmptySet
<1> QED BY <1>1, <1>2, <1>3, <1>4, <1>5, <1>6, <1>7, <1>8 DEF IInv

-----------------------------------------------------------------------------
(* Deleting logical streams.                                               *)

\* The invariants that speak of streams survive when the logical streams in S
\* are deleted, provided that the domains of the others stay.
LEMMA StreamsDeleted ==
  ASSUME IInv, NEW S \in SUBSET DOMAIN log_streams, detach(S),
         log_streams' = Without(log_streams, S),
         spoiled' = spoiled,
         \A s \in DOMAIN log_streams \ S :
           /\ log_streams[s].dom \in DOMAIN log_domains'
           /\ log_domains'[log_streams[s].dom] = log_domains[log_streams[s].dom]
  PROVE /\ Finite'
        /\ SharingIsExact'
        /\ RefCountsMatch'
        /\ OversubscriptionMatches'
        /\ DOMAIN phys_streams' \subseteq PhysStreams
        /\ phys_streams' \in [DOMAIN phys_streams' ->
             [dom : LogDomIDs, mask : SUBSET CPUs, refcount : Int]]
        /\ oversubscription_array_' \in [PhysDomains -> [CPUs -> Int]]
        /\ \A s \in DOMAIN log_streams \ S :
             LET ps == log_streams[s].phys_stream IN
             /\ ps \in DOMAIN phys_streams'
             /\ phys_streams'[ps].dom = phys_streams[ps].dom
             /\ phys_streams'[ps].mask = phys_streams[ps].mask
<1> USE DEF IInv
<1>1. /\ DOMAIN log_streams' = DOMAIN log_streams \ S
      /\ \A s \in DOMAIN log_streams \ S : log_streams'[s] = log_streams[s]
  BY DEF Without, Restrict
<1>2. /\ DOMAIN phys_streams' = DOMAIN phys_streams \ Unreferenced(S)
      /\ \A ps \in DOMAIN phys_streams' :
           phys_streams'[ps] = [phys_streams[ps] EXCEPT !.refcount = RefsAfter(ps, S)]
  BY DEF detach
<1>3. \A ps \in DOMAIN phys_streams : Holders(ps)' = Holders(ps) \ S
  BY <1>1 DEF Holders
<1>4. ASSUME NEW ps \in DOMAIN phys_streams
      PROVE /\ RefsAfter(ps, S) = Cardinality(Holders(ps) \ S)
            /\ RefsAfter(ps, S) \in Nat
            /\ RefsAfter(ps, S) = 0 <=> Holders(ps) \ S = {}
  <2>1. IsFiniteSet(Holders(ps))
    BY FS_Subset DEF Finite, Holders
  <2>2. {s \in S : log_streams[s].phys_stream = ps} = Holders(ps) \cap S
    BY DEF Holders
  <2>3. /\ Cardinality(Holders(ps) \ S) = Cardinality(Holders(ps)) - Cardinality(Holders(ps) \cap S)
        /\ IsFiniteSet(Holders(ps) \ S)
    BY <2>1, FS_Difference
  <2>4. Cardinality(Holders(ps) \ S) \in Nat
    BY <2>3, FS_CardinalityType
  <2>5. Cardinality(Holders(ps) \ S) = 0 <=> Holders(ps) \ S = {}
    BY <2>3, FS_EmptySet
  <2> QED BY <2>2, <2>3, <2>4, <2>5 DEF RefsAfter, RefCountsMatch
<1>5. \A ps \in DOMAIN phys_streams : ps \in Unreferenced(S) <=> Holders(ps) \ S = {}
  BY <1>4 DEF Unreferenced
<1>6. \A s \in DOMAIN log_streams \ S :
        LET ps == log_streams[s].phys_stream IN
        /\ ps \in DOMAIN phys_streams'
        /\ phys_streams'[ps].dom = phys_streams[ps].dom
        /\ phys_streams'[ps].mask = phys_streams[ps].mask
  <2> SUFFICES ASSUME NEW s \in DOMAIN log_streams \ S
      PROVE LET ps == log_streams[s].phys_stream IN
            /\ ps \in DOMAIN phys_streams'
            /\ phys_streams'[ps].dom = phys_streams[ps].dom
            /\ phys_streams'[ps].mask = phys_streams[ps].mask
    OBVIOUS
  <2> DEFINE ps == log_streams[s].phys_stream
  <2>1. ps \in DOMAIN phys_streams /\ s \in Holders(ps) \ S
    BY DEF CollectionsAgree, StreamsFit, Holders
  <2>2. ps \in DOMAIN phys_streams'
    BY <1>2, <1>5, <2>1
  <2>3. phys_streams[ps] \in [dom : LogDomIDs, mask : SUBSET CPUs, refcount : Int]
    BY <2>1 DEF TypeOK
  <2> QED BY <1>2, <2>2, <2>3
<1>7. RefCountsMatch'
  <2> SUFFICES ASSUME NEW ps \in DOMAIN phys_streams'
      PROVE Holders(ps)' # {} /\ phys_streams'[ps].refcount = Cardinality(Holders(ps)')
    BY DEF RefCountsMatch
  <2>1. ps \in DOMAIN phys_streams /\ Holders(ps) \ S # {}
    BY <1>2, <1>5
  <2>2. phys_streams[ps] \in [dom : LogDomIDs, mask : SUBSET CPUs, refcount : Int]
    BY <2>1 DEF TypeOK
  <2>3. phys_streams'[ps].refcount = RefsAfter(ps, S)
    BY <1>2, <2>2
  <2> QED BY <1>3, <1>4, <2>1, <2>3
<1>8. Finite'
  <2>1. IsFiniteSet(DOMAIN log_streams \ S) /\ IsFiniteSet(DOMAIN phys_streams \ Unreferenced(S))
    BY FS_Subset DEF Finite
  <2> QED BY <1>1, <1>2, <2>1 DEF Finite
<1>9. SharingIsExact'
  BY <1>1 DEF SharingIsExact
<1>10. OversubscriptionMatches' /\ oversubscription_array_' \in [PhysDomains -> [CPUs -> Int]]
  <2>1. ASSUME NEW p \in PhysDomains, NEW c \in CPUs
        PROVE /\ UsersOf(p, c)' = UsersOf(p, c) \ Unreferenced(S)
              /\ Cardinality(UsersOf(p, c) \ Unreferenced(S))
                   = Cardinality(UsersOf(p, c)) - Cardinality(UsersOf(p, c) \cap Unreferenced(S))
              /\ Cardinality(UsersOf(p, c) \cap Unreferenced(S)) \in Nat
    <3>1. ASSUME NEW ps \in DOMAIN phys_streams'
          PROVE /\ phys_streams'[ps].mask = phys_streams[ps].mask
                /\ PhysDomainOf(ps)' = PhysDomainOf(ps)
      <4>1. PICK s \in Holders(ps) : s \notin S
        BY <1>2, <1>5
      <4>2. s \in DOMAIN log_streams \ S /\ log_streams[s].phys_stream = ps
        BY <4>1 DEF Holders
      <4>3. /\ phys_streams'[ps].dom = phys_streams[ps].dom
            /\ phys_streams'[ps].mask = phys_streams[ps].mask
        BY <1>6, <4>2
      <4>4. phys_streams[ps].dom = log_streams[s].dom
        BY <4>2 DEF CollectionsAgree, StreamsFit
      <4> QED BY <4>2, <4>3, <4>4 DEF PhysDomainOf
    <3>2. UsersOf(p, c)' = UsersOf(p, c) \ Unreferenced(S)
      BY <1>2, <3>1 DEF UsersOf
    <3>3. IsFiniteSet(UsersOf(p, c))
      BY FS_Subset DEF Finite, UsersOf
    <3>4. Cardinality(UsersOf(p, c) \ Unreferenced(S))
            = Cardinality(UsersOf(p, c)) - Cardinality(UsersOf(p, c) \cap Unreferenced(S))
      BY <3>3, FS_Difference
    <3>5. IsFiniteSet(UsersOf(p, c) \cap Unreferenced(S))
      BY <3>3, FS_Subset
    <3> QED BY <3>2, <3>4, <3>5, FS_CardinalityType
  <2>2. \A p \in PhysDomains, c \in CPUs : oversubscription_array_'[p][c]
          = oversubscription_array_[p][c] - Cardinality(UsersOf(p, c) \cap Unreferenced(S))
    BY DEF detach
  <2>3. OversubscriptionMatches'
    <3> SUFFICES ASSUME NEW p \in PhysDomains, NEW c \in CPUs, <<p, c>> \notin spoiled'
        PROVE oversubscription_array_'[p][c] = Cardinality(UsersOf(p, c)')
      BY DEF OversubscriptionMatches
    <3>1. oversubscription_array_[p][c] = Cardinality(UsersOf(p, c))
      BY DEF OversubscriptionMatches
    <3>2. oversubscription_array_'[p][c]
            = oversubscription_array_[p][c] - Cardinality(UsersOf(p, c) \cap Unreferenced(S))
      BY <2>2
    <3>3. Cardinality(UsersOf(p, c)')
            = Cardinality(UsersOf(p, c)) - Cardinality(UsersOf(p, c) \cap Unreferenced(S))
      BY <2>1, Zenon
    <3> QED BY <3>1, <3>2, <3>3
  <2>4. oversubscription_array_' \in [PhysDomains -> [CPUs -> Int]]
    <3>1. ASSUME NEW p \in PhysDomains, NEW c \in CPUs
          PROVE oversubscription_array_[p][c] - Cardinality(UsersOf(p, c) \cap Unreferenced(S)) \in Int
      <4>1. oversubscription_array_[p] \in [CPUs -> Int]
        BY DEF TypeOK
      <4>2. oversubscription_array_[p][c] \in Int
        BY <4>1
      <4>3. Cardinality(UsersOf(p, c) \cap Unreferenced(S)) \in Nat
        BY <2>1, Zenon
      <4> QED BY <4>2, <4>3
    <3> QED BY <3>1 DEF detach
  <2> QED BY <2>3, <2>4
<1>11. phys_streams' \in [DOMAIN phys_streams' ->
         [dom : LogDomIDs, mask : SUBSET CPUs, refcount : Int]]
  <2>1. ASSUME NEW ps \in DOMAIN phys_streams \ Unreferenced(S)
        PROVE [phys_streams[ps] EXCEPT !.refcount = RefsAfter(ps, S)]
                \in [dom : LogDomIDs, mask : SUBSET CPUs, refcount : Int]
    <3>1. phys_streams[ps] \in [dom : LogDomIDs, mask : SUBSET CPUs, refcount : Int]
      BY DEF TypeOK
    <3>2. RefsAfter(ps, S) \in Nat
      BY <1>4, Zenon
    <3> QED BY <3>1, <3>2
  <2> QED BY <1>2, <2>1 DEF detach
<1>12. DOMAIN phys_streams' \subseteq PhysStreams
  BY <1>2 DEF TypeOK
<1> QED BY <1>6, <1>7, <1>8, <1>9, <1>10, <1>11, <1>12

-----------------------------------------------------------------------------
(* The actions.                                                            *)

\* The domain of a physical stream exists, because it is that of its holders.
LEMMA HeldPhysStream ==
  ASSUME IInv, NEW ps \in DOMAIN phys_streams
  PROVE phys_streams[ps].dom \in DOMAIN log_domains
<1>1. PICK s : s \in Holders(ps)
  BY DEF IInv, RefCountsMatch
<1>2. s \in DOMAIN log_streams /\ log_streams[s].phys_stream = ps
  BY <1>1 DEF Holders
<1> QED BY <1>2 DEF IInv, CollectionsAgree, StreamsFit

\* A new domain meets another of its physical domain only with an equal mask.
LEMMA NewMaskFits ==
  ASSUME IInv, NEW p \in PhysDomains, NEW mask \in SUBSET CPUs,
         \E overlap \in lookupLogDomainByCPUMask(p, mask) : overlap # "PARTIAL",
         NEW d \in DOMAIN log_domains, log_domains[d].phys = p
  PROVE log_domains[d].mask = mask \/ log_domains[d].mask \cap mask = {}
<1> USE DEF IInv
<1> DEFINE met == {e \in log_domains_[p] : log_domains[e].mask \cap mask # {}}
<1>1. CASE met = {}
  <2>1. CASE d = HSTR_SRC_LOG_DOMAIN
    BY <2>1 DEF SourceEmpty
  <2>2. CASE d # HSTR_SRC_LOG_DOMAIN
    <3>1. d \in log_domains_[p]
      BY <2>2 DEF CollectionsAgree
    <3> QED BY <1>1, <3>1
  <2> QED BY <2>1, <2>2
<1>2. CASE met # {}
  <2>1. \E overlap \in {IF log_domains[e].mask = mask THEN "EXACT" ELSE "PARTIAL" : e \in met} :
          overlap # "PARTIAL"
    BY <1>2 DEF lookupLogDomainByCPUMask
  <2>2. PICK e \in met : log_domains[e].mask = mask
    BY <2>1
  <2>3. e \in DOMAIN log_domains /\ log_domains[e].phys = p
    BY <2>2 DEF CollectionsAgree
  <2> QED BY <2>2, <2>3 DEF MasksEqualOrDisjoint
<1> QED BY <1>1, <1>2

\* AddLogDomain preserves the invariant.
LEMMA AddLogDomainKeeps ==
  ASSUME IInv, NEW p \in PhysDomains, NEW mask \in SUBSET CPUs, AddLogDomain(p, mask)
  PROVE IInv'
<1> USE DEF IInv
<1> DEFINE n == next_log_dom_id
<1>1. /\ n \in Nat /\ n \in LogDomIDs /\ n # HSTR_SRC_LOG_DOMAIN /\ n + 1 \in 1..(MaxLogDomID + 1)
      /\ n \notin DOMAIN log_domains
      /\ DOMAIN log_domains \cup {n} \subseteq 0..(n + 1 - 1)
  BY MaxLogDomIDAssumption DEF AddLogDomain, TypeOK, LogDomIDs, HSTR_SRC_LOG_DOMAIN
<1>2. /\ DOMAIN log_domains' = DOMAIN log_domains \cup {n}
      /\ log_domains'[n] = [phys |-> p, mask |-> mask]
      /\ \A d \in DOMAIN log_domains : log_domains'[d] = log_domains[d]
  BY <1>1 DEF AddLogDomain, Extend
<1>3. /\ DOMAIN log_streams_' = DOMAIN log_domains \cup {n}
      /\ log_streams_'[n] = {}
      /\ \A d \in DOMAIN log_domains : log_streams_'[d] = log_streams_[d]
  BY <1>1 DEF AddLogDomain, Extend, TypeOK
<1>4. UNCHANGED <<log_streams, phys_streams, oversubscription_array_, spoiled>>
  BY DEF AddLogDomain
<1>5. log_domains_' = [log_domains_ EXCEPT ![p] = @ \cup {n}]
  BY DEF AddLogDomain
<1>6. \A s \in DOMAIN log_streams : log_streams[s].dom \in DOMAIN log_domains
  BY DEF CollectionsAgree
<1>7. TypeOK'
  <2>1. log_domains' \in [DOMAIN log_domains' -> [phys : PhysDomains, mask : SUBSET CPUs]]
    BY <1>2 DEF AddLogDomain, Extend, TypeOK
  <2>2. log_domains_' \in [PhysDomains -> SUBSET LogDomIDs]
    BY <1>1, <1>5 DEF TypeOK
  <2>3. log_streams_' \in [DOMAIN log_domains' -> SUBSET LogStreamIDs]
    BY <1>2, <1>3 DEF AddLogDomain, Extend, TypeOK
  <2>4. next_log_dom_id' = n + 1
    BY DEF AddLogDomain
  <2> QED BY <1>1, <1>2, <1>4, <2>1, <2>2, <2>3, <2>4 DEF TypeOK
<1>8. StreamsFit'
  <2>1. \A d \in DOMAIN log_domains' : log_domains'[d].mask \subseteq MaxCPUMask(log_domains'[d].phys)
    BY <1>2 DEF CollectionsAgree, StreamsFit, AddLogDomain
  <2> QED BY <1>2, <1>4, <1>6, <2>1 DEF CollectionsAgree, StreamsFit
<1>9. CollectionsAgree'
  <2>1. ASSUME NEW q \in PhysDomains
        PROVE log_domains_'[q] = {d \in DOMAIN log_domains' \ {HSTR_SRC_LOG_DOMAIN} : log_domains'[d].phys = q}
    <3>1. log_domains_[q] = {d \in DOMAIN log_domains \ {HSTR_SRC_LOG_DOMAIN} : log_domains[d].phys = q}
      BY DEF CollectionsAgree
    <3>2. log_domains_'[q] = IF q = p THEN log_domains_[q] \cup {n} ELSE log_domains_[q]
      BY <1>5 DEF TypeOK
    <3> QED BY <1>1, <1>2, <3>1, <3>2
  <2>2. ASSUME NEW d \in DOMAIN log_domains'
        PROVE log_streams_'[d] = {s \in DOMAIN log_streams' : log_streams'[s].dom = d}
    BY <1>1, <1>2, <1>3, <1>4, <1>6 DEF CollectionsAgree
  <2>3. \A s \in DOMAIN log_streams' : log_streams'[s].dom \in DOMAIN log_domains'
    BY <1>2, <1>4, <1>6
  <2> QED BY <1>8, <2>1, <2>2, <2>3 DEF CollectionsAgree
<1>10. SourceEmpty'
  BY <1>1, <1>2 DEF SourceEmpty
<1>11. MasksEqualOrDisjoint'
  <2>1. \A d \in DOMAIN log_domains :
          log_domains[d].phys = p =>
            log_domains[d].mask = mask \/ log_domains[d].mask \cap mask = {}
    BY NewMaskFits DEF AddLogDomain
  <2> SUFFICES ASSUME NEW d \in DOMAIN log_domains', NEW e \in DOMAIN log_domains',
               log_domains'[d].phys = log_domains'[e].phys
      PROVE \/ log_domains'[d].mask = log_domains'[e].mask
            \/ log_domains'[d].mask \cap log_domains'[e].mask = {}
    BY DEF MasksEqualOrDisjoint
  <2>2. CASE d = n \/ e = n
    BY <1>2, <2>1, <2>2
  <2>3. CASE d # n /\ e # n
    BY <1>2, <2>3 DEF MasksEqualOrDisjoint
  <2> QED BY <2>2, <2>3
<1>12. Finite' /\ SharingIsExact' /\ RefCountsMatch'
  BY <1>4 DEF Finite, SharingIsExact, RefCountsMatch, Holders
<1>13. OversubscriptionMatches'
  <2>1. ASSUME NEW ps \in DOMAIN phys_streams
        PROVE phys_streams[ps].dom \in DOMAIN log_domains
    BY HeldPhysStream
  <2>2. \A q \in PhysDomains, c \in CPUs : UsersOf(q, c)' = UsersOf(q, c)
    BY <1>2, <1>4, <2>1 DEF UsersOf, PhysDomainOf
  <2> QED BY <1>4, <2>2 DEF OversubscriptionMatches
<1> QED BY <1>7, <1>9, <1>10, <1>11, <1>12, <1>13

\* Only the next id changes.
LEMMA AddLogDomainFailsKeeps ==
  ASSUME IInv, AddLogDomainFails
  PROVE IInv'
<1> USE DEF IInv, AddLogDomainFails, streamVars
<1>1. TypeOK'
  <2>1. /\ next_log_dom_id + 1 \in 1..(MaxLogDomID + 1)
        /\ DOMAIN log_domains \subseteq 0..(next_log_dom_id + 1 - 1)
    BY MaxLogDomIDAssumption DEF TypeOK
  <2> QED BY <2>1 DEF TypeOK
<1>2. CollectionsAgree' /\ SourceEmpty' /\ MasksEqualOrDisjoint'
  BY DEF CollectionsAgree, StreamsFit, SourceEmpty, MasksEqualOrDisjoint
<1>3. Finite' /\ SharingIsExact' /\ RefCountsMatch'
  BY DEF Finite, SharingIsExact, RefCountsMatch, Holders
<1>4. OversubscriptionMatches'
  BY DEF OversubscriptionMatches, UsersOf, PhysDomainOf
<1> QED BY <1>1, <1>2, <1>3, <1>4

\* RmLogDomains preserves the invariant.
LEMMA RmLogDomainsKeeps ==
  ASSUME IInv, NEW ids \in IdLists, RmLogDomains(ids)
  PROVE IInv'
<1> USE DEF IInv
<1> DEFINE R == Removed(ids)
           S == {s \in DOMAIN log_streams : log_streams[s].dom \in R}
<1>1. R \subseteq DOMAIN log_domains
  <2>1. \A i \in DOMAIN ids : i \in 1..i
    BY DEF IdLists
  <2> QED BY <2>1 DEF Removed
<1>2. UNION {log_streams_[d] : d \in R} = S
  BY <1>1 DEF CollectionsAgree
<1>3. detach(S) /\ log_streams' = Without(log_streams, S) /\ spoiled' = spoiled
  BY <1>2 DEF RmLogDomains
<1>4. /\ DOMAIN log_domains' = DOMAIN log_domains \ R
      /\ \A d \in DOMAIN log_domains \ R : log_domains'[d] = log_domains[d]
      /\ DOMAIN log_streams_' = DOMAIN log_streams_ \ R
      /\ \A d \in DOMAIN log_streams_ \ R : log_streams_'[d] = log_streams_[d]
      /\ DOMAIN log_streams' = DOMAIN log_streams \ S
      /\ \A s \in DOMAIN log_streams \ S : log_streams'[s] = log_streams[s]
  BY <1>3 DEF RmLogDomains, Without, Restrict
<1>5. \A s \in DOMAIN log_streams \ S : log_streams[s].dom \in DOMAIN log_domains'
  BY <1>4 DEF CollectionsAgree
<1>6. S \in SUBSET DOMAIN log_streams
  OBVIOUS
<1>7. \A s \in DOMAIN log_streams \ S :
        /\ log_streams[s].dom \in DOMAIN log_domains'
        /\ log_domains'[log_streams[s].dom] = log_domains[log_streams[s].dom]
  BY <1>4, <1>5
<1>8. /\ Finite' /\ SharingIsExact' /\ RefCountsMatch' /\ OversubscriptionMatches'
      /\ DOMAIN phys_streams' \subseteq PhysStreams
      /\ phys_streams' \in [DOMAIN phys_streams' ->
           [dom : LogDomIDs, mask : SUBSET CPUs, refcount : Int]]
      /\ oversubscription_array_' \in [PhysDomains -> [CPUs -> Int]]
      /\ \A s \in DOMAIN log_streams \ S :
           LET ps == log_streams[s].phys_stream IN
           /\ ps \in DOMAIN phys_streams'
           /\ phys_streams'[ps].dom = phys_streams[ps].dom
           /\ phys_streams'[ps].mask = phys_streams[ps].mask
  <2> HIDE DEF S
  <2> QED BY <1>3, <1>6, <1>7, StreamsDeleted
<1>9. TypeOK'
  <2>1. log_domains' \in [DOMAIN log_domains' -> [phys : PhysDomains, mask : SUBSET CPUs]]
    BY <1>4 DEF RmLogDomains, Without, Restrict, TypeOK
  <2>2. log_domains_' \in [PhysDomains -> SUBSET LogDomIDs]
    BY DEF RmLogDomains, TypeOK
  <2>3. log_streams_' \in [DOMAIN log_domains' -> SUBSET LogStreamIDs]
    BY <1>4 DEF RmLogDomains, Without, Restrict, TypeOK
  <2>4. log_streams' \in [DOMAIN log_streams' ->
          [dom : LogDomIDs, mask : SUBSET CPUs, phys_stream : PhysStreams]]
    BY <1>3, <1>4 DEF Without, Restrict, TypeOK
  <2>5. next_log_dom_id' = next_log_dom_id
    BY DEF RmLogDomains
  <2> QED BY <1>3, <1>4, <1>8, <2>1, <2>2, <2>3, <2>4, <2>5 DEF TypeOK
<1>10. StreamsFit'
  BY <1>4, <1>7, <1>8 DEF CollectionsAgree, StreamsFit
<1>11. CollectionsAgree'
  <2>1. \A p \in PhysDomains : log_domains_'[p] = log_domains_[p] \ R
    BY DEF RmLogDomains
  <2>2. \A p \in PhysDomains : log_domains_'[p]
          = {d \in DOMAIN log_domains' \ {HSTR_SRC_LOG_DOMAIN} : log_domains'[d].phys = p}
    BY <1>4, <2>1 DEF CollectionsAgree
  <2>3. DOMAIN log_streams_ = DOMAIN log_domains
    BY DEF TypeOK
  <2>4. \A d \in DOMAIN log_domains' :
          log_streams_'[d] = {s \in DOMAIN log_streams' : log_streams'[s].dom = d}
    BY <1>4, <2>3 DEF CollectionsAgree
  <2> QED BY <1>4, <1>5, <1>10, <2>2, <2>4 DEF CollectionsAgree
<1>12. SourceEmpty' /\ MasksEqualOrDisjoint'
  BY <1>4 DEF SourceEmpty, MasksEqualOrDisjoint
<1> QED BY <1>8, <1>9, <1>11, <1>12

\* What adding a stream to the collection and to its domain's list does.
LEMMA LogStreamAdded ==
  ASSUME IInv, NEW s, s \notin DOMAIN log_streams,
         NEW d \in DOMAIN log_domains, NEW mask \in SUBSET CPUs, NEW ps,
         mask \subseteq log_domains[d].mask,
         AddLogStream(s, d, mask, ps), UNCHANGED domainVars,
         ps \in DOMAIN phys_streams', phys_streams'[ps].dom = d, phys_streams'[ps].mask = mask,
         DOMAIN phys_streams \subseteq DOMAIN phys_streams',
         \A other \in DOMAIN phys_streams :
           /\ phys_streams'[other].dom = phys_streams[other].dom
           /\ phys_streams'[other].mask = phys_streams[other].mask
  PROVE /\ DOMAIN log_streams' = DOMAIN log_streams \cup {s}
        /\ log_streams'[s] = [dom |-> d, mask |-> mask, phys_stream |-> ps]
        /\ \A t \in DOMAIN log_streams : log_streams'[t] = log_streams[t]
        /\ CollectionsAgree'
        /\ SourceEmpty'
        /\ MasksEqualOrDisjoint'
        /\ IsFiniteSet(DOMAIN log_streams')
<1> USE DEF IInv, domainVars
<1>1. /\ DOMAIN log_streams' = DOMAIN log_streams \cup {s}
      /\ log_streams'[s] = [dom |-> d, mask |-> mask, phys_stream |-> ps]
      /\ \A t \in DOMAIN log_streams : log_streams'[t] = log_streams[t]
  BY DEF AddLogStream, Extend
<1>2. StreamsFit'
  BY <1>1 DEF CollectionsAgree, StreamsFit
<1>3. ASSUME NEW e \in DOMAIN log_domains
      PROVE log_streams_'[e] = {t \in DOMAIN log_streams' : log_streams'[t].dom = e}
  <2>1. log_streams_'[e] = IF e = d THEN log_streams_[e] \cup {s} ELSE log_streams_[e]
    BY DEF AddLogStream, TypeOK
  <2>2. log_streams_[e] = {t \in DOMAIN log_streams : log_streams[t].dom = e}
    BY DEF CollectionsAgree
  <2> QED BY <1>1, <2>1, <2>2
<1>4. \A t \in DOMAIN log_streams' : log_streams'[t].dom \in DOMAIN log_domains'
  BY <1>1 DEF CollectionsAgree
<1>5. CollectionsAgree'
  BY <1>2, <1>3, <1>4 DEF CollectionsAgree
<1>6. SourceEmpty' /\ MasksEqualOrDisjoint'
  BY DEF SourceEmpty, MasksEqualOrDisjoint
<1>7. IsFiniteSet(DOMAIN log_streams')
  BY <1>1, FS_AddElement DEF Finite
<1> QED BY <1>1, <1>5, <1>6, <1>7

\* A stream that takes over a physical stream preserves the invariant.
LEMMA StreamCreateSharedKeeps ==
  ASSUME IInv, NEW s \in LogStreamIDs, NEW d \in LogDomIDs, NEW mask \in SUBSET CPUs,
         StreamCreateShared(s, d, mask)
  PROVE IInv'
<1> USE DEF IInv
<1>1. PICK other \in lookupLogStreamByCPUMask(d, mask) :
        /\ AddLogStream(s, d, mask, log_streams[other].phys_stream)
        /\ phys_streams' = [phys_streams EXCEPT ![log_streams[other].phys_stream].refcount = @ + 1]
  BY DEF StreamCreateShared
<1> DEFINE ps == log_streams[other].phys_stream
<1>2. /\ s \notin DOMAIN log_streams /\ d \in DOMAIN log_domains
      /\ mask \subseteq log_domains[d].mask
      /\ UNCHANGED <<domainVars, oversubscription_array_, spoiled>>
  BY DEF StreamCreateShared, CanCreate
<1>3. /\ other \in DOMAIN log_streams
      /\ log_streams[other].dom = d /\ log_streams[other].mask = mask
  BY <1>2 DEF lookupLogStreamByCPUMask, CollectionsAgree
<1>4. /\ ps \in DOMAIN phys_streams
      /\ phys_streams[ps].dom = d /\ phys_streams[ps].mask = mask
  BY <1>3 DEF CollectionsAgree, StreamsFit
<1>5. \A x \in DOMAIN phys_streams :
        phys_streams[x] \in [dom : LogDomIDs, mask : SUBSET CPUs, refcount : Int]
  BY DEF TypeOK
<1>6. /\ DOMAIN phys_streams' = DOMAIN phys_streams
      /\ \A x \in DOMAIN phys_streams :
           /\ phys_streams'[x].dom = phys_streams[x].dom
           /\ phys_streams'[x].mask = phys_streams[x].mask
           /\ phys_streams'[x].refcount
                = IF x = ps THEN phys_streams[x].refcount + 1 ELSE phys_streams[x].refcount
  BY <1>1, <1>4, <1>5
<1>7. /\ DOMAIN log_streams' = DOMAIN log_streams \cup {s}
      /\ log_streams'[s] = [dom |-> d, mask |-> mask, phys_stream |-> ps]
      /\ \A t \in DOMAIN log_streams : log_streams'[t] = log_streams[t]
      /\ CollectionsAgree' /\ SourceEmpty' /\ MasksEqualOrDisjoint'
      /\ IsFiniteSet(DOMAIN log_streams')
  <2>1. /\ AddLogStream(s, d, mask, ps) /\ UNCHANGED domainVars
        /\ ps \in DOMAIN phys_streams' /\ phys_streams'[ps].dom = d /\ phys_streams'[ps].mask = mask
        /\ DOMAIN phys_streams \subseteq DOMAIN phys_streams'
        /\ \A x \in DOMAIN phys_streams :
             /\ phys_streams'[x].dom = phys_streams[x].dom
             /\ phys_streams'[x].mask = phys_streams[x].mask
    BY <1>1, <1>2, <1>4, <1>6
  <2> HIDE DEF ps
  <2> QED BY <1>2, <2>1, LogStreamAdded
<1>8. TypeOK'
  <2>1. log_streams' \in [DOMAIN log_streams' ->
          [dom : LogDomIDs, mask : SUBSET CPUs, phys_stream : PhysStreams]]
    <3>1. /\ ps \in PhysStreams /\ d \in LogDomIDs /\ s \in LogStreamIDs
          /\ [dom |-> d, mask |-> mask, phys_stream |-> ps]
               \in [dom : LogDomIDs, mask : SUBSET CPUs, phys_stream : PhysStreams]
      BY <1>4 DEF TypeOK
    <3>2. \A t \in DOMAIN log_streams :
            log_streams[t] \in [dom : LogDomIDs, mask : SUBSET CPUs, phys_stream : PhysStreams]
      BY DEF TypeOK
    <3> HIDE DEF ps
    <3>3. log_streams' = Extend(log_streams, s, [dom |-> d, mask |-> mask, phys_stream |-> ps])
      BY <1>1 DEF AddLogStream, ps
    <3> QED BY <3>1, <3>2, <3>3 DEF Extend
  <2>2. log_streams_' \in [DOMAIN log_domains -> SUBSET LogStreamIDs]
    BY <1>1, <1>2 DEF AddLogStream, TypeOK
  <2>3. phys_streams' \in [DOMAIN phys_streams' ->
          [dom : LogDomIDs, mask : SUBSET CPUs, refcount : Int]]
    <3>1. phys_streams' = [phys_streams EXCEPT ![ps] = [phys_streams[ps] EXCEPT !.refcount = @ + 1]]
      BY <1>1
    <3>2. [phys_streams[ps] EXCEPT !.refcount = @ + 1]
            \in [dom : LogDomIDs, mask : SUBSET CPUs, refcount : Int]
      BY <1>4, <1>5
    <3> HIDE DEF ps
    <3> QED BY <1>5, <3>1, <3>2 DEF TypeOK
  <2> QED BY <1>2, <1>6, <1>7, <2>1, <2>2, <2>3 DEF TypeOK, domainVars
<1>9. SharingIsExact'
  BY <1>3, <1>7 DEF SharingIsExact
<1>10. RefCountsMatch'
  <2> SUFFICES ASSUME NEW x \in DOMAIN phys_streams
      PROVE Holders(x)' # {} /\ phys_streams'[x].refcount = Cardinality(Holders(x)')
    BY <1>6 DEF RefCountsMatch
  <2>1. Holders(x) # {} /\ phys_streams[x].refcount = Cardinality(Holders(x))
    BY DEF RefCountsMatch
  <2>2. Holders(x)' = IF x = ps THEN Holders(x) \cup {s} ELSE Holders(x)
    BY <1>7 DEF Holders
  <2>3. s \notin Holders(x) /\ IsFiniteSet(Holders(x))
    BY <1>2, FS_Subset DEF Finite, Holders
  <2>4. Cardinality(Holders(x) \cup {s}) = Cardinality(Holders(x)) + 1
    BY <2>3, FS_AddElement
  <2> QED BY <1>6, <2>1, <2>2, <2>4
<1>11. Finite'
  BY <1>6, <1>7 DEF Finite
<1>12. OversubscriptionMatches'
  <2>1. \A q \in PhysDomains, c \in CPUs : UsersOf(q, c)' = UsersOf(q, c)
    BY <1>2, <1>6 DEF UsersOf, PhysDomainOf, domainVars
  <2> QED BY <1>2, <2>1 DEF OversubscriptionMatches
<1> QED BY <1>7, <1>8, <1>9, <1>10, <1>11, <1>12

\* The counts after a change by v, as the code makes it and count by count.
CountsModified(p, mask, v) ==
  oversubscription_array_' = modifyOversubscriptionArray(p, mask, v)
CountsChanged(p, mask, v) ==
  /\ oversubscription_array_' \in [PhysDomains -> [CPUs -> Int]]
  /\ \A q \in PhysDomains, c \in CPUs : oversubscription_array_'[q][c] =
       IF q = p /\ c \in mask THEN oversubscription_array_[q][c] + v
       ELSE oversubscription_array_[q][c]

\* What a modification does to each count.
LEMMA CountByCount ==
  ASSUME TypeOK, NEW p \in PhysDomains, NEW mask \in SUBSET CPUs,
         mask \subseteq MaxCPUMask(p), NEW v \in Int, CountsModified(p, mask, v)
  PROVE CountsChanged(p, mask, v)
<1> USE DEF CountsModified, CountsChanged
<1>1. \A q \in PhysDomains : oversubscription_array_[q] \in [CPUs -> Int]
  BY DEF TypeOK
<1>2. \A q \in PhysDomains, c \in CPUs : oversubscription_array_[q][c] \in Int
  BY <1>1
<1> DEFINE row == [c \in CPUs |-> IF c \in mask \cap MaxCPUMask(p)
                                  THEN oversubscription_array_[p][c] + v
                                  ELSE oversubscription_array_[p][c]]
<1>3. row \in [CPUs -> Int]
  BY <1>2
<1>4. oversubscription_array_' = [oversubscription_array_ EXCEPT ![p] = row]
  BY DEF modifyOversubscriptionArray
<1>5. \A c \in CPUs : row[c] = IF c \in mask THEN oversubscription_array_[p][c] + v
                               ELSE oversubscription_array_[p][c]
  OBVIOUS
<1> HIDE DEF row
<1> QED BY <1>3, <1>4, <1>5 DEF TypeOK

\* A stream with a physical stream of its own preserves the invariant.
LEMMA StreamCreateNewKeeps ==
  ASSUME IInv, NEW s \in LogStreamIDs, NEW d \in LogDomIDs, NEW mask \in SUBSET CPUs,
         StreamCreateNew(s, d, mask)
  PROVE IInv'
<1> USE DEF IInv
<1> DEFINE p == log_domains[d].phys
<1>1. PICK ps \in PhysStreams \ DOMAIN phys_streams :
        /\ AddLogStream(s, d, mask, ps)
        /\ phys_streams' = Extend(phys_streams, ps, [dom |-> d, mask |-> mask, refcount |-> 1])
  BY DEF StreamCreateNew
<1>2. /\ s \notin DOMAIN log_streams /\ d \in DOMAIN log_domains
      /\ mask \subseteq log_domains[d].mask
      /\ UNCHANGED <<domainVars, spoiled>>
      /\ oversubscription_array_' = modifyOversubscriptionArray(p, mask, 1)
      /\ lookupLogStreamByCPUMask(d, mask) = {}
  BY DEF StreamCreateNew, CanCreate
<1>3. \A t \in DOMAIN log_streams : log_streams[t].dom = d => log_streams[t].mask # mask
  BY <1>2 DEF lookupLogStreamByCPUMask, CollectionsAgree
<1>4. \A t \in DOMAIN log_streams : log_streams[t].phys_stream # ps
  BY <1>1 DEF CollectionsAgree, StreamsFit
<1>5. p \in PhysDomains /\ mask \subseteq MaxCPUMask(p)
  <2>1. log_domains[d] \in [phys : PhysDomains, mask : SUBSET CPUs]
    BY <1>2 DEF TypeOK
  <2> QED BY <1>2, <2>1 DEF CollectionsAgree, StreamsFit
<1>6. /\ DOMAIN phys_streams' = DOMAIN phys_streams \cup {ps}
      /\ phys_streams'[ps] = [dom |-> d, mask |-> mask, refcount |-> 1]
      /\ \A x \in DOMAIN phys_streams : phys_streams'[x] = phys_streams[x]
  BY <1>1 DEF Extend
<1>7. /\ DOMAIN log_streams' = DOMAIN log_streams \cup {s}
      /\ log_streams'[s] = [dom |-> d, mask |-> mask, phys_stream |-> ps]
      /\ \A t \in DOMAIN log_streams : log_streams'[t] = log_streams[t]
      /\ CollectionsAgree' /\ SourceEmpty' /\ MasksEqualOrDisjoint'
      /\ IsFiniteSet(DOMAIN log_streams')
  <2>1. /\ ps \in DOMAIN phys_streams' /\ phys_streams'[ps].dom = d /\ phys_streams'[ps].mask = mask
        /\ DOMAIN phys_streams \subseteq DOMAIN phys_streams'
        /\ \A x \in DOMAIN phys_streams :
             /\ phys_streams'[x].dom = phys_streams[x].dom
             /\ phys_streams'[x].mask = phys_streams[x].mask
        /\ AddLogStream(s, d, mask, ps) /\ UNCHANGED domainVars
    BY <1>1, <1>2, <1>6
  <2>2. s \notin DOMAIN log_streams /\ d \in DOMAIN log_domains /\ mask \subseteq log_domains[d].mask
    BY <1>2
  <2> HIDE DEF IInv
  <2> QED BY <2>1, <2>2, LogStreamAdded, ZenonT(30)
<1>8. /\ oversubscription_array_' \in [PhysDomains -> [CPUs -> Int]]
      /\ \A q \in PhysDomains, c \in CPUs : oversubscription_array_'[q][c] =
           IF q = p /\ c \in mask THEN oversubscription_array_[q][c] + 1
           ELSE oversubscription_array_[q][c]
  <2>1. CountsModified(p, mask, 1)
    BY <1>2 DEF CountsModified
  <2>2. CountsChanged(p, mask, 1)
    <3> HIDE DEF p
    <3> QED BY <1>5, <2>1, CountByCount
  <2> QED BY <2>2 DEF CountsChanged
<1>9. TypeOK'
  <2>1. log_streams' \in [DOMAIN log_streams' ->
          [dom : LogDomIDs, mask : SUBSET CPUs, phys_stream : PhysStreams]]
    BY <1>1 DEF AddLogStream, Extend, TypeOK
  <2>2. log_streams_' \in [DOMAIN log_domains -> SUBSET LogStreamIDs]
    BY <1>1, <1>2 DEF AddLogStream, TypeOK
  <2>3. phys_streams' \in [DOMAIN phys_streams' ->
          [dom : LogDomIDs, mask : SUBSET CPUs, refcount : Int]]
    BY <1>1 DEF Extend, TypeOK
  <2> QED BY <1>1, <1>2, <1>6, <1>7, <1>8, <2>1, <2>2, <2>3 DEF TypeOK, domainVars
<1>10. SharingIsExact'
  BY <1>3, <1>4, <1>7 DEF SharingIsExact
<1>11. RefCountsMatch'
  <2> SUFFICES ASSUME NEW x \in DOMAIN phys_streams'
      PROVE Holders(x)' # {} /\ phys_streams'[x].refcount = Cardinality(Holders(x)')
    BY DEF RefCountsMatch
  <2>1. CASE x = ps
    <3>1. Holders(x)' = {s}
      BY <1>4, <1>7, <2>1 DEF Holders
    <3> QED BY <1>6, <2>1, <3>1, FS_Singleton
  <2>2. CASE x # ps
    <3>1. Holders(x)' = Holders(x)
      BY <1>7, <2>2 DEF Holders
    <3> QED BY <1>6, <2>2, <3>1 DEF RefCountsMatch
  <2> QED BY <2>1, <2>2
<1>12. Finite'
  BY <1>6, <1>7, FS_AddElement DEF Finite
<1>13. OversubscriptionMatches'
  <2> SUFFICES ASSUME NEW q \in PhysDomains, NEW c \in CPUs, <<q, c>> \notin spoiled
      PROVE oversubscription_array_'[q][c] = Cardinality(UsersOf(q, c)')
    BY <1>2 DEF OversubscriptionMatches
  <2>1. oversubscription_array_[q][c] = Cardinality(UsersOf(q, c))
    BY DEF OversubscriptionMatches
  <2>2. UsersOf(q, c)' = IF q = p /\ c \in mask THEN UsersOf(q, c) \cup {ps} ELSE UsersOf(q, c)
    BY <1>1, <1>2, <1>6 DEF UsersOf, PhysDomainOf, domainVars
  <2>3. IsFiniteSet(UsersOf(q, c)) /\ ps \notin UsersOf(q, c)
    BY <1>1, FS_Subset DEF Finite, UsersOf
  <2>4. Cardinality(UsersOf(q, c) \cup {ps}) = Cardinality(UsersOf(q, c)) + 1
    BY <2>3, FS_AddElement
  <2> HIDE DEF p
  <2> QED BY <1>8, <2>1, <2>2, <2>4
<1> QED BY <1>7, <1>9, <1>10, <1>11, <1>12, <1>13

\* A failed creation preserves the invariant.
LEMMA StreamCreateFailsKeeps ==
  ASSUME IInv, NEW s \in LogStreamIDs, NEW d \in LogDomIDs, NEW mask \in SUBSET CPUs,
         StreamCreateFails(s, d, mask)
  PROVE IInv'
<1> USE DEF IInv
<1> DEFINE p == log_domains[d].phys
<1>1. /\ d \in DOMAIN log_domains /\ mask \subseteq log_domains[d].mask
      /\ UNCHANGED <<domainVars, log_streams, log_streams_, phys_streams>>
      /\ spoiled' = spoiled \cup ({p} \X mask)
      /\ oversubscription_array_' = modifyOversubscriptionArray(p, mask, -1)
  BY DEF StreamCreateFails, CanCreate
<1>2. p \in PhysDomains /\ mask \subseteq MaxCPUMask(p)
  <2>1. log_domains[d] \in [phys : PhysDomains, mask : SUBSET CPUs]
    BY <1>1 DEF TypeOK
  <2> QED BY <1>1, <2>1 DEF CollectionsAgree, StreamsFit
<1>3. /\ oversubscription_array_' \in [PhysDomains -> [CPUs -> Int]]
      /\ \A q \in PhysDomains, c \in CPUs : oversubscription_array_'[q][c] =
           IF q = p /\ c \in mask THEN oversubscription_array_[q][c] + -1
           ELSE oversubscription_array_[q][c]
  <2>1. CountsModified(p, mask, -1)
    BY <1>1 DEF CountsModified
  <2>2. CountsChanged(p, mask, -1)
    <3> HIDE DEF p
    <3> QED BY <1>2, <2>1, CountByCount
  <2> QED BY <2>2 DEF CountsChanged
<1>4. TypeOK'
  BY <1>1, <1>2, <1>3 DEF TypeOK, domainVars
<1>5. CollectionsAgree' /\ SourceEmpty' /\ MasksEqualOrDisjoint'
  BY <1>1 DEF CollectionsAgree, StreamsFit, SourceEmpty, MasksEqualOrDisjoint, domainVars
<1>6. Finite' /\ SharingIsExact' /\ RefCountsMatch'
  BY <1>1 DEF Finite, SharingIsExact, RefCountsMatch, Holders
<1>7. OversubscriptionMatches'
  <2> SUFFICES ASSUME NEW q \in PhysDomains, NEW c \in CPUs, <<q, c>> \notin spoiled'
      PROVE oversubscription_array_'[q][c] = Cardinality(UsersOf(q, c)')
    BY DEF OversubscriptionMatches
  <2>1. <<q, c>> \notin spoiled /\ ~(q = p /\ c \in mask)
    BY <1>1
  <2>2. UsersOf(q, c)' = UsersOf(q, c)
    BY <1>1 DEF UsersOf, PhysDomainOf, domainVars
  <2> QED BY <1>3, <2>1, <2>2 DEF OversubscriptionMatches
<1> QED BY <1>4, <1>5, <1>6, <1>7

\* StreamDestroy preserves the invariant.
LEMMA StreamDestroyKeeps ==
  ASSUME IInv, NEW s \in LogStreamIDs, StreamDestroy(s)
  PROVE IInv'
<1> USE DEF IInv
<1>1. /\ s \in DOMAIN log_streams /\ detach({s})
      /\ log_streams' = Without(log_streams, {s})
      /\ UNCHANGED <<domainVars, spoiled>>
      /\ log_streams_' = [log_streams_ EXCEPT ![log_streams[s].dom] = @ \ {s}]
  BY DEF StreamDestroy
<1>2. /\ DOMAIN log_streams' = DOMAIN log_streams \ {s}
      /\ \A t \in DOMAIN log_streams \ {s} : log_streams'[t] = log_streams[t]
  BY <1>1 DEF Without, Restrict
<1>3. /\ Finite' /\ SharingIsExact' /\ RefCountsMatch' /\ OversubscriptionMatches'
      /\ DOMAIN phys_streams' \subseteq PhysStreams
      /\ phys_streams' \in [DOMAIN phys_streams' ->
           [dom : LogDomIDs, mask : SUBSET CPUs, refcount : Int]]
      /\ oversubscription_array_' \in [PhysDomains -> [CPUs -> Int]]
      /\ \A t \in DOMAIN log_streams \ {s} :
           LET ps == log_streams[t].phys_stream IN
           /\ ps \in DOMAIN phys_streams'
           /\ phys_streams'[ps].dom = phys_streams[ps].dom
           /\ phys_streams'[ps].mask = phys_streams[ps].mask
  <2>1. \A t \in DOMAIN log_streams \ {s} :
          /\ log_streams[t].dom \in DOMAIN log_domains'
          /\ log_domains'[log_streams[t].dom] = log_domains[log_streams[t].dom]
    BY <1>1 DEF CollectionsAgree, domainVars
  <2>2. {s} \in SUBSET DOMAIN log_streams /\ spoiled' = spoiled
    BY <1>1
  <2> QED BY <1>1, <2>1, <2>2, StreamsDeleted
<1>4. TypeOK'
  <2>1. log_streams' \in [DOMAIN log_streams' ->
          [dom : LogDomIDs, mask : SUBSET CPUs, phys_stream : PhysStreams]]
    BY <1>1 DEF Without, Restrict, TypeOK
  <2>2. log_streams_' \in [DOMAIN log_domains -> SUBSET LogStreamIDs]
    BY <1>1 DEF TypeOK
  <2> QED BY <1>1, <1>2, <1>3, <2>1, <2>2 DEF TypeOK, domainVars
<1>5. StreamsFit'
  <2>1. \A t \in DOMAIN log_streams \ {s} :
          LET ps == log_streams[t].phys_stream IN
          /\ log_streams[t].mask \subseteq log_domains[log_streams[t].dom].mask
          /\ phys_streams[ps].dom = log_streams[t].dom
          /\ phys_streams[ps].mask = log_streams[t].mask
    BY DEF CollectionsAgree, StreamsFit
  <2>2. \A d \in DOMAIN log_domains : log_domains[d].mask \subseteq MaxCPUMask(log_domains[d].phys)
    BY DEF CollectionsAgree, StreamsFit
  <2>3. log_domains' = log_domains
    BY <1>1 DEF domainVars
  <2> QED BY <1>2, <1>3, <2>1, <2>2, <2>3 DEF StreamsFit
<1>6. CollectionsAgree'
  <2>1. ASSUME NEW d \in DOMAIN log_domains
        PROVE log_streams_'[d] = {t \in DOMAIN log_streams' : log_streams'[t].dom = d}
    <3>1. log_streams_'[d] = IF d = log_streams[s].dom THEN log_streams_[d] \ {s} ELSE log_streams_[d]
      BY <1>1 DEF TypeOK
    <3>2. log_streams_[d] = {t \in DOMAIN log_streams : log_streams[t].dom = d}
      BY DEF CollectionsAgree
    <3> QED BY <1>2, <3>1, <3>2
  <2> QED BY <1>1, <1>2, <1>5, <2>1 DEF CollectionsAgree, domainVars
<1>7. SourceEmpty' /\ MasksEqualOrDisjoint'
  BY <1>1 DEF SourceEmpty, MasksEqualOrDisjoint, domainVars
<1> QED BY <1>3, <1>4, <1>6, <1>7

\* Fini deletes every logical stream, hence every physical one, and leaves a
\* fresh registry.
LEMMA FiniKeeps ==
  ASSUME IInv, Fini
  PROVE IInv'
<1> USE DEF IInv
<1>1. ASSUME NEW ps \in DOMAIN phys_streams
      PROVE ps \in Unreferenced(DOMAIN log_streams)
  <2>1. {s \in DOMAIN log_streams : log_streams[s].phys_stream = ps} = Holders(ps)
    BY DEF Holders
  <2>2. phys_streams[ps].refcount = Cardinality(Holders(ps)) /\ IsFiniteSet(Holders(ps))
    BY FS_Subset DEF RefCountsMatch, Finite, Holders
  <2>3. Cardinality(Holders(ps)) \in Nat
    BY <2>2, FS_CardinalityType
  <2>4. RefsAfter(ps, DOMAIN log_streams) = 0
    BY <2>1, <2>2, <2>3 DEF RefsAfter
  <2> QED BY <2>4 DEF Unreferenced
<1>2. phys_streams' = Empty
  BY <1>1 DEF Fini, Without, Restrict, Empty
<1>3. Init'
  BY <1>2 DEF Fini, Init
<1> QED BY <1>3, FreshRegistry, PTL

\* Every step keeps the invariant.
LEMMA Inductive ==
  IInv /\ [Next]_vars => IInv'
<1> SUFFICES ASSUME IInv, [Next]_vars PROVE IInv'
  OBVIOUS
<1>1. ASSUME NEW p \in PhysDomains, NEW mask \in SUBSET CPUs, AddLogDomain(p, mask)
      PROVE IInv'
  BY <1>1, AddLogDomainKeeps
<1>2. CASE AddLogDomainFails
  BY <1>2, AddLogDomainFailsKeeps
<1>3. ASSUME NEW ids \in IdLists, RmLogDomains(ids) PROVE IInv'
  BY <1>3, RmLogDomainsKeeps
<1>4. ASSUME NEW s \in LogStreamIDs, NEW d \in LogDomIDs, NEW mask \in SUBSET CPUs,
             StreamCreateShared(s, d, mask)
      PROVE IInv'
  BY <1>4, StreamCreateSharedKeeps
<1>5. ASSUME NEW s \in LogStreamIDs, NEW d \in LogDomIDs, NEW mask \in SUBSET CPUs,
             StreamCreateNew(s, d, mask)
      PROVE IInv'
  BY <1>5, StreamCreateNewKeeps
<1>6. ASSUME NEW s \in LogStreamIDs, NEW d \in LogDomIDs, NEW mask \in SUBSET CPUs,
             StreamCreateFails(s, d, mask)
      PROVE IInv'
  BY <1>6, StreamCreateFailsKeeps
<1>7. ASSUME NEW s \in LogStreamIDs, StreamDestroy(s) PROVE IInv'
  BY <1>7, StreamDestroyKeeps
<1>8. CASE Fini
  BY <1>8, FiniKeeps
<1>9. CASE UNCHANGED vars
  <2> USE <1>9 DEF vars, domainVars, streamVars
  <2>1. TypeOK' BY DEF IInv, TypeOK
  <2>2. CollectionsAgree' /\ SourceEmpty' /\ Finite' /\ MasksEqualOrDisjoint'
    BY DEF IInv, CollectionsAgree, StreamsFit, SourceEmpty, Finite, MasksEqualOrDisjoint
  <2>3. SharingIsExact' /\ RefCountsMatch' /\ OversubscriptionMatches'
    BY DEF IInv, SharingIsExact, RefCountsMatch, Holders, OversubscriptionMatches,
           UsersOf, PhysDomainOf
  <2> QED BY <2>1, <2>2, <2>3 DEF IInv
<1> QED BY <1>1, <1>2, <1>3, <1>4, <1>5, <1>6, <1>7, <1>8, <1>9 DEF Next

-----------------------------------------------------------------------------
(* The theorems.                                                           *)

\* The conjunction the others follow from.
LEMMA Invariant ==
  Spec => []IInv
BY FreshRegistry, Inductive, PTL DEF Spec

\* The registry's state keeps its types through every call, failed ones included.
THEOREM RegistryTypes == Spec => []TypeOK
<1>1. IInv => TypeOK BY DEF IInv
<1> QED BY <1>1, Invariant, PTL

\* The collections and the lists of the domains agree after every call, after
\* RmLogDomains that stops half way too.
THEOREM RegistryAgrees == Spec => []CollectionsAgree
<1>1. IInv => CollectionsAgree BY DEF IInv
<1> QED BY <1>1, Invariant, PTL

\* AddLogDomain refuses every mask that would partly overlap another.
THEOREM DomainsEqualOrDisjoint == Spec => []MasksEqualOrDisjoint
<1>1. IInv => MasksEqualOrDisjoint BY DEF IInv
<1> QED BY <1>1, Invariant, PTL

\* Streams share a physical stream exactly when domain and mask are equal.
THEOREM SharingExact == Spec => []SharingIsExact
<1>1. IInv => SharingIsExact BY DEF IInv
<1> QED BY <1>1, Invariant, PTL

\* No physical stream leaks, and none is deleted while a logical stream uses it.
THEOREM NoLeaksNoDangling == Spec => []RefCountsMatch
<1>1. IInv => RefCountsMatch BY DEF IInv
<1> QED BY <1>1, Invariant, PTL

\* The oversubscription counts are the numbers of streams on each CPU, except
\* where the set-up of a stream has failed.
THEOREM CountsMatch == Spec => []OversubscriptionMatches
<1>1. IInv => OversubscriptionMatches BY DEF IInv
<1> QED BY <1>1, Invariant, PTL
=============================================================================
