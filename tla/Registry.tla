------------------------------ MODULE Registry ------------------------------
(***************************************************************************)
(* The registry of logical domains and streams: AddLogDomain,              *)
(* RmLogDomains, StreamCreate, StreamDestroy and the clean-up by Fini, on  *)
(* the two collections, the lists that physical and logical domains keep   *)
(* of their own, the physical streams that logical streams share, and the  *)
(* oversubscription counts.                                                *)
(*                                                                         *)
(* Every call holds the locks of what it changes (module ApiLocks), so it  *)
(* is one step.  Lists are sets here: where the code takes the first match *)
(* of a list the model takes any.                                          *)
(***************************************************************************)
EXTENDS Integers, FiniteSets, Functions

CONSTANTS
  PhysDomains,           \* the active physical domains
  HSTR_SRC_PHYS_DOMAIN,  \* the one of the host
  NumThreads,            \* the hardware threads of each, numbered from 0
  LogStreamIDs,          \* ids the application chooses for streams
  PhysStreams,           \* addresses of physical streams, reused once free
  MaxLogDomID            \* bound on the ids of logical domains

ASSUME PhysDomainsAssumption == HSTR_SRC_PHYS_DOMAIN \in PhysDomains
ASSUME NumThreadsAssumption == NumThreads \in [PhysDomains -> Nat]
ASSUME MaxLogDomIDAssumption == MaxLogDomID \in Nat

VARIABLES
  next_log_dom_id,          \* the id of the next logical domain
  log_domains,              \* the collection: physical domain and mask of each id
  log_domains_,             \* the logical domains each physical domain lists
  log_streams,              \* the collection: domain, mask, physical stream of each id
  log_streams_,             \* the streams each logical domain lists
  phys_streams,             \* domain, mask and reference count by address
  oversubscription_array_,  \* streams per hardware thread
  spoiled                   \* history: the threads a failed set-up has touched

domainVars == <<next_log_dom_id, log_domains, log_domains_>>
streamVars ==
  <<log_streams, log_streams_, phys_streams, oversubscription_array_, spoiled>>
vars == <<domainVars, streamVars>>

MaxCPUMask(p) == 0..(NumThreads[p] - 1)
CPUs == UNION {MaxCPUMask(p) : p \in PhysDomains}
LogDomIDs == 0..MaxLogDomID
HSTR_SRC_LOG_DOMAIN == 0

\* The counts are unsigned in the code, where -1 is the largest number.  Only
\* the number of streams and its being 0 are looked at.
TypeOK ==
  /\ next_log_dom_id \in 1..(MaxLogDomID + 1)
  /\ DOMAIN log_domains \subseteq 0..(next_log_dom_id - 1)
  /\ log_domains \in
       [DOMAIN log_domains -> [phys : PhysDomains, mask : SUBSET CPUs]]
  /\ log_domains_ \in [PhysDomains -> SUBSET LogDomIDs]
  /\ DOMAIN log_streams \subseteq LogStreamIDs
  /\ log_streams \in [DOMAIN log_streams ->
       [dom : LogDomIDs, mask : SUBSET CPUs, phys_stream : PhysStreams]]
  /\ log_streams_ \in [DOMAIN log_domains -> SUBSET LogStreamIDs]
  /\ DOMAIN phys_streams \subseteq PhysStreams
  /\ phys_streams \in [DOMAIN phys_streams ->
       [dom : LogDomIDs, mask : SUBSET CPUs, refcount : Int]]
  /\ oversubscription_array_ \in [PhysDomains -> [CPUs -> Int]]
  /\ spoiled \subseteq PhysDomains \X CPUs

-----------------------------------------------------------------------------
(* Helpers.                                                                *)

\* f with a value for one more argument, and f without those in S.
Extend(f, x, v) == [y \in DOMAIN f \cup {x} |-> IF y = x THEN v ELSE f[y]]
Without(f, S) == Restrict(f, DOMAIN f \ S)

\* What the lookup by mask may report: the first listed domain that the mask
\* meets decides.
lookupLogDomainByCPUMask(p, mask) ==
  LET met == {d \in log_domains_[p] : log_domains[d].mask \cap mask # {}} IN
  IF met = {} THEN {"NO"}
  ELSE {IF log_domains[d].mask = mask THEN "EXACT" ELSE "PARTIAL" : d \in met}

\* Mutant: streams of a domain are told apart by whether their masks meet.
lookupLogStreamByCPUMask_meeting(d, mask) ==
  {s \in log_streams_[d] : log_streams[s].mask \cap mask # {}}

\* The streams of a domain that have exactly this mask.
lookupLogStreamByCPUMask(d, mask) == {s \in log_streams_[d] : log_streams[s].mask = mask}

\* The counts of physical domain p, changed by v for the CPUs in mask.
modifyOversubscriptionArray(p, mask, v) ==
  [oversubscription_array_ EXCEPT ![p] =
     [c \in CPUs |-> IF c \in mask \cap MaxCPUMask(p) THEN @[c] + v ELSE @[c]]]

\* Logical streams in S are deleted: they let go of their physical streams, and
\* those that nobody holds any more are destroyed.
RefsAfter(ps, S) ==
  phys_streams[ps].refcount - Cardinality({s \in S : log_streams[s].phys_stream = ps})
Unreferenced(S) == {ps \in DOMAIN phys_streams : RefsAfter(ps, S) = 0}
PhysDomainOf(ps) == log_domains[phys_streams[ps].dom].phys
UsersOf(p, c) ==
  {ps \in DOMAIN phys_streams : PhysDomainOf(ps) = p /\ c \in phys_streams[ps].mask}

\* Mutant: the destructor does not tell the physical domain.
detach_uncounted(S) ==
  /\ phys_streams' = [ps \in DOMAIN phys_streams \ Unreferenced(S) |->
                        [phys_streams[ps] EXCEPT !.refcount = RefsAfter(ps, S)]]
  /\ UNCHANGED oversubscription_array_

detach(S) ==
  /\ phys_streams' = [ps \in DOMAIN phys_streams \ Unreferenced(S) |->
                        [phys_streams[ps] EXCEPT !.refcount = RefsAfter(ps, S)]]
  /\ oversubscription_array_' = [p \in PhysDomains |-> [c \in CPUs |->
       oversubscription_array_[p][c] - Cardinality(UsersOf(p, c) \cap Unreferenced(S))]]

-----------------------------------------------------------------------------
(* Logical domains.                                                        *)

\* Mutant: a partial overlap is not refused.
AddLogDomain_anyOverlap(p, mask) ==
  /\ next_log_dom_id <= MaxLogDomID
  /\ mask # {} /\ mask \subseteq MaxCPUMask(p)
  /\ next_log_dom_id' = next_log_dom_id + 1
  /\ log_domains' = Extend(log_domains, next_log_dom_id, [phys |-> p, mask |-> mask])
  /\ log_domains_' = [log_domains_ EXCEPT ![p] = @ \cup {next_log_dom_id}]
  /\ log_streams_' = Extend(log_streams_, next_log_dom_id, {})
  /\ UNCHANGED <<log_streams, phys_streams, oversubscription_array_, spoiled>>

\* A second domain may have exactly the mask of another.
AddLogDomain(p, mask) ==
  /\ next_log_dom_id <= MaxLogDomID
  /\ mask # {} /\ mask \subseteq MaxCPUMask(p)
  /\ \E overlap \in lookupLogDomainByCPUMask(p, mask) : overlap # "PARTIAL"
  /\ next_log_dom_id' = next_log_dom_id + 1
  /\ log_domains' = Extend(log_domains, next_log_dom_id, [phys |-> p, mask |-> mask])
  /\ log_domains_' = [log_domains_ EXCEPT ![p] = @ \cup {next_log_dom_id}]
  /\ log_streams_' = Extend(log_streams_, next_log_dom_id, {})
  /\ UNCHANGED <<log_streams, phys_streams, oversubscription_array_, spoiled>>

\* An incremental buffer cannot be instantiated: only the id is used up.
AddLogDomainFails ==
  /\ next_log_dom_id <= MaxLogDomID
  /\ next_log_dom_id' = next_log_dom_id + 1
  /\ UNCHANGED <<log_domains, log_domains_, streamVars>>

\* The domains of a list that are removed: it is worked through to the first id
\* that does not exist, or not any more.
Removed(ids) ==
  {ids[i] : i \in {j \in DOMAIN ids : \A k \in 1..j :
     ids[k] \in DOMAIN log_domains /\ \A l \in 1..(k - 1) : ids[l] # ids[k]}}

\* Mutant: the collection keeps the streams of the removed domains.
RmLogDomains_streamsKept(ids) ==
  LET S == UNION {log_streams_[d] : d \in Removed(ids)} IN
  /\ detach(S)
  /\ log_domains' = Without(log_domains, Removed(ids))
  /\ log_domains_' = [p \in PhysDomains |-> log_domains_[p] \ Removed(ids)]
  /\ log_streams_' = Without(log_streams_, Removed(ids))
  /\ UNCHANGED <<next_log_dom_id, log_streams, spoiled>>

\* The collection drops its streams by domain, and the streams on the domain's
\* own list are deleted.
RmLogDomains(ids) ==
  LET S == UNION {log_streams_[d] : d \in Removed(ids)} IN
  /\ detach(S)
  /\ log_streams' = Without(log_streams,
       {s \in DOMAIN log_streams : log_streams[s].dom \in Removed(ids)})
  /\ log_domains' = Without(log_domains, Removed(ids))
  /\ log_domains_' = [p \in PhysDomains |-> log_domains_[p] \ Removed(ids)]
  /\ log_streams_' = Without(log_streams_, Removed(ids))
  /\ UNCHANGED <<next_log_dom_id, spoiled>>

-----------------------------------------------------------------------------
(* Logical streams.                                                        *)

CanCreate(s, d, mask) ==
  /\ mask # {}
  /\ s \notin DOMAIN log_streams
  /\ d \in DOMAIN log_domains
  /\ mask \subseteq log_domains[d].mask

AddLogStream(s, d, mask, ps) ==
  /\ log_streams' = Extend(log_streams, s, [dom |-> d, mask |-> mask, phys_stream |-> ps])
  /\ log_streams_' = [log_streams_ EXCEPT ![d] = @ \cup {s}]

\* A stream of the domain has this mask: share its physical stream.
StreamCreateShared(s, d, mask) ==
  /\ CanCreate(s, d, mask)
  /\ \E other \in lookupLogStreamByCPUMask(d, mask) :
       /\ AddLogStream(s, d, mask, log_streams[other].phys_stream)
       /\ phys_streams' = [phys_streams EXCEPT ![log_streams[other].phys_stream].refcount = @ + 1]
  /\ UNCHANGED <<domainVars, oversubscription_array_, spoiled>>

\* Mutant: whoever made the physical stream does not let go of it.
StreamCreateNew_creatorHolds(s, d, mask) ==
  /\ CanCreate(s, d, mask)
  /\ lookupLogStreamByCPUMask(d, mask) = {}
  /\ \E ps \in PhysStreams \ DOMAIN phys_streams :
       /\ AddLogStream(s, d, mask, ps)
       /\ phys_streams' = Extend(phys_streams, ps, [dom |-> d, mask |-> mask, refcount |-> 2])
  /\ oversubscription_array_' = modifyOversubscriptionArray(log_domains[d].phys, mask, 1)
  /\ UNCHANGED <<domainVars, spoiled>>

\* A new physical stream is born with one reference, that of its maker, who lets
\* go once the logical stream has taken one.
StreamCreateNew(s, d, mask) ==
  /\ CanCreate(s, d, mask)
  /\ lookupLogStreamByCPUMask(d, mask) = {}
  /\ \E ps \in PhysStreams \ DOMAIN phys_streams :
       /\ AddLogStream(s, d, mask, ps)
       /\ phys_streams' = Extend(phys_streams, ps, [dom |-> d, mask |-> mask, refcount |-> 1])
  /\ oversubscription_array_' = modifyOversubscriptionArray(log_domains[d].phys, mask, 1)
  /\ UNCHANGED <<domainVars, spoiled>>

\* On a card the set-up of OpenMP fails after the physical stream was made: it is
\* deleted again, and its destructor takes it from counts it was never added to.
\* Bound: once between two Inits.
StreamCreateFails(s, d, mask) ==
  /\ spoiled = {}
  /\ CanCreate(s, d, mask)
  /\ lookupLogStreamByCPUMask(d, mask) = {}
  /\ log_domains[d].phys # HSTR_SRC_PHYS_DOMAIN
  /\ oversubscription_array_' = modifyOversubscriptionArray(log_domains[d].phys, mask, -1)
  /\ spoiled' = spoiled \cup ({log_domains[d].phys} \X mask)
  /\ UNCHANGED <<domainVars, log_streams, log_streams_, phys_streams>>

StreamDestroy(s) ==
  /\ s \in DOMAIN log_streams
  /\ detach({s})
  /\ log_streams' = Without(log_streams, {s})
  /\ log_streams_' = [log_streams_ EXCEPT ![log_streams[s].dom] = @ \ {s}]
  /\ UNCHANGED <<domainVars, spoiled>>

-----------------------------------------------------------------------------
\* A fresh registry: the source domain has no CPU and is on no list.
NoLists == [p \in PhysDomains |-> {}]
NoCounts == [p \in PhysDomains |-> [c \in CPUs |-> 0]]
SourceDomain == [d \in {HSTR_SRC_LOG_DOMAIN} |-> [phys |-> HSTR_SRC_PHYS_DOMAIN, mask |-> {}]]
SourceList == [d \in {HSTR_SRC_LOG_DOMAIN} |-> {}]
Empty == [x \in {} |-> {}]

\* Fini, and the next Init: the collection's streams are deleted before the
\* domains; a physical stream somebody still held would be left behind.
Fini ==
  /\ next_log_dom_id' = 1
  /\ log_domains' = SourceDomain
  /\ log_domains_' = NoLists
  /\ log_streams' = Empty
  /\ log_streams_' = SourceList
  /\ phys_streams' = Without(phys_streams, Unreferenced(DOMAIN log_streams))
  /\ oversubscription_array_' = NoCounts
  /\ spoiled' = {}

Init ==
  /\ next_log_dom_id = 1
  /\ log_domains = SourceDomain
  /\ log_domains_ = NoLists
  /\ log_streams = Empty
  /\ log_streams_ = SourceList
  /\ phys_streams = Empty
  /\ oversubscription_array_ = NoCounts
  /\ spoiled = {}

\* Lists of two ids show every way RmLogDomains goes on or stops.
IdLists == [1..2 -> LogDomIDs]

Next ==
  \/ \E p \in PhysDomains, mask \in SUBSET CPUs : AddLogDomain(p, mask)
  \/ AddLogDomainFails
  \/ \E ids \in IdLists : RmLogDomains(ids)
  \/ \E s \in LogStreamIDs, d \in LogDomIDs, mask \in SUBSET CPUs :
       \/ StreamCreateShared(s, d, mask)
       \/ StreamCreateNew(s, d, mask)
       \/ StreamCreateFails(s, d, mask)
  \/ \E s \in LogStreamIDs : StreamDestroy(s)
  \/ Fini

Spec == Init /\ [][Next]_vars

-----------------------------------------------------------------------------
(* Properties.                                                             *)

\* A domain has CPUs of its physical domain, a stream CPUs of its domain, and the
\* physical stream behind it the same domain and CPUs.
StreamsFit ==
  /\ \A d \in DOMAIN log_domains : log_domains[d].mask \subseteq MaxCPUMask(log_domains[d].phys)
  /\ \A s \in DOMAIN log_streams :
       /\ log_streams[s].mask \subseteq log_domains[log_streams[s].dom].mask
       /\ log_streams[s].phys_stream \in DOMAIN phys_streams
       /\ phys_streams[log_streams[s].phys_stream].dom = log_streams[s].dom
       /\ phys_streams[log_streams[s].phys_stream].mask = log_streams[s].mask

\* The collections and the lists of the domains tell the same story, what they
\* name exists, and it fits: no call that finds a domain or a stream in one of
\* them reaches another that is gone.
CollectionsAgree ==
  /\ \A p \in PhysDomains :
       log_domains_[p] = {d \in DOMAIN log_domains \ {HSTR_SRC_LOG_DOMAIN} : log_domains[d].phys = p}
  /\ \A s \in DOMAIN log_streams : log_streams[s].dom \in DOMAIN log_domains
  /\ \A d \in DOMAIN log_domains :
       log_streams_[d] = {s \in DOMAIN log_streams : log_streams[s].dom = d}
  /\ StreamsFit

\* The logical domains of a physical domain have the same CPUs or none in common.
MasksEqualOrDisjoint ==
  \A d, e \in DOMAIN log_domains :
    log_domains[d].phys = log_domains[e].phys =>
      \/ log_domains[d].mask = log_domains[e].mask
      \/ log_domains[d].mask \cap log_domains[e].mask = {}

\* Logical streams share a physical stream exactly when they have the logical
\* domain and the mask in common.
SharingIsExact ==
  \A s, t \in DOMAIN log_streams :
    (log_streams[s].phys_stream = log_streams[t].phys_stream)
      <=> (log_streams[s].dom = log_streams[t].dom /\ log_streams[s].mask = log_streams[t].mask)

Holders(ps) == {s \in DOMAIN log_streams : log_streams[s].phys_stream = ps}

\* A physical stream lives as long as a logical stream uses it and no longer,
\* and its count says how many do.
RefCountsMatch ==
  \A ps \in DOMAIN phys_streams :
    Holders(ps) # {} /\ phys_streams[ps].refcount = Cardinality(Holders(ps))

\* A hardware thread's count is the number of physical streams that may run on
\* it, and the thread is reported available when there are none, unless the
\* set-up of a stream on it has failed.
OversubscriptionMatches ==
  \A p \in PhysDomains, c \in CPUs :
    <<p, c>> \notin spoiled => oversubscription_array_[p][c] = Cardinality(UsersOf(p, c))
=============================================================================
