---------------------------- MODULE BufferInstances ----------------------------
(* Which logical buffers are instantiated for which logical domains:       *)
(* Alloc1DEx, AddBufferLogDomains, RmBufferLogDomains and DeAlloc, and what *)
(* AddLogDomain and RmLogDomains do to the buffers.  Aliased buffers share  *)
(* one instance, counted, between the logical domains of a physical domain. *)
(*                                                                         *)
(* Calls that attach domains one by one, and may fail on the way, take a    *)
(* step for each.  They hold the buffers' lock all the while (module        *)
(* ApiLocks), so one call runs at a time.                                   *)
(***************************************************************************)
EXTENDS Integers, FiniteSets, Functions

CONSTANTS
  Buffers,               \* start addresses of memory that does not overlap
  PhysDomains,           \* the active physical domains
  HSTR_SRC_PHYS_DOMAIN,  \* the one of the host
  MaxLogDomID            \* bound on the ids of logical domains

ASSUME PhysDomainAssumption == HSTR_SRC_PHYS_DOMAIN \in PhysDomains
ASSUME MaxLogDomAssumption == MaxLogDomID \in Nat

VARIABLES
  next_log_dom_id,  \* the id of the next logical domain
  log_domains,      \* the ids in the collection of logical domains
  phys_dom_,        \* the physical domain of each logical domain that exists
  log_buffers,      \* the addresses in the collection of logical buffers
  properties_,      \* the properties of each logical buffer that exists
  phys_buffers_,    \* the instance of <<buffer, logical domain>>, where attached
  instances,        \* physical domain and reference count of each instance
  call              \* the call that is attaching, or Idle

domainVars == <<next_log_dom_id, log_domains, phys_dom_>>
bufferVars == <<log_buffers, properties_>>
instanceVars == <<phys_buffers_, instances>>
vars == <<domainVars, bufferVars, instanceVars, call>>

LogDomIDs == 0..MaxLogDomID
HSTR_SRC_LOG_DOMAIN == 0
Props == [aliased : BOOLEAN, incremental : BOOLEAN]
Pairs == Buffers \X LogDomIDs
Empty == [x \in {} |-> {}]
Idle == [op |-> "none", asked |-> {}, done |-> {}, before |-> <<>>]

TypeOK ==
  /\ next_log_dom_id \in 1..(MaxLogDomID + 1)
  /\ DOMAIN phys_dom_ \subseteq 0..(next_log_dom_id - 1)
  /\ phys_dom_ \in [DOMAIN phys_dom_ -> PhysDomains]
  /\ log_domains \subseteq DOMAIN phys_dom_
  /\ DOMAIN properties_ \subseteq Buffers
  /\ properties_ \in [DOMAIN properties_ -> Props]
  /\ log_buffers \subseteq DOMAIN properties_
  /\ DOMAIN phys_buffers_ \subseteq Pairs
  /\ DOMAIN instances \subseteq Pairs
  /\ phys_buffers_ \in [DOMAIN phys_buffers_ -> Pairs]
  /\ instances \in [DOMAIN instances -> [phys : PhysDomains, refcount : Int]]
  /\ call.op \in {"none", "Alloc1DEx", "AddBufferLogDomains", "AddLogDomain"}
  /\ call.asked \subseteq Pairs /\ call.done \subseteq call.asked

-----------------------------------------------------------------------------
(* Attaching a buffer to a logical domain and detaching it.                *)

\* f with a value for one more argument, and f without those in S.
Extend(f, x, v) == [y \in DOMAIN f \cup {x} |-> IF y = x THEN v ELSE f[y]]
Without(f, S) == Restrict(f, DOMAIN f \ S)

\* Mutant: an aliased buffer takes any instance there is.
Aliasing_anywhere(b, d) ==
  {x \in DOMAIN phys_buffers_ : x[1] = b /\ properties_[b].aliased}

\* What an aliased buffer is attached to on the physical domain of d.
Aliasing(b, d) ==
  {x \in DOMAIN phys_buffers_ :
     x[1] = b /\ properties_[b].aliased /\ phys_dom_[x[2]] = phys_dom_[d]}

\* Mutant: the instance is not told of its new holder.
tryAttachToAliasingBuffer_uncounted(b, d) ==
  \E x \in Aliasing(b, d) :
    /\ phys_buffers_' = Extend(phys_buffers_, <<b, d>>, phys_buffers_[x])
    /\ UNCHANGED instances

tryAttachToAliasingBuffer(b, d) ==
  \E x \in Aliasing(b, d) :
    /\ phys_buffers_' = Extend(phys_buffers_, <<b, d>>, phys_buffers_[x])
    /\ instances' = [instances EXCEPT ![phys_buffers_[x]].refcount = @ + 1]

\* An instance is named after the pair it is made for; whoever makes it is the
\* first to hold it.
NewInstance(b, d) ==
  /\ Aliasing(b, d) = {}
  /\ phys_buffers_' = Extend(phys_buffers_, <<b, d>>, <<b, d>>)
  /\ instances' = Extend(instances, <<b, d>>, [phys |-> phys_dom_[d], refcount |-> 1])

attachExistingLogDomain(b, d) ==
  /\ <<b, d>> \notin DOMAIN phys_buffers_
  /\ tryAttachToAliasingBuffer(b, d) \/ NewInstance(b, d)

\* The attachment is there already, or COI or the allocator refuses an instance.
attachMayFail(b, d) == <<b, d>> \in DOMAIN phys_buffers_ \/ Aliasing(b, d) = {}

\* The attachments in S end; instances that nobody holds any more are destroyed.
RefsAfter(i, S) ==
  instances[i].refcount
    - Cardinality({x \in S \cap DOMAIN phys_buffers_ : phys_buffers_[x] = i})

detach(S) ==
  /\ phys_buffers_' = Without(phys_buffers_, S)
  /\ instances' = [i \in {j \in DOMAIN instances : RefsAfter(j, S) # 0} |->
                     [instances[i] EXCEPT !.refcount = RefsAfter(i, S)]]

-----------------------------------------------------------------------------
(* Calls that attach.                                                      *)

State == <<log_domains, log_buffers, phys_buffers_, instances>>

Begin(op, asked) ==
  /\ call = Idle
  /\ call' = [op |-> op, asked |-> asked, done |-> {}, before |-> State]

\* Attach all of them (-1), or those listed and the source, which is then looked
\* up and dereferenced whether there is one or not.
Alloc1DEx(b, props, doms) ==
  /\ b \notin log_buffers
  /\ doms = log_domains \/ HSTR_SRC_LOG_DOMAIN \in doms
  /\ Begin("Alloc1DEx", {b} \X doms)
  /\ properties_' = Extend(properties_, b, props)
  /\ UNCHANGED <<domainVars, log_buffers, instanceVars>>

AddBufferLogDomains(b, doms) ==
  /\ b \in log_buffers
  /\ doms # {} /\ HSTR_SRC_LOG_DOMAIN \notin doms
  /\ ({b} \X doms) \cap DOMAIN phys_buffers_ = {}
  /\ Begin("AddBufferLogDomains", {b} \X doms)
  /\ UNCHANGED <<domainVars, bufferVars, instanceVars>>

\* The new domain is a candidate for the incremental buffers.
AddLogDomain(p) ==
  /\ next_log_dom_id <= MaxLogDomID
  /\ Begin("AddLogDomain", {b \in log_buffers : properties_[b].incremental} \X {next_log_dom_id})
  /\ next_log_dom_id' = next_log_dom_id + 1
  /\ phys_dom_' = Extend(phys_dom_, next_log_dom_id, p)
  /\ UNCHANGED <<log_domains, bufferVars, instanceVars>>

Attach ==
  /\ \E x \in call.asked \ call.done :
       /\ attachExistingLogDomain(x[1], x[2])
       /\ call' = [call EXCEPT !.done = @ \cup {x}]
  /\ UNCHANGED <<domainVars, bufferVars>>

\* Mutant: what was attached before the failure stays.
AttachRangeFails_noRevert ==
  /\ call.op \in {"Alloc1DEx", "AddBufferLogDomains"}
  /\ \E x \in call.asked \ call.done : attachMayFail(x[1], x[2])
  /\ call' = Idle
  /\ properties_' = Restrict(properties_, log_buffers)
  /\ UNCHANGED <<instanceVars, domainVars, log_buffers>>

\* What the call has attached is detached, and a new buffer, by then without an
\* instance, is forgotten.
AttachRangeFails ==
  /\ call.op \in {"Alloc1DEx", "AddBufferLogDomains"}
  /\ \E x \in call.asked \ call.done : attachMayFail(x[1], x[2])
  /\ detach(call.done)
  /\ call' = Idle
  /\ properties_' = Restrict(properties_, log_buffers)
  /\ UNCHANGED <<domainVars, log_buffers>>

\* Every buffer is detached from the new domain, which is deleted.
AddLogDomainFails ==
  /\ call.op = "AddLogDomain"
  /\ \E x \in call.asked \ call.done : attachMayFail(x[1], x[2])
  /\ detach(log_buffers \X (DOMAIN phys_dom_ \ log_domains))
  /\ call' = Idle
  /\ phys_dom_' = Restrict(phys_dom_, log_domains)
  /\ UNCHANGED <<next_log_dom_id, log_domains, bufferVars>>

\* All is attached: a new buffer or domain enters its collection.
Return ==
  /\ call # Idle /\ call.done = call.asked
  /\ call' = Idle
  /\ log_buffers' = DOMAIN properties_
  /\ log_domains' = DOMAIN phys_dom_
  /\ UNCHANGED <<next_log_dom_id, phys_dom_, properties_, instanceVars>>

-----------------------------------------------------------------------------
(* Calls that only detach.                                                 *)

\* A list must name domains the buffer is instantiated for, the source not among
\* them; -1 detaches them all, the source too.
RmBufferLogDomains(b, doms) ==
  /\ call = Idle
  /\ b \in log_buffers
  /\ \/ doms = LogDomIDs
     \/ doms # {} /\ HSTR_SRC_LOG_DOMAIN \notin doms /\ {b} \X doms \subseteq DOMAIN phys_buffers_
  /\ detach({b} \X doms)
  /\ UNCHANGED <<domainVars, bufferVars, call>>

DeAlloc(b) ==
  /\ call = Idle
  /\ b \in log_buffers
  /\ detach({b} \X LogDomIDs)
  /\ log_buffers' = log_buffers \ {b}
  /\ properties_' = Without(properties_, {b})
  /\ UNCHANGED <<domainVars, call>>

\* Mutant: the buffers are not told.
RmLogDomains_buffersNotTold(doms) ==
  /\ call = Idle
  /\ doms # {} /\ doms \subseteq log_domains
  /\ log_domains' = log_domains \ doms
  /\ phys_dom_' = Without(phys_dom_, doms)
  /\ UNCHANGED <<next_log_dom_id, bufferVars, instanceVars, call>>

\* Of the list, the domains up to the first id that does not exist.
RmLogDomains(doms) ==
  /\ call = Idle
  /\ doms # {} /\ doms \subseteq log_domains
  /\ detach(log_buffers \X doms)
  /\ log_domains' = log_domains \ doms
  /\ phys_dom_' = Without(phys_dom_, doms)
  /\ UNCHANGED <<next_log_dom_id, bufferVars, call>>

\* Fini, and the next Init.
Fini ==
  /\ call = Idle
  /\ detach(log_buffers \X LogDomIDs)
  /\ next_log_dom_id' = 1
  /\ log_domains' = {HSTR_SRC_LOG_DOMAIN}
  /\ phys_dom_' = [d \in {HSTR_SRC_LOG_DOMAIN} |-> HSTR_SRC_PHYS_DOMAIN]
  /\ log_buffers' = {}
  /\ properties_' = Empty
  /\ UNCHANGED call

-----------------------------------------------------------------------------
Init ==
  /\ next_log_dom_id = 1
  /\ log_domains = {HSTR_SRC_LOG_DOMAIN}
  /\ phys_dom_ = [d \in {HSTR_SRC_LOG_DOMAIN} |-> HSTR_SRC_PHYS_DOMAIN]
  /\ log_buffers = {}
  /\ properties_ = Empty
  /\ phys_buffers_ = Empty
  /\ instances = Empty
  /\ call = Idle

Next ==
  \/ \E b \in Buffers, props \in Props, doms \in SUBSET log_domains : Alloc1DEx(b, props, doms)
  \/ \E b \in Buffers, doms \in SUBSET log_domains : AddBufferLogDomains(b, doms)
  \/ \E p \in PhysDomains : AddLogDomain(p)
  \/ Attach
  \/ AttachRangeFails
  \/ AddLogDomainFails
  \/ Return
  \/ \E b \in Buffers, doms \in SUBSET LogDomIDs : RmBufferLogDomains(b, doms)
  \/ \E b \in Buffers : DeAlloc(b)
  \/ \E doms \in SUBSET log_domains : RmLogDomains(doms)
  \/ Fini

Spec == Init /\ [][Next]_vars

-----------------------------------------------------------------------------
(* Properties.                                                             *)

Holders(i) == {x \in DOMAIN phys_buffers_ : phys_buffers_[x] = i}

\* An instance lives as long as an attachment uses it and no longer, and its
\* count says how many do, also halfway through a call and after a roll-back.
RefCountsMatch ==
  \A i \in DOMAIN instances :
    Holders(i) # {} /\ instances[i].refcount = Cardinality(Holders(i))

\* No attachment outlives its buffer, its logical domain or its instance, and the
\* instance is one of that buffer, on the physical domain of that logical domain.
NothingDangles ==
  \A x \in DOMAIN phys_buffers_ :
    /\ x[1] \in DOMAIN properties_
    /\ x[2] \in DOMAIN phys_dom_
    /\ phys_buffers_[x] \in DOMAIN instances
    /\ phys_buffers_[x][1] = x[1]
    /\ instances[phys_buffers_[x]].phys = phys_dom_[x[2]]

\* Two logical domains use one instance of a buffer exactly when the buffer is
\* aliased and they lie on the same physical domain.
SharingIsExact ==
  \A x, y \in DOMAIN phys_buffers_ :
    (phys_buffers_[x] = phys_buffers_[y])
      <=> \/ x = y
          \/ x[1] = y[1] /\ properties_[x[1]].aliased /\ phys_dom_[x[2]] = phys_dom_[y[2]]

\* A call that attaches does all it was asked to and enters its new buffer or
\* domain into the collection, or it leaves collections, attachments and counts
\* as it found them.
AllOrNothing ==
  [][(call # Idle /\ call' = Idle) =>
       \/ State' = call.before
       \/ /\ DOMAIN phys_buffers_' = DOMAIN call.before[3] \cup call.asked
          /\ \A x \in DOMAIN call.before[3] : phys_buffers_'[x] = call.before[3][x]
          /\ \A x \in call.asked : x[1] \in log_buffers' /\ x[2] \in log_domains']_vars
=============================================================================
