--------------------------- MODULE PublicApiProofs ---------------------------
(***************************************************************************)
(* Proofs about ApiLocks and about PublicApi, which composes it with       *)
(* Lifecycle.                                                              *)
(*                                                                         *)
(* ApiLocks: for any callers and any calls of the API, no two bodies get   *)
(* at the same structure when one changes it, and the callers never all    *)
(* wait.  The first rests on what the footprints have in common (Guarded)  *)
(* and on locks being exclusive (Exclusive, inductive together with        *)
(* TypeOK); the second on the one order in which every call takes its      *)
(* locks (Ordered).                                                        *)
(*                                                                         *)
(* PublicApi: seen by its locks the composition does what ApiLocks allows, *)
(* and seen by its count what Lifecycle allows; so what is proved of the   *)
(* two holds of it.  That Fini meets nobody follows from both halves: a    *)
(* caller in a body has passed its wrapper (InStep), and nobody Fini waits *)
(* for is left when Fini goes on (Lifecycle).                              *)
(***************************************************************************)
EXTENDS PublicApi, FiniteSetTheorems, TLAPS

-----------------------------------------------------------------------------
(* ApiLocks: what every call has in common.                                *)

LockSet(a) == {a.locks[i] : i \in 1..Len(a.locks)}
Has(a, l) == Read(l) \in LockSet(a) \/ Write(l) \in LockSet(a)

\* What a call touches it has a lock for, and what it changes a lock that keeps
\* those out who touch the same.
Guarded(a) ==
  /\ "phys_domains" \notin a.writes
  /\ \A s \in Locks \ {"phys_domains"} :
       /\ s \in a.reads => Has(a, s)
       /\ s \in a.writes => Write(s) \in LockSet(a)
  /\ "instances" \in a.reads => Has(a, "log_domains") /\ Has(a, "log_buffers")
  /\ "instances" \in a.writes =>
       \/ Write("log_domains") \in LockSet(a)
       \/ Has(a, "log_domains") /\ Write("log_buffers") \in LockSet(a)

Rank(l) ==
  CASE l = "phys_domains" -> 1
    [] l = "log_domains" -> 2
    [] l = "log_streams" -> 3
    [] l = "log_buffers" -> 4
    [] l = "options" -> 5
    [] OTHER -> 6

\* Locks are taken in one order, and options are looked up last.
Ordered(a) ==
  /\ \A i, j \in 1..Len(a.locks) : i < j => Rank(a.locks[i].lock) < Rank(a.locks[j].lock)
  /\ a.asks => \A i \in 1..Len(a.locks) : Rank(a.locks[i].lock) < 5

LockModes == [lock : Locks, mode : {"READ", "WRITE"}]

Footprint(a) ==
  /\ a.locks \in Seq(LockModes)
  /\ a.reads \subseteq Structures
  /\ a.writes \subseteq Structures
  /\ a.asks \in BOOLEAN
  /\ Guarded(a)
  /\ Ordered(a)

\* Reading and writing a lock are modes in which a call may hold it.
LEMMA LockModesType == \A l \in Locks : Read(l) \in LockModes /\ Write(l) \in LockModes
  BY DEF Read, Write, LockModes

\* The locks of a call, as a sequence and as a set, in order.
LEMMA Shape1 ==
  ASSUME NEW a, a.locks = <<Read("phys_domains")>>
  PROVE  /\ a.locks \in Seq(LockModes)
         /\ LockSet(a) = {Read("phys_domains")}
         /\ \A i, j \in 1..Len(a.locks) :
              i < j => Rank(a.locks[i].lock) < Rank(a.locks[j].lock)
         /\ \A i \in 1..Len(a.locks) : Rank(a.locks[i].lock) < 5
  BY LockModesType DEF Locks, LockSet, Read, Write, Rank

\* The locks of a call, as a sequence and as a set, in order.
LEMMA Shape2 ==
  ASSUME NEW a, a.locks = <<Read("phys_domains"), Read("log_domains"), Read("log_streams")>>
  PROVE  /\ a.locks \in Seq(LockModes)
         /\ LockSet(a) = {Read("phys_domains"), Read("log_domains"), Read("log_streams")}
         /\ \A i, j \in 1..Len(a.locks) :
              i < j => Rank(a.locks[i].lock) < Rank(a.locks[j].lock)
         /\ \A i \in 1..Len(a.locks) : Rank(a.locks[i].lock) < 5
  BY LockModesType DEF Locks, LockSet, Read, Write, Rank

\* The locks of a call, as a sequence and as a set, in order.
LEMMA Shape3 ==
  ASSUME NEW a, a.locks = <<Read("phys_domains"), Read("log_domains")>>
  PROVE  /\ a.locks \in Seq(LockModes)
         /\ LockSet(a) = {Read("phys_domains"), Read("log_domains")}
         /\ \A i, j \in 1..Len(a.locks) :
              i < j => Rank(a.locks[i].lock) < Rank(a.locks[j].lock)
         /\ \A i \in 1..Len(a.locks) : Rank(a.locks[i].lock) < 5
  BY LockModesType DEF Locks, LockSet, Read, Write, Rank

\* The locks of a call, as a sequence and as a set, in order.
LEMMA Shape4 ==
  ASSUME NEW a, a.locks = <<Read("phys_domains"), Write("log_domains"), Read("log_streams"), Write("log_buffers")>>
  PROVE  /\ a.locks \in Seq(LockModes)
         /\ LockSet(a) = {Read("phys_domains"), Write("log_domains"), Read("log_streams"), Write("log_buffers")}
         /\ \A i, j \in 1..Len(a.locks) :
              i < j => Rank(a.locks[i].lock) < Rank(a.locks[j].lock)
         /\ \A i \in 1..Len(a.locks) : Rank(a.locks[i].lock) < 5
  BY LockModesType DEF Locks, LockSet, Read, Write, Rank

\* The locks of a call, as a sequence and as a set, in order.
LEMMA Shape5 ==
  ASSUME NEW a, a.locks = <<Read("phys_domains"), Write("log_domains"), Write("log_streams"), Read("log_buffers")>>
  PROVE  /\ a.locks \in Seq(LockModes)
         /\ LockSet(a) = {Read("phys_domains"), Write("log_domains"), Write("log_streams"), Read("log_buffers")}
         /\ \A i, j \in 1..Len(a.locks) :
              i < j => Rank(a.locks[i].lock) < Rank(a.locks[j].lock)
         /\ \A i \in 1..Len(a.locks) : Rank(a.locks[i].lock) < 5
  BY LockModesType DEF Locks, LockSet, Read, Write, Rank

\* The locks of a call, as a sequence and as a set, in order.
LEMMA Shape6 ==
  ASSUME NEW a, a.locks = <<Read("phys_domains"), Read("log_domains"), Write("log_streams")>>
  PROVE  /\ a.locks \in Seq(LockModes)
         /\ LockSet(a) = {Read("phys_domains"), Read("log_domains"), Write("log_streams")}
         /\ \A i, j \in 1..Len(a.locks) :
              i < j => Rank(a.locks[i].lock) < Rank(a.locks[j].lock)
         /\ \A i \in 1..Len(a.locks) : Rank(a.locks[i].lock) < 5
  BY LockModesType DEF Locks, LockSet, Read, Write, Rank

\* The locks of a call, as a sequence and as a set, in order.
LEMMA Shape7 ==
  ASSUME NEW a, a.locks = <<Read("phys_domains"), Read("log_domains"), Read("log_streams"), Read("log_buffers")>>
  PROVE  /\ a.locks \in Seq(LockModes)
         /\ LockSet(a) = {Read("phys_domains"), Read("log_domains"), Read("log_streams"), Read("log_buffers")}
         /\ \A i, j \in 1..Len(a.locks) :
              i < j => Rank(a.locks[i].lock) < Rank(a.locks[j].lock)
         /\ \A i \in 1..Len(a.locks) : Rank(a.locks[i].lock) < 5
  BY LockModesType DEF Locks, LockSet, Read, Write, Rank

\* The locks of a call, as a sequence and as a set, in order.
LEMMA Shape8 ==
  ASSUME NEW a, a.locks = <<Read("phys_domains"), Read("log_domains"), Write("log_streams"), Read("log_buffers")>>
  PROVE  /\ a.locks \in Seq(LockModes)
         /\ LockSet(a) = {Read("phys_domains"), Read("log_domains"), Write("log_streams"), Read("log_buffers")}
         /\ \A i, j \in 1..Len(a.locks) :
              i < j => Rank(a.locks[i].lock) < Rank(a.locks[j].lock)
         /\ \A i \in 1..Len(a.locks) : Rank(a.locks[i].lock) < 5
  BY LockModesType DEF Locks, LockSet, Read, Write, Rank

\* The locks of a call, as a sequence and as a set, in order.
LEMMA Shape9 ==
  ASSUME NEW a, a.locks = <<>>
  PROVE  /\ a.locks \in Seq(LockModes)
         /\ LockSet(a) = {}
         /\ \A i, j \in 1..Len(a.locks) :
              i < j => Rank(a.locks[i].lock) < Rank(a.locks[j].lock)
         /\ \A i \in 1..Len(a.locks) : Rank(a.locks[i].lock) < 5
  BY LockModesType DEF Locks, LockSet, Read, Write, Rank

\* The locks of a call, as a sequence and as a set, in order.
LEMMA Shape10 ==
  ASSUME NEW a, a.locks = <<Read("phys_domains"), Read("log_domains"), Read("log_streams"), Write("log_buffers")>>
  PROVE  /\ a.locks \in Seq(LockModes)
         /\ LockSet(a) = {Read("phys_domains"), Read("log_domains"), Read("log_streams"), Write("log_buffers")}
         /\ \A i, j \in 1..Len(a.locks) :
              i < j => Rank(a.locks[i].lock) < Rank(a.locks[j].lock)
         /\ \A i \in 1..Len(a.locks) : Rank(a.locks[i].lock) < 5
  BY LockModesType DEF Locks, LockSet, Read, Write, Rank

\* The locks of a call, as a sequence and as a set, in order.
LEMMA Shape11 ==
  ASSUME NEW a, a.locks = <<Read("options")>>
  PROVE  /\ a.locks \in Seq(LockModes)
         /\ LockSet(a) = {Read("options")}
         /\ \A i, j \in 1..Len(a.locks) :
              i < j => Rank(a.locks[i].lock) < Rank(a.locks[j].lock)
  BY LockModesType DEF Locks, LockSet, Read, Write, Rank

\* The locks of a call, as a sequence and as a set, in order.
LEMMA Shape12 ==
  ASSUME NEW a, a.locks = <<Write("options"), Write("libraries_to_load")>>
  PROVE  /\ a.locks \in Seq(LockModes)
         /\ LockSet(a) = {Write("options"), Write("libraries_to_load")}
         /\ \A i, j \in 1..Len(a.locks) :
              i < j => Rank(a.locks[i].lock) < Rank(a.locks[j].lock)
  BY LockModesType DEF Locks, LockSet, Read, Write, Rank

\* The locks of a call, as a sequence and as a set, in order.
LEMMA Shape13 ==
  ASSUME NEW a, a.locks = <<Write("libraries_to_load")>>
  PROVE  /\ a.locks \in Seq(LockModes)
         /\ LockSet(a) = {Write("libraries_to_load")}
         /\ \A i, j \in 1..Len(a.locks) :
              i < j => Rank(a.locks[i].lock) < Rank(a.locks[j].lock)
  BY LockModesType DEF Locks, LockSet, Read, Write, Rank

\* Every call of the interface has its locks in order and holds those of what it touches.
LEMMA Footprints == \A a \in ApiCalls : Footprint(a)
<1>1. Footprint(GetNumPhysDomains)
  <2>1. /\ GetNumPhysDomains.locks = <<Read("phys_domains")>>
        /\ GetNumPhysDomains.reads = {"phys_domains"} /\ GetNumPhysDomains.writes = {}
        /\ GetNumPhysDomains.asks = FALSE
    BY DEF GetNumPhysDomains, Call
  <2>2. QED
    BY <2>1, Shape1 DEF Footprint, Guarded, Ordered, Has, Structures, Locks, Read, Write
<1>2. Footprint(GetPhysDomainDetails)
  <2>1. /\ GetPhysDomainDetails.locks = <<Read("phys_domains")>>
        /\ GetPhysDomainDetails.reads = {"phys_domains"} /\ GetPhysDomainDetails.writes = {}
        /\ GetPhysDomainDetails.asks = FALSE
    BY DEF GetPhysDomainDetails, Call
  <2>2. QED
    BY <2>1, Shape1 DEF Footprint, Guarded, Ordered, Has, Structures, Locks, Read, Write
<1>3. Footprint(GetOversubscriptionLevel)
  <2>1. /\ GetOversubscriptionLevel.locks = <<Read("phys_domains"), Read("log_domains"), Read("log_streams")>>
        /\ GetOversubscriptionLevel.reads = {"phys_domains", "log_streams"} /\ GetOversubscriptionLevel.writes = {}
        /\ GetOversubscriptionLevel.asks = FALSE
    BY DEF GetOversubscriptionLevel, Call
  <2>2. QED
    BY <2>1, Shape2 DEF Footprint, Guarded, Ordered, Has, Structures, Locks, Read, Write
<1>4. Footprint(GetAvailable)
  <2>1. /\ GetAvailable.locks = <<Read("phys_domains"), Read("log_domains"), Read("log_streams")>>
        /\ GetAvailable.reads = {"phys_domains", "log_streams"} /\ GetAvailable.writes = {}
        /\ GetAvailable.asks = FALSE
    BY DEF GetAvailable, Call
  <2>2. QED
    BY <2>1, Shape2 DEF Footprint, Guarded, Ordered, Has, Structures, Locks, Read, Write
<1>5. Footprint(GetNumLogDomains)
  <2>1. /\ GetNumLogDomains.locks = <<Read("phys_domains"), Read("log_domains")>>
        /\ GetNumLogDomains.reads = {"phys_domains", "log_domains"} /\ GetNumLogDomains.writes = {}
        /\ GetNumLogDomains.asks = FALSE
    BY DEF GetNumLogDomains, Call
  <2>2. QED
    BY <2>1, Shape3 DEF Footprint, Guarded, Ordered, Has, Structures, Locks, Read, Write
<1>6. Footprint(GetLogDomainIDList)
  <2>1. /\ GetLogDomainIDList.locks = <<Read("phys_domains"), Read("log_domains")>>
        /\ GetLogDomainIDList.reads = {"phys_domains", "log_domains"} /\ GetLogDomainIDList.writes = {}
        /\ GetLogDomainIDList.asks = FALSE
    BY DEF GetLogDomainIDList, Call
  <2>2. QED
    BY <2>1, Shape3 DEF Footprint, Guarded, Ordered, Has, Structures, Locks, Read, Write
<1>7. Footprint(GetLogDomainDetails)
  <2>1. /\ GetLogDomainDetails.locks = <<Read("phys_domains"), Read("log_domains")>>
        /\ GetLogDomainDetails.reads = {"phys_domains", "log_domains"} /\ GetLogDomainDetails.writes = {}
        /\ GetLogDomainDetails.asks = FALSE
    BY DEF GetLogDomainDetails, Call
  <2>2. QED
    BY <2>1, Shape3 DEF Footprint, Guarded, Ordered, Has, Structures, Locks, Read, Write
<1>8. Footprint(GetNumLogStreams)
  <2>1. /\ GetNumLogStreams.locks = <<Read("phys_domains"), Read("log_domains"), Read("log_streams")>>
        /\ GetNumLogStreams.reads = {"log_domains", "log_streams"} /\ GetNumLogStreams.writes = {}
        /\ GetNumLogStreams.asks = FALSE
    BY DEF GetNumLogStreams, Call
  <2>2. QED
    BY <2>1, Shape2 DEF Footprint, Guarded, Ordered, Has, Structures, Locks, Read, Write
<1>9. Footprint(GetLogStreamIDList)
  <2>1. /\ GetLogStreamIDList.locks = <<Read("phys_domains"), Read("log_domains"), Read("log_streams")>>
        /\ GetLogStreamIDList.reads = {"log_domains", "log_streams"} /\ GetLogStreamIDList.writes = {}
        /\ GetLogStreamIDList.asks = FALSE
    BY DEF GetLogStreamIDList, Call
  <2>2. QED
    BY <2>1, Shape2 DEF Footprint, Guarded, Ordered, Has, Structures, Locks, Read, Write
<1>10. Footprint(GetLogStreamDetails)
  <2>1. /\ GetLogStreamDetails.locks = <<Read("phys_domains"), Read("log_domains"), Read("log_streams")>>
        /\ GetLogStreamDetails.reads = {"log_streams"} /\ GetLogStreamDetails.writes = {}
        /\ GetLogStreamDetails.asks = FALSE
    BY DEF GetLogStreamDetails, Call
  <2>2. QED
    BY <2>1, Shape2 DEF Footprint, Guarded, Ordered, Has, Structures, Locks, Read, Write
<1>11. Footprint(AddLogDomain)
  <2>1. /\ AddLogDomain.locks = <<Read("phys_domains"), Write("log_domains"), Read("log_streams"), Write("log_buffers")>>
        /\ AddLogDomain.reads = {"phys_domains", "log_buffers"} /\ AddLogDomain.writes = {"log_domains", "instances"}
        /\ AddLogDomain.asks = FALSE
    BY DEF AddLogDomain, Call
  <2>2. QED
    BY <2>1, Shape4 DEF Footprint, Guarded, Ordered, Has, Structures, Locks, Read, Write
<1>12. Footprint(RmLogDomains)
  <2>1. /\ RmLogDomains.locks = <<Read("phys_domains"), Write("log_domains"), Write("log_streams"), Read("log_buffers")>>
        /\ RmLogDomains.reads = {"log_buffers"} /\ RmLogDomains.writes = {"log_domains", "log_streams", "instances"}
        /\ RmLogDomains.asks = FALSE
    BY DEF RmLogDomains, Call
  <2>2. QED
    BY <2>1, Shape5 DEF Footprint, Guarded, Ordered, Has, Structures, Locks, Read, Write
<1>13. Footprint(StreamCreate)
  <2>1. /\ StreamCreate.locks = <<Read("phys_domains"), Read("log_domains"), Write("log_streams")>>
        /\ StreamCreate.reads = {"phys_domains", "log_domains"} /\ StreamCreate.writes = {"log_streams"}
        /\ StreamCreate.asks = TRUE
    BY DEF StreamCreate, Call
  <2>2. QED
    BY <2>1, Shape6 DEF Footprint, Guarded, Ordered, Has, Structures, Locks, Read, Write
<1>14. Footprint(StreamDestroy)
  <2>1. /\ StreamDestroy.locks = <<Read("phys_domains"), Read("log_domains"), Write("log_streams")>>
        /\ StreamDestroy.reads = {"log_domains"} /\ StreamDestroy.writes = {"log_streams"}
        /\ StreamDestroy.asks = FALSE
    BY DEF StreamDestroy, Call
  <2>2. QED
    BY <2>1, Shape6 DEF Footprint, Guarded, Ordered, Has, Structures, Locks, Read, Write
<1>15. Footprint(EnqueueCompute)
  <2>1. /\ EnqueueCompute.locks = <<Read("phys_domains"), Read("log_domains"), Read("log_streams"), Read("log_buffers")>>
        /\ EnqueueCompute.reads = {"phys_domains", "log_domains", "log_streams", "log_buffers", "instances"} /\ EnqueueCompute.writes = {}
        /\ EnqueueCompute.asks = TRUE
    BY DEF EnqueueCompute, Call
  <2>2. QED
    BY <2>1, Shape7 DEF Footprint, Guarded, Ordered, Has, Structures, Locks, Read, Write
<1>16. Footprint(EnqueueData1D)
  <2>1. /\ EnqueueData1D.locks = <<Read("phys_domains"), Read("log_domains"), Read("log_streams"), Read("log_buffers")>>
        /\ EnqueueData1D.reads = {"log_domains", "log_streams", "log_buffers", "instances"} /\ EnqueueData1D.writes = {}
        /\ EnqueueData1D.asks = TRUE
    BY DEF EnqueueData1D, Call
  <2>2. QED
    BY <2>1, Shape7 DEF Footprint, Guarded, Ordered, Has, Structures, Locks, Read, Write
<1>17. Footprint(EnqueueDataXDomain1D)
  <2>1. /\ EnqueueDataXDomain1D.locks = <<Read("phys_domains"), Read("log_domains"), Read("log_streams"), Read("log_buffers")>>
        /\ EnqueueDataXDomain1D.reads = {"log_domains", "log_streams", "log_buffers", "instances"} /\ EnqueueDataXDomain1D.writes = {}
        /\ EnqueueDataXDomain1D.asks = TRUE
    BY DEF EnqueueDataXDomain1D, Call
  <2>2. QED
    BY <2>1, Shape7 DEF Footprint, Guarded, Ordered, Has, Structures, Locks, Read, Write
<1>18. Footprint(EventStreamWait)
  <2>1. /\ EventStreamWait.locks = <<Read("phys_domains"), Read("log_domains"), Read("log_streams"), Read("log_buffers")>>
        /\ EventStreamWait.reads = {"log_domains", "log_streams", "log_buffers", "instances"} /\ EventStreamWait.writes = {}
        /\ EventStreamWait.asks = TRUE
    BY DEF EventStreamWait, Call
  <2>2. QED
    BY <2>1, Shape7 DEF Footprint, Guarded, Ordered, Has, Structures, Locks, Read, Write
<1>19. Footprint(StreamSynchronize)
  <2>1. /\ StreamSynchronize.locks = <<Read("phys_domains"), Read("log_domains"), Write("log_streams"), Read("log_buffers")>>
        /\ StreamSynchronize.reads = {"log_streams"} /\ StreamSynchronize.writes = {}
        /\ StreamSynchronize.asks = TRUE
    BY DEF StreamSynchronize, Call
  <2>2. QED
    BY <2>1, Shape8 DEF Footprint, Guarded, Ordered, Has, Structures, Locks, Read, Write
<1>20. Footprint(ThreadSynchronize)
  <2>1. /\ ThreadSynchronize.locks = <<Read("phys_domains"), Read("log_domains"), Write("log_streams"), Read("log_buffers")>>
        /\ ThreadSynchronize.reads = {"log_streams"} /\ ThreadSynchronize.writes = {}
        /\ ThreadSynchronize.asks = TRUE
    BY DEF ThreadSynchronize, Call
  <2>2. QED
    BY <2>1, Shape8 DEF Footprint, Guarded, Ordered, Has, Structures, Locks, Read, Write
<1>21. Footprint(EventWait)
  <2>1. /\ EventWait.locks = <<>>
        /\ EventWait.reads = {} /\ EventWait.writes = {}
        /\ EventWait.asks = TRUE
    BY DEF EventWait, Call
  <2>2. QED
    BY <2>1, Shape9 DEF Footprint, Guarded, Ordered, Has, Structures, Locks, Read, Write
<1>22. Footprint(Alloc1DEx)
  <2>1. /\ Alloc1DEx.locks = <<Read("phys_domains"), Read("log_domains"), Read("log_streams"), Write("log_buffers")>>
        /\ Alloc1DEx.reads = {"log_domains"} /\ Alloc1DEx.writes = {"log_buffers", "instances"}
        /\ Alloc1DEx.asks = FALSE
    BY DEF Alloc1DEx, Call
  <2>2. QED
    BY <2>1, Shape10 DEF Footprint, Guarded, Ordered, Has, Structures, Locks, Read, Write
<1>23. Footprint(AddBufferLogDomains)
  <2>1. /\ AddBufferLogDomains.locks = <<Read("phys_domains"), Read("log_domains"), Read("log_streams"), Write("log_buffers")>>
        /\ AddBufferLogDomains.reads = {"log_domains", "log_buffers"} /\ AddBufferLogDomains.writes = {"instances"}
        /\ AddBufferLogDomains.asks = FALSE
    BY DEF AddBufferLogDomains, Call
  <2>2. QED
    BY <2>1, Shape10 DEF Footprint, Guarded, Ordered, Has, Structures, Locks, Read, Write
<1>24. Footprint(RmBufferLogDomains)
  <2>1. /\ RmBufferLogDomains.locks = <<Read("phys_domains"), Read("log_domains"), Read("log_streams"), Write("log_buffers")>>
        /\ RmBufferLogDomains.reads = {"log_domains", "log_buffers"} /\ RmBufferLogDomains.writes = {"instances"}
        /\ RmBufferLogDomains.asks = FALSE
    BY DEF RmBufferLogDomains, Call
  <2>2. QED
    BY <2>1, Shape10 DEF Footprint, Guarded, Ordered, Has, Structures, Locks, Read, Write
<1>25. Footprint(DeAlloc)
  <2>1. /\ DeAlloc.locks = <<Read("phys_domains"), Read("log_domains"), Read("log_streams"), Write("log_buffers")>>
        /\ DeAlloc.reads = {} /\ DeAlloc.writes = {"log_buffers", "instances"}
        /\ DeAlloc.asks = FALSE
    BY DEF DeAlloc, Call
  <2>2. QED
    BY <2>1, Shape10 DEF Footprint, Guarded, Ordered, Has, Structures, Locks, Read, Write
<1>26. Footprint(GetBufferNumLogDomains)
  <2>1. /\ GetBufferNumLogDomains.locks = <<Read("phys_domains"), Read("log_domains"), Read("log_streams"), Read("log_buffers")>>
        /\ GetBufferNumLogDomains.reads = {"log_buffers", "instances"} /\ GetBufferNumLogDomains.writes = {}
        /\ GetBufferNumLogDomains.asks = FALSE
    BY DEF GetBufferNumLogDomains, Call
  <2>2. QED
    BY <2>1, Shape7 DEF Footprint, Guarded, Ordered, Has, Structures, Locks, Read, Write
<1>27. Footprint(GetBufferLogDomains)
  <2>1. /\ GetBufferLogDomains.locks = <<Read("phys_domains"), Read("log_domains"), Read("log_streams"), Read("log_buffers")>>
        /\ GetBufferLogDomains.reads = {"log_domains", "log_buffers", "instances"} /\ GetBufferLogDomains.writes = {}
        /\ GetBufferLogDomains.asks = FALSE
    BY DEF GetBufferLogDomains, Call
  <2>2. QED
    BY <2>1, Shape7 DEF Footprint, Guarded, Ordered, Has, Structures, Locks, Read, Write
<1>28. Footprint(GetBufferProps)
  <2>1. /\ GetBufferProps.locks = <<Read("phys_domains"), Read("log_domains"), Read("log_streams"), Read("log_buffers")>>
        /\ GetBufferProps.reads = {"log_buffers"} /\ GetBufferProps.writes = {}
        /\ GetBufferProps.asks = FALSE
    BY DEF GetBufferProps, Call
  <2>2. QED
    BY <2>1, Shape7 DEF Footprint, Guarded, Ordered, Has, Structures, Locks, Read, Write
<1>29. Footprint(GetCurrentOptions)
  <2>1. /\ GetCurrentOptions.locks = <<Read("options")>>
        /\ GetCurrentOptions.reads = {"options"} /\ GetCurrentOptions.writes = {}
        /\ GetCurrentOptions.asks = FALSE
    BY DEF GetCurrentOptions, Call
  <2>2. QED
    BY <2>1, Shape11 DEF Footprint, Guarded, Ordered, Has, Structures, Locks, Read, Write
<1>30. Footprint(SetOptions)
  <2>1. /\ SetOptions.locks = <<Write("options"), Write("libraries_to_load")>>
        /\ SetOptions.reads = {} /\ SetOptions.writes = {"options", "libraries_to_load"}
        /\ SetOptions.asks = FALSE
    BY DEF SetOptions, Call
  <2>2. QED
    BY <2>1, Shape12 DEF Footprint, Guarded, Ordered, Has, Structures, Locks, Read, Write
<1>31. Footprint(SetLibrariesToLoad)
  <2>1. /\ SetLibrariesToLoad.locks = <<Write("libraries_to_load")>>
        /\ SetLibrariesToLoad.reads = {} /\ SetLibrariesToLoad.writes = {"libraries_to_load"}
        /\ SetLibrariesToLoad.asks = FALSE
    BY DEF SetLibrariesToLoad, Call
  <2>2. QED
    BY <2>1, Shape13 DEF Footprint, Guarded, Ordered, Has, Structures, Locks, Read, Write
<1>32. QED
    BY <1>1, <1>2, <1>3, <1>4, <1>5, <1>6, <1>7, <1>8, <1>9, <1>10, <1>11, <1>12,
     <1>13, <1>14, <1>15, <1>16, <1>17, <1>18, <1>19, <1>20, <1>21, <1>22, <1>23,
     <1>24, <1>25, <1>26, <1>27, <1>28, <1>29, <1>30, <1>31 DEF ApiCalls

-----------------------------------------------------------------------------
(* Locks are exclusive.                                                    *)

Exclusive ==
  \A c, d \in Callers, l \in Locks :
    c # d /\ Write(l) \in Holds(c) => Read(l) \notin Holds(d) /\ Write(l) \notin Holds(d)

IInv == TypeOK /\ Exclusive

\* A thread inside a call is inside one of those calls; others hold nothing.
LEMMA CallFacts ==
  ASSUME TypeOK, NEW c \in Callers
  PROVE  /\ call[c].locks \in Seq(LockModes)
         /\ pc[c] # "idle" => call[c] \in Calls /\ Footprint(call[c])
         /\ pc[c] = "idle" => held[c] = 0
         /\ held[c] \in 0..Len(call[c].locks)
<1>1. CASE pc[c] = "idle"
  <2>1. call[c].locks = <<>>
    BY <1>1 DEF TypeOK, NoCall, Call
  <2>2. held[c] = 0 /\ held[c] \in 0..Len(call[c].locks)
    BY <2>1 DEF TypeOK
  <2>3. QED
    BY <1>1, <2>1, <2>2
<1>2. CASE pc[c] # "idle"
  <2>1. call[c] \in Calls
    BY <1>2 DEF TypeOK
  <2>2. Footprint(call[c])
    BY <2>1, Footprints, CallsAssumption
  <2>3. QED
    BY <1>2, <2>1, <2>2 DEF TypeOK, Footprint
<1>3. QED
  BY <1>1, <1>2

\* What a caller waits for is a lock, and the next of its call.
LEMMA WaitFacts ==
  ASSUME TypeOK, NEW c \in Callers, NEW want \in WaitsFor(c)
  PROVE  /\ want \in LockModes
         /\ pc[c] \in {"locking", "asking"}
         /\ pc[c] = "locking" =>
              held[c] < Len(call[c].locks) /\ want = call[c].locks[held[c] + 1]
         /\ pc[c] = "asking" => want = Read("options")
<1>1. CASE pc[c] = "locking" /\ held[c] < Len(call[c].locks)
  <2>1. want = call[c].locks[held[c] + 1]
    BY <1>1 DEF WaitsFor
  <2>2. held[c] + 1 \in 1..Len(call[c].locks) /\ call[c].locks \in Seq(LockModes)
    BY <1>1, CallFacts
  <2>3. QED
    BY <1>1, <2>1, <2>2
<1>2. CASE ~(pc[c] = "locking" /\ held[c] < Len(call[c].locks))
  <2>1. pc[c] = "asking" /\ want = Read("options")
    BY <1>2 DEF WaitsFor
  <2>2. QED
    BY <2>1, LockModesType DEF Locks
<1>3. QED
  BY <1>1, <1>2

\* What a thread holds are lock modes.
LEMMA HeldAreModes ==
  ASSUME TypeOK, NEW c \in Callers
  PROVE  Holds(c) \subseteq LockModes
<1>1. call[c].locks \in Seq(LockModes) /\ held[c] \in 0..Len(call[c].locks)
  BY CallFacts
<1>2. QED
  BY <1>1 DEF Holds

\* At first nobody holds anything.
LEMMA InitIInv == Init => IInv
<1> SUFFICES ASSUME Init PROVE IInv
  OBVIOUS
<1>1. TypeOK
  BY MaxCallsAssumption DEF Init, TypeOK, NoCall, Call
<1>2. \A c \in Callers : Holds(c) = {}
  BY DEF Init, Holds
<1>3. QED
  BY <1>1, <1>2 DEF IInv, Exclusive

\* Steps preserve types.
LEMMA TypeStep == TypeOK /\ [Next]_vars => TypeOK'
<1> SUFFICES ASSUME TypeOK, [Next]_vars PROVE TypeOK'
  OBVIOUS
<1>1. ASSUME NEW c \in Callers, NEW a \in Calls, Enter(c, a) PROVE TypeOK'
  <2>1. held[c] = 0 /\ a.locks \in Seq(LockModes)
    BY <1>1, CallFacts, CallsAssumption, Footprints DEF Enter, Goto, Footprint
  <2>2. made[c] + 1 \in 0..MaxCalls
    BY <1>1, MaxCallsAssumption DEF Enter, TypeOK
  <2>3. 0 \in 0..Len(a.locks)
    BY <2>1
  <2>4. call' \in [Callers -> Calls \cup {NoCall}] /\ pc' = [pc EXCEPT ![c] = "locking"]
    BY <1>1 DEF Enter, Goto, TypeOK
  <2>5. \A d \in Callers :
          /\ IF pc'[d] = "idle" THEN call'[d] = NoCall ELSE call'[d] \in Calls
          /\ held'[d] \in 0..Len(call'[d].locks)
          /\ pc'[d] \in {"working", "asking", "told"} => held'[d] = Len(call'[d].locks)
          /\ pc'[d] \in {"asking", "told"} => call'[d].asks
    BY <1>1, <2>1, <2>3 DEF Enter, Goto, TypeOK
  <2>6. QED
    BY <1>1, <2>2, <2>4, <2>5 DEF Enter, TypeOK
<1>2. ASSUME NEW c \in Callers, Lock(c) PROVE TypeOK'
  <2>1. held[c] < Len(call[c].locks) /\ held[c] + 1 \in 0..Len(call[c].locks)
    BY <1>2, WaitFacts, CallFacts DEF Lock
  <2>2. QED
    BY <1>2, <2>1 DEF Lock, TypeOK
<1>3. ASSUME NEW c \in Callers, Work(c) PROVE TypeOK'
  BY <1>3 DEF Work, Goto, TypeOK
<1>4. ASSUME NEW c \in Callers, AskOptions(c) PROVE TypeOK'
  BY <1>4 DEF AskOptions, Goto, TypeOK
<1>5. ASSUME NEW c \in Callers, TellOptions(c) PROVE TypeOK'
  BY <1>5 DEF TellOptions, Goto, TypeOK
<1>6. ASSUME NEW c \in Callers, Return(c) PROVE TypeOK'
  <2>1. NoCall.locks = <<>>
    BY DEF NoCall, Call
  <2>2. 0 \in 0..Len(NoCall.locks)
    BY <2>1
  <2>3. QED
    BY <1>6, <2>2 DEF Return, TypeOK
<1>7. CASE UNCHANGED vars
  BY <1>7 DEF vars, TypeOK
<1>8. QED
  BY <1>1, <1>2, <1>3, <1>4, <1>5, <1>6, <1>7 DEF Next, Step

\* A step changes what one caller holds: it adds a lock it was granted, or lets
\* go of everything.
LEMMA HoldsStep ==
  ASSUME TypeOK, [Next]_vars
  PROVE  \/ \A d \in Callers : Holds(d)' \subseteq Holds(d)
         \/ \E c \in Callers : \E want \in LockModes :
              /\ Granted(c, want)
              /\ Holds(c)' = Holds(c) \cup {want}
              /\ \A d \in Callers \ {c} : Holds(d)' = Holds(d)
<1>1. ASSUME NEW c \in Callers, NEW a \in Calls, Enter(c, a)
      PROVE  \A d \in Callers : Holds(d)' \subseteq Holds(d)
  <2>1. held[c] = 0
    BY <1>1, CallFacts DEF Enter, Goto
  <2>2. ASSUME NEW d \in Callers PROVE Holds(d)' \subseteq Holds(d)
    <3>1. CASE d = c
      BY <1>1, <2>1, <3>1 DEF Enter, Holds, TypeOK
    <3>2. CASE d # c
      BY <1>1, <3>2 DEF Enter, Holds, TypeOK
    <3>3. QED
      BY <3>1, <3>2
  <2>3. QED
    BY <2>2
<1>2. ASSUME NEW c \in Callers, Lock(c)
      PROVE  \E want \in LockModes :
               /\ Granted(c, want)
               /\ Holds(c)' = Holds(c) \cup {want}
               /\ \A d \in Callers \ {c} : Holds(d)' = Holds(d)
  <2>1. PICK want \in WaitsFor(c) : Granted(c, want)
    BY <1>2 DEF Lock
  <2>2. want \in LockModes /\ want = call[c].locks[held[c] + 1]
    BY <1>2, WaitFacts DEF Lock
  <2>3. held'[c] = held[c] + 1 /\ call' = call /\ held[c] \in Nat
    BY <1>2 DEF Lock, TypeOK
  <2>4. 1..(held[c] + 1) = (1..held[c]) \cup {held[c] + 1}
    BY <2>3
  <2>5. Holds(c)' = Holds(c) \cup {want}
    BY <2>2, <2>3, <2>4 DEF Holds
  <2>6. \A d \in Callers \ {c} : Holds(d)' = Holds(d)
    BY <1>2 DEF Lock, Holds, TypeOK
  <2>7. QED
    BY <2>1, <2>2, <2>5, <2>6
<1>3. ASSUME NEW c \in Callers, Work(c) \/ AskOptions(c) \/ TellOptions(c)
      PROVE  \A d \in Callers : Holds(d)' \subseteq Holds(d)
  BY <1>3 DEF Work, AskOptions, TellOptions, Holds
<1>4. ASSUME NEW c \in Callers, Return(c)
      PROVE  \A d \in Callers : Holds(d)' \subseteq Holds(d)
  <2>1. ASSUME NEW d \in Callers PROVE Holds(d)' \subseteq Holds(d)
    <3>1. CASE d = c
      BY <1>4, <3>1 DEF Return, Holds, TypeOK
    <3>2. CASE d # c
      BY <1>4, <3>2 DEF Return, Holds, TypeOK
    <3>3. QED
      BY <3>1, <3>2
  <2>2. QED
    BY <2>1
<1>5. CASE UNCHANGED vars
  BY <1>5 DEF vars, Holds
<1>6. QED
  BY <1>1, <1>2, <1>3, <1>4, <1>5 DEF Next, Step

\* Steps preserve the exclusion of writers, since a lock is only granted when it is free.
LEMMA ExclusiveStep == IInv /\ [Next]_vars => Exclusive'
<1> SUFFICES ASSUME IInv, [Next]_vars PROVE Exclusive'
  OBVIOUS
<1>1. CASE \A d \in Callers : Holds(d)' \subseteq Holds(d)
  BY <1>1 DEF IInv, Exclusive
<1>2. ASSUME NEW e \in Callers, NEW want \in LockModes, Granted(e, want),
             Holds(e)' = Holds(e) \cup {want},
             \A d \in Callers \ {e} : Holds(d)' = Holds(d)
      PROVE  Exclusive'
  <2> SUFFICES ASSUME NEW c \in Callers, NEW d \in Callers, NEW l \in Locks, c # d,
                      Write(l) \in Holds(c)'
               PROVE  Read(l) \notin Holds(d)' /\ Write(l) \notin Holds(d)'
    BY DEF Exclusive
  <2>1. want = Write(l) => want.lock = l /\ want.mode = "WRITE"
    BY DEF Write
  <2>2. want = Read(l) => want.lock = l /\ want.mode = "READ"
    BY DEF Read
  <2>3. CASE c = e
    <3>1. Holds(d)' = Holds(d)
      BY <1>2, <2>3
    <3>2. CASE Write(l) \in Holds(c)
      BY <3>1, <3>2 DEF IInv, Exclusive
    <3>3. CASE Write(l) = want
      BY <1>2, <2>1, <2>3, <3>1, <3>3 DEF Granted
    <3>4. QED
      BY <1>2, <2>3, <3>2, <3>3
  <2>4. CASE d = e
    <3>1. Write(l) \in Holds(c)
      BY <1>2, <2>4
    <3>2. Read(l) \notin Holds(d) /\ Write(l) \notin Holds(d)
      BY <3>1 DEF IInv, Exclusive
    <3>3. want # Read(l) /\ want # Write(l)
      BY <1>2, <2>1, <2>2, <2>4, <3>1 DEF Granted
    <3>4. QED
      BY <1>2, <2>4, <3>2, <3>3
  <2>5. CASE c # e /\ d # e
    BY <1>2, <2>5 DEF IInv, Exclusive
  <2>6. QED
    BY <2>3, <2>4, <2>5
<1>3. QED
  BY <1>1, <1>2, HoldsStep DEF IInv

\* The invariant holds throughout.
LEMMA Invariance == Spec => []IInv
<1>1. IInv /\ [Next]_vars => IInv'
  BY TypeStep, ExclusiveStep DEF IInv
<1>2. QED
  BY InitIInv, <1>1, PTL DEF Spec

\* Every caller is where its call lets it be, with its locks.
THEOREM LockTypes == Spec => []TypeOK
<1>1. IInv => TypeOK
  BY DEF IInv
<1>2. QED
  BY Invariance, <1>1, PTL

-----------------------------------------------------------------------------
(* No two bodies conflict.                                                 *)

\* In its body a call holds all of its locks.
LEMMA BodyHolds ==
  ASSUME TypeOK, NEW c \in Callers, InBody(c)
  PROVE  Holds(c) = LockSet(call[c]) /\ Footprint(call[c])
<1>1. pc[c] # "idle" /\ held[c] = Len(call[c].locks)
  BY DEF InBody, TypeOK
<1>2. QED
  BY <1>1, CallFacts DEF Holds, LockSet

\* Two footprints that conflict have a lock in common that one takes for writing.
LEMMA ConflictMeansLock ==
  ASSUME NEW a, NEW b, Footprint(a), Footprint(b),
         NEW s \in a.writes \cap (b.reads \cup b.writes)
  PROVE  \E l \in Locks :
           \/ Write(l) \in LockSet(a) /\ Has(b, l)
           \/ Has(a, l) /\ Write(l) \in LockSet(b)
<1>1. s \in Structures /\ Guarded(a) /\ Guarded(b)
  BY DEF Footprint
<1>2. CASE s \in Locks
  <2>1. s \in Locks \ {"phys_domains"}
    BY <1>1, <1>2 DEF Guarded
  <2>2. Write(s) \in LockSet(a)
    BY <1>1, <2>1 DEF Guarded
  <2>3. Has(b, s)
    <3>1. CASE s \in b.reads
      BY <1>1, <2>1, <3>1 DEF Guarded
    <3>2. CASE s \in b.writes
      BY <1>1, <2>1, <3>2 DEF Guarded, Has
    <3>3. QED
      BY <3>1, <3>2
  <2>4. QED
    BY <2>1, <2>2, <2>3
<1>3. CASE s = "instances"
  <2>1. \/ Write("log_domains") \in LockSet(a)
        \/ Has(a, "log_domains") /\ Write("log_buffers") \in LockSet(a)
    BY <1>1, <1>3 DEF Guarded
  <2>2. \/ Has(b, "log_domains") /\ Has(b, "log_buffers")
        \/ Write("log_domains") \in LockSet(b)
    BY <1>1, <1>3 DEF Guarded, Has
  <2>3. "log_domains" \in Locks /\ "log_buffers" \in Locks
    BY DEF Locks
  <2>4. QED
    BY <2>1, <2>2, <2>3 DEF Has
<1>4. QED
  BY <1>1, <1>2, <1>3 DEF Structures

\* Exclusive locks keep conflicting bodies apart.
LEMMA NoConflict == IInv => NoConflictingAccess
<1> SUFFICES ASSUME IInv, NEW c \in Callers, NEW d \in Callers, c # d, InBody(c), InBody(d),
                    NEW s \in call[c].writes \cap (call[d].reads \cup call[d].writes)
             PROVE  FALSE
  BY DEF NoConflictingAccess
<1>1. /\ Holds(c) = LockSet(call[c]) /\ Footprint(call[c])
      /\ Holds(d) = LockSet(call[d]) /\ Footprint(call[d])
  BY BodyHolds DEF IInv
<1>2. PICK l \in Locks : \/ Write(l) \in Holds(c) /\ (Read(l) \in Holds(d) \/ Write(l) \in Holds(d))
                         \/ (Read(l) \in Holds(c) \/ Write(l) \in Holds(c)) /\ Write(l) \in Holds(d)
  BY <1>1, ConflictMeansLock DEF Has
<1>3. QED
  BY <1>2 DEF IInv, Exclusive

\* Whatever calls an application makes from however many threads, no body touches
\* what another body is changing.
THEOREM BodiesDoNotConflict == Spec => []NoConflictingAccess
  BY Invariance, NoConflict, PTL

-----------------------------------------------------------------------------
(* Somebody can always go on.                                              *)

Stuck(c) == \E want \in WaitsFor(c) : ~Granted(c, want)

\* Nobody waits for a lock of rank r or higher.
CalmFrom(r) == \A c \in Callers : \A want \in WaitsFor(c) : Rank(want.lock) < r

\* Whoever holds a lock waits for one of higher rank only.
LEMMA WaitsHigher ==
  ASSUME TypeOK, NEW c \in Callers, NEW w \in Holds(c), NEW want \in WaitsFor(c)
  PROVE  Rank(w.lock) < Rank(want.lock)
<1>1. PICK i \in 1..held[c] : w = call[c].locks[i]
  BY DEF Holds
<1>2. Footprint(call[c]) /\ held[c] \in 0..Len(call[c].locks)
  BY CallFacts, WaitFacts
<1>3. Len(call[c].locks) \in Nat
  BY <1>2 DEF Footprint
<1>4. CASE pc[c] = "locking"
  <2>1. held[c] < Len(call[c].locks) /\ want = call[c].locks[held[c] + 1]
    BY <1>4, WaitFacts
  <2>2. /\ i \in 1..Len(call[c].locks) /\ held[c] + 1 \in 1..Len(call[c].locks)
        /\ i < held[c] + 1
    BY <1>1, <1>2, <1>3, <2>1
  <2>3. QED
    BY <1>1, <1>2, <2>1, <2>2 DEF Footprint, Ordered
<1>5. CASE pc[c] = "asking"
  <2>1. want = Read("options")
    BY <1>5, WaitFacts
  <2>2. Rank(want.lock) = 5
    BY <2>1 DEF Rank, Read
  <2>3. call[c].asks /\ i \in 1..Len(call[c].locks)
    BY <1>1, <1>2, <1>3, <1>5 DEF TypeOK
  <2>4. QED
    BY <1>1, <1>2, <2>2, <2>3 DEF Footprint, Ordered
<1>6. QED
  BY <1>4, <1>5, WaitFacts

\* If everyone stuck waits below rank r + 1, nobody waits at rank r.
LEMMA CalmDown ==
  ASSUME TypeOK, NEW r \in 1..6, CalmFrom(r + 1),
         \A c \in Callers : pc[c] # "idle" => Stuck(c)
  PROVE  CalmFrom(r)
<1>1. ASSUME NEW c \in Callers, NEW want \in WaitsFor(c), Rank(want.lock) = r,
             NEW d \in Callers, NEW w \in Holds(d), w.lock = want.lock
      PROVE  FALSE
  <2>1. pc[d] # "idle"
    BY <1>1, CallFacts DEF Holds
  <2>2. PICK other \in WaitsFor(d) : TRUE
    BY <2>1 DEF Stuck
  <2>3. Rank(w.lock) < Rank(other.lock)
    BY WaitsHigher
  <2>4. Rank(other.lock) < r + 1
    BY DEF CalmFrom
  <2>5. Rank(other.lock) \in Nat
    BY DEF Rank
  <2>6. QED
    BY <1>1, <2>3, <2>4, <2>5
<1>2. ASSUME NEW c \in Callers, NEW want \in WaitsFor(c), Rank(want.lock) = r
      PROVE  \E d \in Callers : writersFirst /\ want.mode = "READ" /\ Write(want.lock) \in WaitsFor(d)
  <2>1. pc[c] # "idle"
    BY WaitFacts
  <2>2. PICK other \in WaitsFor(c) : ~Granted(c, other)
    BY <2>1 DEF Stuck
  <2>3. other = want
    BY DEF WaitsFor
  <2>4. PICK d \in Callers \ {c} :
          \/ Write(want.lock) \in Holds(d)
          \/ Read(want.lock) \in Holds(d)
          \/ writersFirst /\ want.mode = "READ" /\ Write(want.lock) \in WaitsFor(d)
    BY <2>2, <2>3 DEF Granted
  <2>5. Write(want.lock).lock = want.lock /\ Read(want.lock).lock = want.lock
    BY DEF Write, Read
  <2>6. QED
    BY <1>1, <1>2, <2>4, <2>5
<1>3. ASSUME NEW c \in Callers, NEW want \in WaitsFor(c), Rank(want.lock) = r
      PROVE  FALSE
  <2>1. PICK d \in Callers : Write(want.lock) \in WaitsFor(d)
    BY <1>2, <1>3
  <2>2. Write(want.lock).lock = want.lock /\ Write(want.lock).mode = "WRITE"
    BY DEF Write
  <2>3. Write(want.lock).mode = "READ"
    BY <1>2, <1>3, <2>1, <2>2
  <2>4. QED
    BY <2>2, <2>3
<1>4. SUFFICES ASSUME NEW c \in Callers, NEW want \in WaitsFor(c)
               PROVE  Rank(want.lock) < r
  BY DEF CalmFrom
<1>5. Rank(want.lock) \in Nat
  BY DEF Rank
<1>6. Rank(want.lock) < r + 1
  BY DEF CalmFrom
<1>7. Rank(want.lock) # r
  BY <1>3
<1>8. QED
  BY <1>5, <1>6, <1>7

\* The order of the locks leaves somebody who can go on: whoever waits for the highest.
LEMMA NotAllStuck == TypeOK => NobodyStuck
<1> SUFFICES ASSUME TypeOK, NEW e \in Callers, pc[e] # "idle",
                    \A c \in Callers : pc[c] # "idle" => Stuck(c)
             PROVE  FALSE
  BY DEF NobodyStuck, Stuck
<1>7. CalmFrom(7)
  BY DEF CalmFrom, Rank
<1>6. CalmFrom(6)
  <2>1. CalmFrom(6 + 1)
    BY <1>7
  <2>2. QED
    BY <2>1, CalmDown
<1>5. CalmFrom(5)
  <2>1. CalmFrom(5 + 1)
    BY <1>6
  <2>2. QED
    BY <2>1, CalmDown
<1>4. CalmFrom(4)
  <2>1. CalmFrom(4 + 1)
    BY <1>5
  <2>2. QED
    BY <2>1, CalmDown
<1>3. CalmFrom(3)
  <2>1. CalmFrom(3 + 1)
    BY <1>4
  <2>2. QED
    BY <2>1, CalmDown
<1>2. CalmFrom(2)
  <2>1. CalmFrom(2 + 1)
    BY <1>3
  <2>2. QED
    BY <2>1, CalmDown
<1>1. CalmFrom(1)
  <2>1. CalmFrom(1 + 1)
    BY <1>2
  <2>2. QED
    BY <2>1, CalmDown
<1>8. PICK want \in WaitsFor(e) : TRUE
  BY DEF Stuck
<1>9. Rank(want.lock) \in 1..6 /\ Rank(want.lock) < 1
  BY <1>1 DEF CalmFrom, Rank
<1>10. QED
  BY <1>9

\* The callers never all wait for each other, whichever way the locks favour
\* readers or writers.
THEOREM SomebodyGoesOn == Spec => []NobodyStuck
  BY LockTypes, NotAllStuck, PTL
-----------------------------------------------------------------------------

\* The proofs about the count.
LP == INSTANCE LifecycleProofs WITH
  Threads <- Callers \cup {Controller}, Initializers <- {Controller},
  Finalizers <- {Controller}, MaxCalls <- MaxCounted, pc <- stage

USE DEF Goto

-----------------------------------------------------------------------------
(* The halves.                                                             *)

\* Which functions the callers are in, and what of them is under way: whoever is
\* past its locks' beginning works on what its function does.
InStep ==
  /\ function \in [Callers -> Functions \cup {NoFunction}]
  /\ \A c \in Callers : pc[c] # "idle" =>
       /\ call[c] = function[c].does
       /\ function[c] \in Functions /\ Goes(c)
       /\ function[c].counted =>
            stage[c] = IF function[c].demands = "initialized" THEN "operating" ELSE "entered"
  /\ \A c \in Callers : ~function[c].counted => stage[c] = "idle"

\* Lifecycle is the same whether the module or its proofs are instantiated.
LEMMA SameLifecycle == (L!Init => LP!Init) /\ (L!Next => LP!Next)
<1>1. L!Init => LP!Init
  BY DEF L!Init, LP!Init
<1>2. L!Next => LP!Next
  BY Zenon DEF L!Next, LP!Next, L!Enter, LP!Enter, L!InitEnter, LP!InitEnter,
     L!FiniEnter, LP!FiniEnter, L!OperationStep, LP!OperationStep,
     L!InitStep, LP!InitStep, L!FiniStep, LP!FiniStep,
     L!Count, LP!Count, L!IsInitialized, LP!IsInitialized,
     L!NotInitialized, LP!NotInitialized, L!Indifferent, LP!Indifferent,
     L!OperationDone, LP!OperationDone, L!Leave, LP!Leave,
     L!LockInit, LP!LockInit, L!InitRedundant, LP!InitRedundant,
     L!InitNeeded, LP!InitNeeded, L!StateGuard, LP!StateGuard,
     L!BuildDomains, LP!BuildDomains, L!CreateDummyBuffer, LP!CreateDummyBuffer,
     L!InitSucceeds, LP!InitSucceeds, L!InitFails, LP!InitFails,
     L!FiniRefused, LP!FiniRefused, L!FiniAccepted, LP!FiniAccepted,
     L!SetFinalizing, LP!SetFinalizing, L!CallsDrained, LP!CallsDrained,
     L!DestroyDummyBuffer, LP!DestroyDummyBuffer, L!FiniFails, LP!FiniFails,
     L!DestroyCollections, LP!DestroyCollections, L!FiniDone, LP!FiniDone,
     L!Goto, LP!Goto, L!locks, LP!locks, L!resources, LP!resources, L!bounds, LP!bounds
<1> QED BY <1>1, <1>2

\* The count's half: a step of the composition is a step of Lifecycle or none.
LEMMA LifeStep ==
  ASSUME ApiNext PROVE LP!Next \/ UNCHANGED lifeVars
<1>1. L!Next \/ UNCHANGED lifeVars
  BY Zenon DEF ApiNext, CallerStep, Begin, StartOperation, StartAnyway, Refuse, NoWork,
     Proceed, Finish, Leave, ControllerCalls, ControllerStep, L!Next, L!OperationStep
<1> QED BY <1>1, SameLifecycle

\* The invariants of Lifecycle hold of the composition.
LEMMA LifeInvariant ==
  ApiSpec => [](LP!TypeOK /\ LP!LifeInv)
<1>1. LP!IsFiniteSet(Callers \cup {Controller}) /\ None \notin Callers \cup {Controller}
  <2>1. IsFiniteSet(Callers \cup {Controller})
    BY ThreadsAssumption, FS_AddElement
  <2> QED BY <2>1, ThreadsAssumption DEF IsFiniteSet, LP!IsFiniteSet
<1>2. LP!SoleController
  BY DEF LP!SoleController
<1>3. ApiInit => LP!TypeOK /\ LP!LifeInv
  BY <1>1, SameLifecycle, LP!InitEstablishes DEF ApiInit
<1>4. LP!TypeOK /\ LP!LifeInv /\ [ApiNext]_apiVars => LP!TypeOK' /\ LP!LifeInv'
  <2> SUFFICES ASSUME LP!TypeOK, LP!LifeInv, [ApiNext]_apiVars
               PROVE  LP!TypeOK' /\ LP!LifeInv'
    OBVIOUS
  <2>1. CASE LP!Next
    BY <1>1, <1>2, <2>1, LP!StepPreserves
  <2>2. CASE UNCHANGED lifeVars
    BY <2>2 DEF lifeVars, LP!TypeOK, LP!LifeInv, LP!Counted
  <2> QED BY <2>1, <2>2, LifeStep DEF apiVars
<1> QED BY <1>3, <1>4, PTL DEF ApiSpec

\* The locks' half: a step of the composition is a step of ApiLocks or none.
LEMMA LocksStep ==
  ASSUME InStep, ApiNext PROVE Next \/ UNCHANGED vars
<1>1. ASSUME NEW c \in Callers, StartOperation(c) \/ StartAnyway(c) PROVE Next
  <2>1. function[c].does \in Calls /\ Enter(c, function[c].does)
    BY <1>1, FunctionsAssumption DEF StartOperation, StartAnyway, AtWorker, Goes, InStep
  <2> QED BY <2>1 DEF Next
<1>2. ASSUME NEW c \in Callers, Proceed(c) \/ Finish(c) PROVE Next
  BY <1>2 DEF Proceed, Finish, Next, Step
<1>3. ASSUME NEW c \in Callers, Refuse(c) \/ NoWork(c) \/ Leave(c) PROVE UNCHANGED vars
  BY <1>3 DEF Refuse, NoWork, Leave
<1>4. ASSUME NEW c \in Callers, NEW f \in Functions, Begin(c, f) PROVE UNCHANGED vars
  BY <1>4 DEF Begin
<1>5. ASSUME ControllerCalls \/ ControllerStep PROVE UNCHANGED vars
  BY <1>5 DEF ControllerCalls, ControllerStep
<1> QED BY <1>1, <1>2, <1>3, <1>4, <1>5 DEF ApiNext, CallerStep

-----------------------------------------------------------------------------
(* The invariant that joins the halves.                                    *)

\* A worker's end leaves its caller in step, whether the count is still to be
\* taken back or there was none.
LEMMA WorkerEnds ==
  ASSUME TypeOK, LP!TypeOK, InStep, NEW c \in Callers, EndsAt(c), pc'[c] = "idle",
         \A d \in Callers \ {c} : pc'[d] = pc[d] /\ call'[d] = call[d],
         \A d \in Callers \ {c} : stage'[d] = stage[d],
         ~function[c].counted => stage' = stage
  PROVE  InStep'
<1> USE DEF InStep, Goes
<1>n. NoFunction.counted = FALSE
  BY DEF NoFunction, Function
<1>4. /\ function' \in [Callers -> Functions \cup {NoFunction}]
      /\ \A d \in Callers \ {c} : function'[d] = function[d]
      /\ function[c].counted => function'[c] = function[c]
  BY DEF EndsAt
<1>7. ~function'[c].counted => stage'[c] = "idle"
  BY <1>4
<1>9. ASSUME NEW d \in Callers, d # c
      PROVE  stage'[d] = stage[d] /\ function'[d] = function[d]
             /\ pc'[d] = pc[d] /\ call'[d] = call[d]
  BY <1>4, <1>9
<1>10. ASSUME NEW d \in Callers, ~function'[d].counted PROVE stage'[d] = "idle"
  BY <1>7, <1>9, <1>10
<1>11. ASSUME NEW d \in Callers, pc'[d] # "idle"
       PROVE  /\ call'[d] = function'[d].does
              /\ function'[d] \in Functions /\ function'[d] # NoFunction
              /\ function'[d].counted =>
                   stage'[d] = IF function'[d].demands = "initialized" THEN "operating"
                               ELSE "entered"
  <2>1. d # c
    BY <1>11
  <2>2. pc[d] # "idle"
    BY <1>9, <1>11, <2>1
  <2> QED BY <1>9, <2>1, <2>2
<1> QED BY <1>4, <1>10, <1>11

\* A thread is in step with itself: where its locks say it works, its count says so.
LEMMA InStepStep ==
  ASSUME TypeOK, LP!TypeOK, InStep, ApiNext PROVE InStep'
<1> USE DEF LP!TypeOK, TypeOK, InStep, Goes
<1>n. NoFunction.counted = FALSE
  BY DEF NoFunction, Function
<1>1. ASSUME NEW c \in Callers, NEW f \in Functions, Begin(c, f) PROVE InStep'
  <2>1. pc[c] = "idle" /\ stage[c] = "idle" /\ pc' = pc /\ call' = call
    BY <1>1, <1>n DEF Begin, vars
  <2>2. \A d \in Callers \ {c} : stage'[d] = stage[d]
    BY <1>1 DEF Begin, lifeVars, L!Enter, L!Count, L!Goto
  <2>3. ~f.counted => stage' = stage
    BY <1>1 DEF Begin, lifeVars
  <2>4. function' = [function EXCEPT ![c] = f]
    BY <1>1 DEF Begin
  <2> QED BY <2>1, <2>2, <2>3, <2>4
<1>2. ASSUME NEW c \in Callers, StartOperation(c) PROVE InStep'
  BY <1>2, ThreadsAssumption DEF StartOperation, AtWorker, Enter, lifeVars,
     L!IsInitialized, L!Goto
<1>3. ASSUME NEW c \in Callers, StartAnyway(c) PROVE InStep'
  BY <1>3 DEF StartAnyway, AtWorker, Enter, lifeVars
<1>4. ASSUME NEW c \in Callers, Refuse(c) \/ NoWork(c) PROVE InStep'
  <2>1. pc[c] = "idle" /\ pc' = pc /\ call' = call /\ EndsAt(c)
    BY <1>4 DEF Refuse, NoWork, AtWorker, vars
  <2>2. \A d \in Callers \ {c} : stage'[d] = stage[d]
    BY <1>4 DEF Refuse, NoWork, lifeVars, L!NotInitialized, L!Indifferent, L!Goto
  <2>3. ~function[c].counted => stage' = stage
    BY <1>4 DEF Refuse, NoWork, lifeVars
  <2> QED BY <2>1, <2>2, <2>3, WorkerEnds
<1>5. ASSUME NEW c \in Callers, Proceed(c) PROVE InStep'
  BY <1>5 DEF Proceed, Lock, Work, AskOptions, TellOptions, lifeVars
<1>6. ASSUME NEW c \in Callers, Finish(c) PROVE InStep'
  <2>1. /\ pc' = [pc EXCEPT ![c] = "idle"]
        /\ call' = [call EXCEPT ![c] = NoCall]
        /\ EndsAt(c)
    BY <1>6 DEF Finish, Return
  <2>2. \A d \in Callers \ {c} : stage'[d] = stage[d]
    BY <1>6 DEF Finish, lifeVars, L!OperationDone, L!Indifferent, L!Goto
  <2>3. ~function[c].counted => stage' = stage
    BY <1>6 DEF Finish, lifeVars
  <2> QED BY <2>1, <2>2, <2>3, WorkerEnds
<1>7. ASSUME NEW c \in Callers, Leave(c) PROVE InStep'
  <2>1. stage[c] = "leaving" /\ stage' = [stage EXCEPT ![c] = "idle"]
    BY <1>7 DEF Leave, L!Leave, L!Goto
  <2>2. pc[c] = "idle"
    BY <2>1
  <2> QED BY <1>7, <2>1, <2>2, <1>n DEF Leave, vars
<1>8. ASSUME ControllerCalls \/ ControllerStep PROVE InStep'
  <2>1. \A c \in Callers : stage'[c] = stage[c]
    BY <1>8, ThreadsAssumption DEF ControllerCalls, ControllerStep, L!InitEnter, L!FiniEnter,
       L!InitStep, L!FiniStep, L!Leave, L!Count, L!Goto, L!LockInit, L!InitRedundant,
       L!InitNeeded, L!StateGuard, L!BuildDomains, L!CreateDummyBuffer, L!InitSucceeds,
       L!InitFails, L!FiniRefused, L!FiniAccepted, L!SetFinalizing, L!CallsDrained,
       L!DestroyDummyBuffer, L!FiniFails, L!DestroyCollections, L!FiniDone
  <2> QED BY <1>8, <2>1 DEF ControllerCalls, ControllerStep, vars
<1> QED BY <1>1, <1>2, <1>3, <1>4, <1>5, <1>6, <1>7, <1>8 DEF ApiNext, CallerStep

ApiInv == TypeOK /\ LP!TypeOK /\ LP!LifeInv /\ InStep

\* The invariant holds in every state.
LEMMA ApiInvariant == ApiSpec => []ApiInv
<1>1. ApiInit => TypeOK /\ InStep
  BY InitIInv DEF ApiInit, Init, L!Init, InStep, NoFunction, Function, IInv
<1>2. TypeOK /\ LP!TypeOK /\ InStep /\ [ApiNext]_apiVars => TypeOK' /\ InStep'
  <2> SUFFICES ASSUME TypeOK, LP!TypeOK, InStep, [ApiNext]_apiVars
               PROVE  TypeOK' /\ InStep'
    OBVIOUS
  <2>1. CASE ApiNext
    BY <2>1, LocksStep, InStepStep, TypeStep
  <2>2. CASE UNCHANGED apiVars
    <3>1. TypeOK' BY <2>2, TypeStep DEF apiVars
    <3> QED BY <2>2, <3>1 DEF apiVars, vars, lifeVars, InStep, Goes
  <2> QED BY <2>1, <2>2
<1> QED BY <1>1, <1>2, LifeInvariant, PTL DEF ApiSpec, ApiInv

-----------------------------------------------------------------------------
(* What it is for.                                                         *)

\* With Init and Fini about, and functions that refuse, the callers still move as
\* ApiLocks says.
THEOREM ApiImplementsLocks == ApiSpec => Spec
<1>1. ApiInit => Init
  BY DEF ApiInit
<1>2. ApiInv /\ [ApiNext]_apiVars => [Next]_vars
  BY LocksStep DEF ApiInv, apiVars
<1> QED BY <1>1, <1>2, ApiInvariant, PTL DEF ApiSpec, Spec

\* So no two functions get at a structure at the same time when one changes it,
\* and callers do not all wait for each other.
THEOREM ExportsDoNotConflict == ApiSpec => []NoConflictingAccess /\ []NobodyStuck
  BY ApiImplementsLocks, BodiesDoNotConflict, SomebodyGoesOn, PTL

\* Functions that touch the collections count their callers and ask for an
\* initialised library.
Counting ==
  \A f \in Functions :
    (f.does.reads \cup f.does.writes) \cap Collections # {} =>
      f.counted /\ f.demands = "initialized"

\* Fini destroys the collections only when nobody is inside a function that
\* touches them, provided that all such functions are counted.
THEOREM FiniMeetsNobody ==
  ASSUME Counting PROVE ApiSpec => []TeardownMeetsNobody
<1>1. ApiInv => TeardownMeetsNobody
  <2> SUFFICES ASSUME ApiInv, TearingDown, NEW c \in Callers, InBody(c),
                      (call[c].reads \cup call[c].writes) \cap Collections # {}
               PROVE  FALSE
    BY DEF TeardownMeetsNobody
  <2>1. stage[c] = "operating"
    BY DEF ApiInv, InStep, InBody, Counting
  <2>2. hStreamsState = "FINALIZING"
    BY DEF ApiInv, LP!LifeInv, LP!InFini, TearingDown
  <2>3. PICK u \in Callers \cup {Controller} : stage[u] = "finiWaiting"
    BY <2>1, <2>2 DEF ApiInv, LP!LifeInv
  <2>4. u = Controller
    BY <2>3 DEF ApiInv, LP!LifeInv, LP!InFini
  <2> QED BY <2>3, <2>4 DEF TearingDown
<1> QED BY <1>1, ApiInvariant, PTL

\* The core API counts where it matters.
LEMMA CoreFunctionsCount ==
  \A f \in CoreFunctions :
    (f.does.reads \cup f.does.writes) \cap Collections # {} =>
      f.counted /\ f.demands = "initialized"
<1> DEFINE Counts(f) ==
      (f.does.reads \cup f.does.writes) \cap Collections # {} =>
        f.counted /\ f.demands = "initialized"
<1>1. \A does : Counts(Operation(does))
  BY DEF Operation, Function
<1>2. \A does, counted, demands :
        (does.reads \cup does.writes) \cap Collections = {} =>
          Counts(Function(counted, demands, does))
  BY DEF Function
<1>3. \A does \in {NoCall, GetCurrentOptions, SetOptions, SetLibrariesToLoad} :
        (does.reads \cup does.writes) \cap Collections = {}
  BY DEF NoCall, GetCurrentOptions, SetOptions, SetLibrariesToLoad, Call, Collections
<1>4. \A f \in {hStreams_GetLastError, hStreams_ClearLastError, hStreams_Cfg_SetLogLevel,
              hStreams_Cfg_SetLogInfoType, hStreams_Cfg_SetMKLInterface,
              hStreams_GetCurrentOptions, hStreams_SetOptions,
              hStreams_SetLibrariesToLoad, hStreams_GetVersionStringLen,
              hStreams_Version, hStreams_GetVerbose, hStreams_SetVerbose} :
        \E counted, demands :
          \E does \in {NoCall, GetCurrentOptions, SetOptions, SetLibrariesToLoad} :
            f = Function(counted, demands, does)
  BY Zenon DEF hStreams_GetLastError, hStreams_ClearLastError, hStreams_Cfg_SetLogLevel,
     hStreams_Cfg_SetLogInfoType, hStreams_Cfg_SetMKLInterface, Setting,
     hStreams_GetCurrentOptions, hStreams_SetOptions, hStreams_SetLibrariesToLoad,
     hStreams_GetVersionStringLen, hStreams_Version, hStreams_GetVerbose,
     hStreams_SetVerbose
<1>5. \A f \in CoreFunctions \ {hStreams_GetLastError, hStreams_ClearLastError,
              hStreams_Cfg_SetLogLevel, hStreams_Cfg_SetLogInfoType,
              hStreams_Cfg_SetMKLInterface, hStreams_GetCurrentOptions,
              hStreams_SetOptions, hStreams_SetLibrariesToLoad,
              hStreams_GetVersionStringLen, hStreams_Version,
              hStreams_GetVerbose, hStreams_SetVerbose} :
        \E does : f = Operation(does)
  BY Zenon DEF CoreFunctions, hStreams_GetNumPhysDomains, hStreams_GetPhysDomainDetails,
     hStreams_GetOversubscriptionLevel, hStreams_GetAvailable, hStreams_AddLogDomain,
     hStreams_RmLogDomains, hStreams_GetNumLogDomains, hStreams_GetLogDomainIDList,
     hStreams_GetLogDomainDetails, hStreams_StreamCreate, hStreams_StreamDestroy,
     hStreams_GetNumLogStreams, hStreams_GetLogStreamIDList, hStreams_GetLogStreamDetails,
     hStreams_EnqueueCompute, hStreams_EnqueueData1D, hStreams_EnqueueDataXDomain1D,
     hStreams_StreamSynchronize, hStreams_ThreadSynchronize, hStreams_EventWait,
     hStreams_EventStreamWait, hStreams_Alloc1D, hStreams_Alloc1DEx,
     hStreams_AddBufferLogDomains, hStreams_RmBufferLogDomains,
     hStreams_GetBufferNumLogDomains, hStreams_GetBufferLogDomains,
     hStreams_GetBufferProps, hStreams_DeAlloc
<1> HIDE DEF Counts
<1> QED
  <2> SUFFICES ASSUME NEW f \in CoreFunctions PROVE Counts(f)
    BY DEF Counts
  <2> QED BY <1>1, <1>2, <1>3, <1>4, <1>5

\* A program that keeps to the core API may call Fini while its other threads
\* are inside the library.
THEOREM CoreApiMeetsFini ==
  ASSUME Functions \subseteq CoreFunctions PROVE ApiSpec => []TeardownMeetsNobody
BY CoreFunctionsCount, FiniMeetsNobody DEF Counting
=============================================================================
