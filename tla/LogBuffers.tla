----------------------------- MODULE LogBuffers -----------------------------
(***************************************************************************)
(* hStreams_LogBufferCollection, the map from addresses to buffers, and    *)
(* the calls that rely on its lookups: Alloc1DEx, which must not create    *)
(* overlapping buffers, DeAlloc, and the checks of a transfer's operands.  *)
(* All run under log_buffers_lock, so that each is one step.               *)
(*                                                                         *)
(* Addresses are unsigned numbers of Width bits, 64 in the code.           *)
(***************************************************************************)
EXTENDS Integers

CONSTANTS
  Width,   \* bits of an address
  Sizes    \* the sizes the application allocates

ASSUME WidthAssumption == Width \in Nat
ASSUME SizesAssumption == Sizes \subseteq 1..(2^Width - 1)

VARIABLE container_   \* the buffers, records of start and length

Max64 == 2^Width - 1
Address == 0..Max64
Buffer == [start : Address, len : 1..Max64]

\* No buffer reaches beyond the last address.
TypeOK == container_ \subseteq {b \in Buffer : b.start + b.len <= Max64}

-----------------------------------------------------------------------------
\* a + b does not fit.
addition_overflow(a, b) == Max64 - b < a

\* Mutant: the sum wraps around unnoticed.
add_gt_wraps(a, b, c) == (a + b) % 2^Width > c

add_gt(a, b, c) == addition_overflow(a, b) \/ (a + b) % 2^Width > c

addr_in_ropen_range(buf, addr) ==
  addr >= buf.start /\ addr < (buf.start + buf.len) % 2^Width

\* What a lookup reports; buf is a set of at most one buffer.
Found(b) == [overlap |-> "EXACT", buf |-> {b}]
Partial == [overlap |-> "PARTIAL", buf |-> {}]
NotFound == [overlap |-> "NO", buf |-> {}]

\* The address lies in b: all of the range, or only its lower end?
HowFar(b, right_end) == IF addr_in_ropen_range(b, right_end) THEN Found(b) ELSE Partial

\* The neighbours of an address: map::lower_bound and its predecessor.
NotBelow(addr) == {b \in container_ : b.start >= addr}
Below(addr) == {b \in container_ : b.start < addr}
lower_bound(addr) ==
  CHOOSE b \in NotBelow(addr) : \A c \in NotBelow(addr) : b.start <= c.start
predecessor(addr) ==
  CHOOSE b \in Below(addr) : \A c \in Below(addr) : b.start >= c.start

\* Mutants: the predecessor is not looked at; the right end is one too far.
lookupLogBuffer_successorOnly(addr, len) ==
  LET right_end == (addr + len - 1) % 2^Width IN
  IF NotBelow(addr) = {} THEN NotFound
  ELSE IF lower_bound(addr).start = addr THEN HowFar(lower_bound(addr), right_end)
  ELSE IF addr_in_ropen_range(lower_bound(addr), right_end) THEN Partial
  ELSE NotFound
lookupLogBuffer_endIncluded(addr, len) ==
  LET right_end == (addr + len) % 2^Width
      inPredecessor == Below(addr) # {} /\ addr_in_ropen_range(predecessor(addr), addr) IN
  IF NotBelow(addr) = {} /\ ~inPredecessor THEN NotFound
  ELSE IF NotBelow(addr) = {} THEN HowFar(predecessor(addr), right_end)
  ELSE IF lower_bound(addr).start = addr THEN HowFar(lower_bound(addr), right_end)
  ELSE IF addr_in_ropen_range(lower_bound(addr), right_end) THEN Partial
  ELSE IF inPredecessor THEN HowFar(predecessor(addr), right_end)
  ELSE NotFound

\* For len > 0; an empty container has neither neighbour.
lookupLogBuffer(addr, len) ==
  LET right_end == (addr + len - 1) % 2^Width
      inPredecessor == Below(addr) # {} /\ addr_in_ropen_range(predecessor(addr), addr) IN
  IF NotBelow(addr) = {} /\ ~inPredecessor THEN NotFound
  ELSE IF NotBelow(addr) = {} THEN HowFar(predecessor(addr), right_end)
  ELSE IF lower_bound(addr).start = addr THEN HowFar(lower_bound(addr), right_end)
  ELSE IF addr_in_ropen_range(lower_bound(addr), right_end) THEN Partial
  ELSE IF inPredecessor THEN HowFar(predecessor(addr), right_end)
  ELSE NotFound

-----------------------------------------------------------------------------
(* Operations.                                                             *)

\* NULL is no address of a buffer.  When an instantiation cannot be created the
\* buffer does not get into the collection, which is a step that changes nothing.
Alloc1DEx(addr, len) ==
  /\ addr # 0
  /\ ~addition_overflow(addr, len)
  /\ lookupLogBuffer(addr, len).overlap = "NO"
  /\ container_' = container_ \cup {[start |-> addr, len |-> len]}

DeAlloc(addr) ==
  /\ addr # 0
  /\ lookupLogBuffer(addr, 1).buf # {}
  /\ container_' = container_ \ lookupLogBuffer(addr, 1).buf

Init == container_ = {}

Next ==
  \E addr \in Address :
    \/ \E len \in Sizes : Alloc1DEx(addr, len)
    \/ DeAlloc(addr)

Spec == Init /\ [][Next]_container_
-----------------------------------------------------------------------------
(* The checks of EnqueueData1D and EnqueueDataXDomain1D.                   *)

PastTheEnd(addr, size) ==
  \A b \in lookupLogBuffer(addr, 1).buf :
    add_gt(addr, size, (b.start + b.len) % 2^Width)

\* The transfer's outcome when its domains and instantiations exist.
EnqueueData(dst, src, size, sameDomain) ==
  IF dst = 0 \/ src = 0 THEN "NULL_PTR"
  ELSE IF sameDomain /\ (add_gt(src, size, dst) \/ add_gt(dst, size, src)) THEN "OVERLAPPING"
  ELSE IF lookupLogBuffer(dst, 1).buf = {} THEN "NOT_FOUND"
  ELSE IF PastTheEnd(dst, size) THEN "OUT_OF_RANGE"
  ELSE IF lookupLogBuffer(src, 1).buf = {} THEN "NOT_FOUND"
  ELSE IF PastTheEnd(src, size) THEN "OUT_OF_RANGE"
  ELSE "SUCCESS"

-----------------------------------------------------------------------------
(* Properties.                                                             *)

\* The bytes of a buffer or of any other range.
Bytes(addr, len) == addr..(addr + len - 1)
BytesOf(b) == Bytes(b.start, b.len)

\* No byte belongs to two buffers.  Not so once a range has swallowed a buffer.
BuffersDisjoint ==
  \A b, c \in container_ : b = c \/ BytesOf(b) \cap BytesOf(c) = {}

\* Alloc1DEx refuses a range that overlaps buffers, with one exception: among
\* disjoint buffers it may accept one that begins below every buffer it overlaps
\* and has one of them strictly inside.
OnlySwallowersOverlap ==
  [][BuffersDisjoint =>
       \A new \in container_' \ container_ :
         LET met == {b \in container_ : BytesOf(b) \cap BytesOf(new) # {}} IN
           met # {} =>
             /\ \A b \in met : new.start < b.start
             /\ \E b \in met : b.start + b.len < new.start + new.len]_container_

\* What a lookup should report of a range.
Overlap(addr, len) ==
  IF \E b \in container_ : Bytes(addr, len) \subseteq BytesOf(b) THEN "EXACT"
  ELSE IF \E b \in container_ : Bytes(addr, len) \cap BytesOf(b) # {} THEN "PARTIAL"
  ELSE "NO"

\* A buffer that begins and ends strictly inside the range.
Swallows(addr, len) ==
  \E b \in container_ : b.start > addr /\ b.start + b.len < addr + len

\* Looking at two neighbours is enough: as long as buffers are disjoint and none
\* is strictly inside the range, the lookup reports what a search of all buffers
\* would, and an address finds its buffer.
LookupIsExact ==
  BuffersDisjoint =>
    \A addr \in Address \ {0}, len \in 1..Max64 :
      ~addition_overflow(addr, len) /\ ~Swallows(addr, len) =>
        /\ lookupLogBuffer(addr, len).overlap = Overlap(addr, len)
        /\ \A b \in lookupLogBuffer(addr, len).buf : Bytes(addr, len) \subseteq BytesOf(b)

\* A transfer that is accepted reads and writes inside one buffer each, whatever
\* the size, those that make address plus size wrap around included.
TransfersInBounds ==
  \A dst, src \in Address, size \in 1..Max64, sameDomain \in BOOLEAN :
    EnqueueData(dst, src, size, sameDomain) = "SUCCESS" =>
      \A addr \in {dst, src} : \E b \in container_ : Bytes(addr, size) \subseteq BytesOf(b)

=============================================================================
