---------------------------- MODULE BufferProofs ----------------------------
(***************************************************************************)
(* Proofs about the two halves of a buffer, LogBuffers (where it lies) and *)
(* PhysBuffer (what it must outlive), which share no state.                *)
(*                                                                         *)
(* LogBuffers, for addresses of any width.  The lookup asks two neighbours *)
(* only.  That this is enough comes down to three facts: the neighbours    *)
(* are the next buffers on either side (Above, Behind), in a disjoint      *)
(* collection every other buffer lies beyond one of them, and a range that *)
(* reaches past the upper one without ending in it swallows it.            *)
(*                                                                         *)
(* PhysBuffer, for any clean-up value, any events and any number of        *)
(* registrations, as long as the list is short enough for its length to be *)
(* handed to COI (ListFits): the positions that remove_if keeps are        *)
(* numbered without gaps (KeptAreNumbered), so a clean-up leaves exactly   *)
(* what has not completed (CleanupIsExact).                                *)
(***************************************************************************)
EXTENDS LogBuffers, PhysBuffer, FiniteSetTheorems, WellFoundedInduction, TLAPS

-----------------------------------------------------------------------------
(* LogBuffers: numbers.                                                    *)

\* Nothing is known of 2^Width but that it is an integer.
LEMMA Widths == Max64 \in Int /\ 2^Width = Max64 + 1
  BY WidthAssumption DEF Max64

\* A sum that is an address does not wrap around.
LEMMA NoWrap ==
  ASSUME NEW n \in Nat, n <= Max64
  PROVE  n % 2^Width = n
<1>1. \A m \in Nat \ {0} : n < m => n % m = n
  OBVIOUS
<1> QED BY <1>1, Widths

\* A set of natural numbers has a least one.
LEMMA Least ==
  ASSUME NEW S \in SUBSET Nat, S # {}
  PROVE  \E n \in S : \A k \in S : n <= k
<1>1. PICK n \in S : \A k \in S : ~(<<k, n>> \in OpToRel(<, Nat))
  BY NatLessThanWellFounded, WFMin
<1>2. \A k \in S : ~(k < n)
  BY <1>1 DEF OpToRel
<1> QED BY <1>2

-----------------------------------------------------------------------------
(* Ranges and buffers.                                                     *)

Good(b) == b \in Buffer /\ b.start + b.len <= Max64
Covers(b, addr, len) == b.start <= addr /\ addr + len <= b.start + b.len
Meets(b, addr, len) == b.start < addr + len /\ addr < b.start + b.len

\* What the types say of a buffer.
LEMMA Numbers ==
  ASSUME NEW b, Good(b)
  PROVE  /\ b.start \in Nat /\ b.len \in Nat \ {0}
         /\ b.start <= Max64 /\ b.start + b.len <= Max64
  BY Widths DEF Good, Buffer, Address

\* Set inclusion and intersection of ranges are comparisons of their ends.
LEMMA Ends ==
  ASSUME NEW b, Good(b), NEW addr \in Nat, NEW len \in Nat \ {0}
  PROVE  /\ Bytes(addr, len) \subseteq BytesOf(b) <=> Covers(b, addr, len)
         /\ Bytes(addr, len) \cap BytesOf(b) # {} <=> Meets(b, addr, len)
<1> b.start \in Nat /\ b.len \in Nat \ {0}
  BY Numbers
<1>1. ASSUME Bytes(addr, len) \subseteq BytesOf(b) PROVE Covers(b, addr, len)
  <2>1. addr \in BytesOf(b) /\ addr + len - 1 \in BytesOf(b)
    BY <1>1 DEF Bytes
  <2> QED BY <2>1 DEF BytesOf, Bytes, Covers
<1>2. ASSUME Covers(b, addr, len) PROVE Bytes(addr, len) \subseteq BytesOf(b)
  BY <1>2 DEF BytesOf, Bytes, Covers
<1>3. ASSUME Bytes(addr, len) \cap BytesOf(b) # {} PROVE Meets(b, addr, len)
  BY <1>3 DEF BytesOf, Bytes, Meets
<1>4. ASSUME Meets(b, addr, len) PROVE Bytes(addr, len) \cap BytesOf(b) # {}
  <2>1. CASE addr <= b.start
    <3>1. b.start \in Bytes(addr, len) /\ b.start \in BytesOf(b)
      BY <1>4, <2>1 DEF BytesOf, Bytes, Meets
    <3> QED BY <3>1
  <2>2. CASE b.start < addr
    <3>1. addr \in Bytes(addr, len) /\ addr \in BytesOf(b)
      BY <1>4, <2>2 DEF BytesOf, Bytes, Meets
    <3> QED BY <3>1
  <2> QED BY <2>1, <2>2
<1> QED BY <1>1, <1>2, <1>3, <1>4

\* Two buffers of a disjoint collection that meet are one.
LEMMA Apart ==
  ASSUME TypeOK, BuffersDisjoint, NEW b \in container_, NEW c \in container_,
         Meets(b, c.start, c.len)
  PROVE  b = c
<1>1. Good(b) /\ Good(c)
  BY DEF TypeOK, Good
<1>2. Bytes(c.start, c.len) \cap BytesOf(b) # {}
  BY <1>1, Ends, Numbers
<1> QED BY <1>2 DEF BuffersDisjoint, BytesOf

\* addr_in_ropen_range is what it says, its sum does not wrap around.
LEMMA InRange ==
  ASSUME NEW b, Good(b), NEW addr \in Nat
  PROVE  addr_in_ropen_range(b, addr) <=> b.start <= addr /\ addr < b.start + b.len
<1>1. b.start + b.len \in Nat /\ b.start + b.len <= Max64
  BY Numbers
<1>2. (b.start + b.len) % 2^Width = b.start + b.len
  BY <1>1, NoWrap
<1> QED BY <1>2, Numbers DEF addr_in_ropen_range

-----------------------------------------------------------------------------
(* The neighbours of an address.                                           *)

\* The buffers of the container are good and their starts are numbers.
LEMMA Starts ==
  ASSUME TypeOK, NEW b \in container_
  PROVE  Good(b) /\ b.start \in Nat /\ b.len \in Nat \ {0}
<1>1. Good(b)
  BY DEF TypeOK, Good
<1> QED BY <1>1, Numbers

\* map::lower_bound is the first of the buffers that start no lower.
LEMMA Above ==
  ASSUME TypeOK, NEW addr \in Nat, NotBelow(addr) # {}
  PROVE  /\ lower_bound(addr) \in NotBelow(addr)
         /\ \A c \in NotBelow(addr) : lower_bound(addr).start <= c.start
<1> DEFINE S == {c.start : c \in NotBelow(addr)}
<1>1. S \in SUBSET Nat /\ S # {}
  BY Starts DEF NotBelow
<1>2. PICK n \in S : \A k \in S : n <= k
  BY <1>1, Least
<1>3. PICK b \in NotBelow(addr) : b.start = n
  BY <1>2
<1>4. \A c \in NotBelow(addr) : b.start <= c.start
  BY <1>2, <1>3
<1> QED BY <1>3, <1>4 DEF lower_bound

\* Its predecessor is the last of those that start lower.
LEMMA Behind ==
  ASSUME TypeOK, NEW addr \in Nat, Below(addr) # {}
  PROVE  /\ predecessor(addr) \in Below(addr)
         /\ \A c \in Below(addr) : predecessor(addr).start >= c.start
<1> DEFINE S == {addr - c.start : c \in Below(addr)}
<1>1. S \in SUBSET Nat /\ S # {}
  BY Starts DEF Below
<1>2. PICK n \in S : \A k \in S : n <= k
  BY <1>1, Least
<1>3. PICK b \in Below(addr) : addr - b.start = n
  BY <1>2
<1>4. \A c \in Below(addr) : b.start >= c.start
  <2> SUFFICES ASSUME NEW c \in Below(addr) PROVE b.start >= c.start
    OBVIOUS
  <2>1. addr - b.start <= addr - c.start
    BY <1>2, <1>3
  <2>2. b.start \in Nat /\ c.start \in Nat
    BY Starts DEF Below
  <2> QED BY <2>1, <2>2
<1> QED BY <1>3, <1>4 DEF predecessor

InPredecessor(addr) ==
  Below(addr) # {} /\ predecessor(addr).start + predecessor(addr).len > addr

\* The lookup, with its sums worked out.
LEMMA Lookup ==
  ASSUME TypeOK, NEW addr \in Nat, NEW len \in Nat \ {0}, addr + len - 1 <= Max64
  PROVE  lookupLogBuffer(addr, len) =
           LET Reach(b) == IF Covers(b, addr, len) THEN Found(b) ELSE Partial
               lb == lower_bound(addr)
           IN IF NotBelow(addr) = {} /\ ~InPredecessor(addr) THEN NotFound
              ELSE IF NotBelow(addr) = {} THEN Reach(predecessor(addr))
              ELSE IF lb.start = addr THEN Reach(lb)
              ELSE IF lb.start < addr + len /\ addr + len <= lb.start + lb.len THEN Partial
              ELSE IF InPredecessor(addr) THEN Reach(predecessor(addr))
              ELSE NotFound
<1> DEFINE right_end == addr + len - 1
<1>1. right_end \in Nat /\ (addr + len - 1) % 2^Width = right_end
  BY NoWrap
<1>2. ASSUME Below(addr) # {}
      PROVE  /\ predecessor(addr).start < addr
             /\ addr_in_ropen_range(predecessor(addr), addr) <=> InPredecessor(addr)
             /\ addr_in_ropen_range(predecessor(addr), right_end) <=> Covers(predecessor(addr), addr, len)
  <2> DEFINE p == predecessor(addr)
  <2>1. p \in container_ /\ p.start < addr
    BY <1>2, Behind DEF Below
  <2>2. Good(p) /\ p.start \in Nat /\ p.len \in Nat
    BY <2>1, Starts
  <2>3. addr_in_ropen_range(p, addr) <=> p.start <= addr /\ addr < p.start + p.len
    BY <2>2, InRange
  <2>4. addr_in_ropen_range(p, right_end) <=> p.start <= right_end /\ right_end < p.start + p.len
    BY <1>1, <2>2, InRange
  <2> HIDE DEF p
  <2>5. /\ addr_in_ropen_range(p, addr) <=> p.start + p.len > addr
        /\ addr_in_ropen_range(p, right_end) <=> Covers(p, addr, len)
    BY <2>1, <2>2, <2>3, <2>4 DEF Covers
  <2> QED BY <1>2, <2>1, <2>5 DEF InPredecessor, p
<1>3. ASSUME NotBelow(addr) # {}
      PROVE  LET lb == lower_bound(addr) IN
             /\ lb.start = addr => (addr_in_ropen_range(lb, right_end) <=> Covers(lb, addr, len))
             /\ addr_in_ropen_range(lb, right_end) <=>
                  lb.start < addr + len /\ addr + len <= lb.start + lb.len
  <2> DEFINE lb == lower_bound(addr)
  <2>1. lb \in container_ /\ lb.start >= addr
    BY <1>3, Above DEF NotBelow
  <2>2. Good(lb) /\ lb.start \in Nat /\ lb.len \in Nat
    BY <2>1, Starts
  <2>3. addr_in_ropen_range(lb, right_end) <=> lb.start <= right_end /\ right_end < lb.start + lb.len
    BY <1>1, <2>2, InRange
  <2> HIDE DEF lb
  <2>4. /\ lb.start = addr => (addr_in_ropen_range(lb, right_end) <=> Covers(lb, addr, len))
        /\ addr_in_ropen_range(lb, right_end) <=>
             lb.start < addr + len /\ addr + len <= lb.start + lb.len
    BY <2>1, <2>2, <2>3 DEF Covers
  <2> QED BY <2>4 DEF lb
<1> HIDE DEF right_end
<1>4. (Below(addr) # {} /\ addr_in_ropen_range(predecessor(addr), addr)) <=> InPredecessor(addr)
  BY <1>2 DEF InPredecessor
<1>5. CASE NotBelow(addr) = {} /\ ~InPredecessor(addr)
  BY <1>1, <1>4, <1>5 DEF lookupLogBuffer
<1>6. CASE NotBelow(addr) = {} /\ InPredecessor(addr)
  BY <1>1, <1>2, <1>4, <1>6 DEF lookupLogBuffer, HowFar, InPredecessor
<1>7. CASE NotBelow(addr) # {} /\ lower_bound(addr).start = addr
  BY <1>1, <1>3, <1>4, <1>7 DEF lookupLogBuffer, HowFar
<1>8. CASE NotBelow(addr) # {} /\ lower_bound(addr).start # addr
  BY <1>1, <1>2, <1>3, <1>4, <1>8 DEF lookupLogBuffer, HowFar, InPredecessor
<1> QED BY <1>5, <1>6, <1>7, <1>8

-----------------------------------------------------------------------------
(* What a lookup reports.                                                  *)

\* A buffer that is reported is one of the container that holds all of the range.
LEMMA FoundCovers ==
  ASSUME TypeOK, NEW addr \in Nat, NEW len \in Nat \ {0}, addr + len - 1 <= Max64,
         NEW b \in lookupLogBuffer(addr, len).buf
  PROVE  b \in container_ /\ Covers(b, addr, len)
<1> DEFINE Reach(c) == IF Covers(c, addr, len) THEN Found(c) ELSE Partial
<1>1. \/ lookupLogBuffer(addr, len) \in {NotFound, Partial}
      \/ NotBelow(addr) # {} /\ lookupLogBuffer(addr, len) = Reach(lower_bound(addr))
      \/ Below(addr) # {} /\ lookupLogBuffer(addr, len) = Reach(predecessor(addr))
  BY Lookup DEF InPredecessor
<1>2. \A c : b \in Reach(c).buf => b = c /\ Covers(c, addr, len)
  BY DEF Found, Partial
<1>3. b \notin NotFound.buf /\ b \notin Partial.buf
  BY DEF NotFound, Partial
<1>4. CASE NotBelow(addr) # {} /\ lookupLogBuffer(addr, len) = Reach(lower_bound(addr))
  BY <1>2, <1>4, Above DEF NotBelow
<1>5. CASE Below(addr) # {} /\ lookupLogBuffer(addr, len) = Reach(predecessor(addr))
  BY <1>2, <1>5, Behind DEF Below
<1> QED BY <1>1, <1>3, <1>4, <1>5

\* Of the buffers that start below an address, only the last can reach it.
LEMMA OthersEndBefore ==
  ASSUME TypeOK, BuffersDisjoint, NEW addr \in Nat, NEW c \in Below(addr),
         c.start + c.len > addr
  PROVE  InPredecessor(addr) /\ c = predecessor(addr)
<1> DEFINE p == predecessor(addr)
<1>1. p \in container_ /\ p.start < addr /\ p.start >= c.start
  BY Behind DEF Below
<1>2. c \in container_ /\ c.start < addr
  BY DEF Below
<1>3. Meets(c, p.start, p.len)
  BY <1>1, <1>2, Starts DEF Meets
<1>4. c = p
  BY <1>1, <1>2, <1>3, Apart
<1> QED BY <1>4 DEF InPredecessor

\* The report is right: what covers the range, or meets it, is found by asking the
\* neighbours.
LEMMA ReportIsRight ==
  ASSUME TypeOK, BuffersDisjoint, NEW addr \in Nat, NEW len \in Nat \ {0},
         addr + len - 1 <= Max64, ~Swallows(addr, len)
  PROVE  lookupLogBuffer(addr, len).overlap =
           IF \E b \in container_ : Covers(b, addr, len) THEN "EXACT"
           ELSE IF \E b \in container_ : Meets(b, addr, len) THEN "PARTIAL" ELSE "NO"
<1> DEFINE Reach(c) == IF Covers(c, addr, len) THEN Found(c) ELSE Partial
           lb == lower_bound(addr)
           p == predecessor(addr)
<1>1. \A b \in container_ : Good(b) /\ b.start \in Nat /\ b.len \in Nat \ {0}
  BY Starts
<1>2. \A b \in container_ : Covers(b, addr, len) => Meets(b, addr, len)
  BY <1>1 DEF Covers, Meets
\* A buffer that holds the first byte of the range, or the last, decides.
<1>3. ASSUME NEW b \in container_, b.start <= addr, addr < b.start + b.len
      PROVE  /\ Meets(b, addr, len)
             /\ \A c \in container_ : Covers(c, addr, len) => c = b
  <2>1. Meets(b, addr, len)
    BY <1>1, <1>3 DEF Meets
  <2>2. ASSUME NEW c \in container_, Covers(c, addr, len) PROVE c = b
    <3>1. Meets(c, b.start, b.len)
      BY <1>1, <1>3, <2>2 DEF Covers, Meets
    <3> QED BY <3>1, Apart
  <2> QED BY <2>1, <2>2
<1>4. ASSUME NEW b \in container_, b.start > addr, b.start < addr + len,
             addr + len <= b.start + b.len
      PROVE  /\ Meets(b, addr, len)
             /\ \A c \in container_ : ~Covers(c, addr, len)
  <2>1. Meets(b, addr, len)
    BY <1>1, <1>4 DEF Meets
  <2>2. ASSUME NEW c \in container_, Covers(c, addr, len) PROVE FALSE
    <3>1. Meets(c, b.start, b.len)
      BY <1>1, <1>4, <2>2 DEF Covers, Meets
    <3>2. c = b
      BY <3>1, Apart
    <3> QED BY <1>1, <1>4, <2>2, <3>2 DEF Covers
  <2> QED BY <2>1, <2>2
<1>5. ASSUME NEW b \in container_, \/ b = lb /\ lb.start = addr /\ NotBelow(addr) # {}
                                   \/ b = p /\ InPredecessor(addr)
      PROVE  b.start <= addr /\ addr < b.start + b.len
  <2>1. CASE b = lb /\ lb.start = addr
    BY <1>1, <2>1
  <2>2. CASE b = p /\ InPredecessor(addr)
    <3>1. p.start < addr
      BY <2>2, Behind DEF InPredecessor, Below
    <3> QED BY <1>1, <2>2, <3>1 DEF InPredecessor
  <2> QED BY <1>5, <2>1, <2>2
\* Buffers above that neither start at the range nor hold its end are beyond it.
<1>6. ASSUME NotBelow(addr) # {}, lb.start # addr,
             ~(lb.start < addr + len /\ addr + len <= lb.start + lb.len)
      PROVE  \A c \in NotBelow(addr) : ~Meets(c, addr, len)
  <2>1. lb \in container_ /\ lb.start > addr /\ \A c \in NotBelow(addr) : lb.start <= c.start
    <3>1. lb \in NotBelow(addr) /\ \A c \in NotBelow(addr) : lb.start <= c.start
      BY <1>6, Above
    <3> QED BY <1>1, <1>6, <3>1 DEF NotBelow
  <2>2. ~(lb.start + lb.len < addr + len)
    BY <2>1 DEF Swallows
  <2>3. addr + len <= lb.start
    BY <1>1, <1>6, <2>1, <2>2
  <2> QED BY <1>1, <2>1, <2>3 DEF Meets, NotBelow
<1>7. ASSUME ~InPredecessor(addr) PROVE \A c \in Below(addr) : ~Meets(c, addr, len)
  BY <1>1, <1>7, OthersEndBefore DEF Meets, Below
<1>8. container_ = NotBelow(addr) \cup Below(addr)
  BY <1>1 DEF NotBelow, Below
<1>9. /\ NotBelow(addr) # {} => lb \in container_
      /\ InPredecessor(addr) => p \in container_
  BY Above, Behind DEF InPredecessor, NotBelow, Below
<1> DEFINE Right(report) ==
      report.overlap = IF \E b \in container_ : Covers(b, addr, len) THEN "EXACT"
                       ELSE IF \E b \in container_ : Meets(b, addr, len) THEN "PARTIAL" ELSE "NO"
<1>10. ASSUME NEW b \in container_, b.start <= addr, addr < b.start + b.len
       PROVE  Right(Reach(b))
  BY <1>3, <1>10 DEF Found, Partial
<1>11. ASSUME \A c \in container_ : ~Meets(c, addr, len) PROVE Right(NotFound)
  BY <1>2, <1>11 DEF NotFound
<1>12. ASSUME NEW b \in container_, b.start > addr, b.start < addr + len,
              addr + len <= b.start + b.len
       PROVE  Right(Partial)
  BY <1>4, <1>12 DEF Partial
<1>13. lookupLogBuffer(addr, len) =
           IF NotBelow(addr) = {} /\ ~InPredecessor(addr) THEN NotFound
           ELSE IF NotBelow(addr) = {} THEN Reach(p)
           ELSE IF lb.start = addr THEN Reach(lb)
           ELSE IF lb.start < addr + len /\ addr + len <= lb.start + lb.len THEN Partial
           ELSE IF InPredecessor(addr) THEN Reach(p)
           ELSE NotFound
  BY Lookup
<1>14. ASSUME NotBelow(addr) # {} PROVE lb.start >= addr
  BY <1>14, Above DEF NotBelow
<1> HIDE DEF lb, p, Reach, Right
<1>15. Right(lookupLogBuffer(addr, len))
  <2>1. CASE NotBelow(addr) = {} /\ ~InPredecessor(addr)
    BY <1>7, <1>8, <1>11, <1>13, <2>1
  <2>2. CASE NotBelow(addr) = {} /\ InPredecessor(addr)
    BY <1>5, <1>9, <1>10, <1>13, <2>2
  <2>3. CASE NotBelow(addr) # {} /\ lb.start = addr
    BY <1>5, <1>9, <1>10, <1>13, <2>3
  <2>4. CASE NotBelow(addr) # {} /\ lb.start # addr /\
             lb.start < addr + len /\ addr + len <= lb.start + lb.len
    <3>1. lb.start > addr
      BY <1>1, <1>9, <1>14, <2>4
    <3> QED BY <1>9, <1>12, <1>13, <2>4, <3>1
  <2>5. CASE NotBelow(addr) # {} /\ lb.start # addr /\
             ~(lb.start < addr + len /\ addr + len <= lb.start + lb.len)
    <3>1. CASE InPredecessor(addr)
      BY <1>5, <1>9, <1>10, <1>13, <2>5, <3>1
    <3>2. CASE ~InPredecessor(addr)
      BY <1>6, <1>7, <1>8, <1>11, <1>13, <2>5, <3>2
    <3> QED BY <3>1, <3>2
  <2> QED BY <2>1, <2>2, <2>3, <2>4, <2>5
<1> QED BY <1>15 DEF Right

-----------------------------------------------------------------------------
(* The theorems.                                                           *)

LEMMA TypesInductive ==
  ASSUME TypeOK, [Next]_container_
  PROVE  TypeOK'
<1>1. ASSUME NEW addr \in Address, NEW len \in Sizes, Alloc1DEx(addr, len) PROVE TypeOK'
  <2>1. len \in 1 .. Max64 /\ addr + len <= Max64
    BY <1>1, Widths, SizesAssumption DEF Alloc1DEx, addition_overflow, Address, Max64
  <2> QED BY <1>1, <2>1 DEF Alloc1DEx, TypeOK, Buffer
<1>2. ASSUME NEW addr \in Address, DeAlloc(addr) PROVE TypeOK'
  BY <1>2 DEF DeAlloc, TypeOK
<1>3. CASE UNCHANGED container_
  BY <1>3 DEF TypeOK
<1> QED BY <1>1, <1>2, <1>3 DEF Next

\* No buffer reaches beyond the last address.
THEOREM BuffersTyped == Spec => []TypeOK
<1>1. Init => TypeOK
  BY DEF Init, TypeOK
<1>2. TypeOK /\ [Next]_container_ => TypeOK'
  BY TypesInductive
<1> QED BY <1>1, <1>2, PTL DEF Spec

\* Whatever buffers there are, as long as they are disjoint: asking two neighbours
\* of an address tells what asking all buffers would.
THEOREM LookupExact == Spec => []LookupIsExact
<1>1. TypeOK => LookupIsExact
  <2> SUFFICES ASSUME TypeOK, BuffersDisjoint, NEW addr \in Address \ {0},
                      NEW len \in 1 .. Max64,
                      ~addition_overflow(addr, len), ~Swallows(addr, len)
               PROVE  /\ lookupLogBuffer(addr, len).overlap = Overlap(addr, len)
                      /\ \A b \in lookupLogBuffer(addr, len).buf :
                           Bytes(addr, len) \subseteq BytesOf(b)
    BY DEF LookupIsExact
  <2>1. addr \in Nat /\ len \in Nat \ {0} /\ addr + len - 1 <= Max64
    BY Widths DEF Address, addition_overflow
  <2>2. \A b \in container_ :
          /\ Bytes(addr, len) \subseteq BytesOf(b) <=> Covers(b, addr, len)
          /\ Bytes(addr, len) \cap BytesOf(b) # {} <=> Meets(b, addr, len)
    BY <2>1, Ends, Starts
  <2>3. lookupLogBuffer(addr, len).overlap = Overlap(addr, len)
    BY <2>1, <2>2, ReportIsRight DEF Overlap
  <2>4. \A b \in lookupLogBuffer(addr, len).buf : Bytes(addr, len) \subseteq BytesOf(b)
    BY <2>1, <2>2, FoundCovers
  <2> QED BY <2>3, <2>4
<1> QED BY <1>1, BuffersTyped, PTL

\* A transfer that is accepted stays inside a buffer at each end, sums that do not
\* fit included.
THEOREM TransfersStayInside == Spec => []TransfersInBounds
<1>1. TypeOK => TransfersInBounds
  <2> SUFFICES ASSUME TypeOK, NEW dst \in Address, NEW src \in Address,
                      NEW size \in 1 .. Max64, NEW sameDomain \in BOOLEAN,
                      EnqueueData(dst, src, size, sameDomain) = "SUCCESS",
                      NEW addr \in {dst, src}
               PROVE  \E b \in container_ : Bytes(addr, size) \subseteq BytesOf(b)
    BY DEF TransfersInBounds
  <2>1. lookupLogBuffer(addr, 1).buf # {} /\ ~PastTheEnd(addr, size)
    BY DEF EnqueueData
  <2>2. addr \in Nat /\ size \in Nat \ {0} /\ addr <= Max64 /\ size <= Max64
    BY Widths DEF Address
  <2>3. PICK b \in lookupLogBuffer(addr, 1).buf :
          ~add_gt(addr, size, (b.start + b.len) % 2^Width)
    BY <2>1 DEF PastTheEnd
  <2>4. b \in container_ /\ Covers(b, addr, 1)
    BY <2>2, <2>3, FoundCovers
  <2>5. Good(b) /\ b.start \in Nat /\ b.len \in Nat /\ b.start + b.len <= Max64
    BY <2>4, Starts, Numbers
  <2>6. (b.start + b.len) % 2^Width = b.start + b.len
    BY <2>5, NoWrap
  <2>7. addr + size <= Max64
    BY <2>2, <2>3, Widths DEF add_gt, addition_overflow
  <2>8. (addr + size) % 2^Width = addr + size
    BY <2>2, <2>7, NoWrap
  <2>9. addr + size <= b.start + b.len
    BY <2>2, <2>3, <2>5, <2>6, <2>8 DEF add_gt
  <2>10. Covers(b, addr, size)
    BY <2>4, <2>9 DEF Covers
  <2> QED BY <2>2, <2>4, <2>5, <2>10, Ends
<1> QED BY <1>1, BuffersTyped, PTL

\* A range that the lookup takes for free begins below every buffer it meets: a
\* buffer that holds its first byte is one of the two neighbours.
LEMMA FreeBeginsBelow ==
  ASSUME TypeOK, BuffersDisjoint, NEW addr \in Nat, NEW len \in Nat \ {0},
         addr + len - 1 <= Max64, lookupLogBuffer(addr, len).overlap = "NO",
         NEW b \in container_, Meets(b, addr, len)
  PROVE  addr < b.start
<1>1. ~InPredecessor(addr) /\ (NotBelow(addr) = {} \/ lower_bound(addr).start # addr)
  BY Lookup DEF Found, Partial
<1>2. b.start \in Nat /\ b.len \in Nat \ {0}
  BY Starts
<1>3. b.start # addr
  <2> SUFFICES ASSUME b.start = addr PROVE FALSE
    OBVIOUS
  <2>1. b \in NotBelow(addr)
    BY <1>2 DEF NotBelow
  <2>2. lower_bound(addr) \in NotBelow(addr) /\ lower_bound(addr).start <= addr
    BY <2>1, Above
  <2> QED BY <1>1, <2>1, <2>2, Starts DEF NotBelow
<1>4. ~(b.start < addr)
  BY <1>1, <1>2, OthersEndBefore DEF Below, Meets
<1> QED BY <1>2, <1>3, <1>4

\* Among disjoint buffers, in whatever arrangement, Alloc1DEx accepts a range that
\* overlaps some only if it begins below all of these and swallows one: this is
\* all that is missed by a lookup that asks two neighbours.
THEOREM OverlapsBySwallowing == Spec => OnlySwallowersOverlap
<1> DEFINE Met(r) == {b \in container_ : BytesOf(b) \cap BytesOf(r) # {}}
           OK == \A new \in container_' \ container_ : Met(new) # {} =>
                   /\ \A b \in Met(new) : new.start < b.start
                   /\ \E b \in Met(new) : b.start + b.len < new.start + new.len
<1>1. ASSUME TypeOK, BuffersDisjoint, NEW addr \in Address, NEW len \in Sizes, Alloc1DEx(addr, len)
      PROVE  OK
  <2> DEFINE new == [start |-> addr, len |-> len]
  <2>1. addr \in Nat /\ len \in Nat \ {0} /\ addr + len - 1 <= Max64
    BY <1>1, Widths, SizesAssumption DEF Alloc1DEx, addition_overflow, Address, Max64
  <2>2. lookupLogBuffer(addr, len).overlap = "NO" /\ container_' = container_ \cup {new}
    BY <1>1 DEF Alloc1DEx
  <2>3. \A b \in container_ :
          /\ Good(b) /\ b.start \in Nat /\ b.len \in Nat
          /\ b \in Met(new) <=> Meets(b, addr, len)
    <3> SUFFICES ASSUME NEW b \in container_
                 PROVE  /\ Good(b) /\ b.start \in Nat /\ b.len \in Nat
                        /\ BytesOf(b) \cap BytesOf(new) # {} <=> Meets(b, addr, len)
      OBVIOUS
    <3>1. Good(b) /\ b.start \in Nat /\ b.len \in Nat
      BY <1>1, Starts
    <3>2. BytesOf(new) = Bytes(addr, len)
      BY DEF BytesOf
    <3>3. Bytes(addr, len) \cap BytesOf(b) # {} <=> Meets(b, addr, len)
      BY <2>1, <3>1, Ends
    <3> QED BY <3>1, <3>2, <3>3
  <2>4. \A b \in Met(new) : addr < b.start
    BY <1>1, <2>1, <2>2, <2>3, FreeBeginsBelow
  <2>5. ASSUME Met(new) # {}
        PROVE  \E b \in Met(new) : b.start + b.len < addr + len
    <3>1. PICK c \in container_ : Meets(c, addr, len)
      BY <2>3, <2>5
    <3>2. Swallows(addr, len)
      <4> SUFFICES ASSUME ~Swallows(addr, len) PROVE FALSE
        OBVIOUS
      <4>1. "NO" = IF \E b \in container_ : Covers(b, addr, len) THEN "EXACT"
                   ELSE IF \E b \in container_ : Meets(b, addr, len) THEN "PARTIAL" ELSE "NO"
        BY <1>1, <2>1, <2>2, ReportIsRight
      <4> QED BY <3>1, <4>1
    <3>3. PICK b \in container_ : b.start > addr /\ b.start + b.len < addr + len
      BY <3>2 DEF Swallows
    <3>4. Meets(b, addr, len)
      BY <2>1, <2>3, <3>3 DEF Meets
    <3> QED BY <2>3, <3>3, <3>4
  <2>6. new.start = addr /\ new.len = len /\ \A r \in container_' \ container_ : r = new
    BY <2>2
  <2> HIDE DEF new, Met
  <2> QED BY <2>4, <2>5, <2>6
<1>2. ASSUME NEW addr \in Address, DeAlloc(addr) PROVE OK
  BY <1>2 DEF DeAlloc
<1>3. TypeOK /\ [Next]_container_ => [BuffersDisjoint => OK]_container_
  BY <1>1, <1>2 DEF Next
<1> QED BY <1>3, BuffersTyped, PTL DEF Spec, OnlySwallowersOverlap

-----------------------------------------------------------------------------
(* PhysBuffer: what a clean-up leaves.                                      *)

\* The list's length fits the count that COI is given.
ListFits == Len(pending_actions_) < 2^CountWidth

\* Then that count is the length, and a poll looks at the whole list.
LEMMA CountIsLength ==
  ASSUME PBTypeOK, ListFits
  PROVE  /\ EventCount = Len(pending_actions_)
         /\ Completed = {i \in 1..Len(pending_actions_) : pending_actions_[i] \in done}
<1>1. Len(pending_actions_) \in Nat /\ 2^CountWidth \in Int
  BY PBAssumption DEF PBTypeOK
<1>2. \A n \in Nat, m \in Int : n < m => n % m = n
  OBVIOUS
<1> QED BY <1>1, <1>2 DEF ListFits, EventCount, Completed

\* The positions before one, counted, number those that are kept.
LEMMA KeptAreNumbered ==
  ASSUME PBTypeOK
  PROVE  /\ IsFiniteSet(Kept)
         /\ Cardinality(Kept) \in Nat
         /\ \A k \in 1..Cardinality(Kept) :
              \E i \in Kept : Cardinality(keptBefore(i)) = k
         /\ \A i \in Kept : Cardinality(keptBefore(i)) \in 1..Cardinality(Kept)
         /\ \A i, j \in Kept : Cardinality(keptBefore(i)) = Cardinality(keptBefore(j)) => i = j
<1> DEFINE rank == [i \in Kept |-> Cardinality(keptBefore(i))]
           n == Cardinality(Kept)
<1>1. Len(pending_actions_) \in Nat /\ Kept \subseteq 1..Len(pending_actions_)
  BY DEF PBTypeOK, Kept
<1>2. IsFiniteSet(Kept) /\ n \in Nat
  <2>1. IsFiniteSet(1..Len(pending_actions_))
    BY <1>1, FS_Interval
  <2>2. IsFiniteSet(Kept)
    BY <1>1, <2>1, FS_Subset
  <2> QED BY <2>2, FS_CardinalityType
<1>3. \A i \in Kept : keptBefore(i) \in SUBSET Kept /\ i \in keptBefore(i)
  BY <1>1 DEF keptBefore
<1>4. \A i \in Kept : /\ IsFiniteSet(keptBefore(i))
                      /\ Cardinality(keptBefore(i)) \in Nat
                      /\ Cardinality(keptBefore(i)) <= n
                      /\ Cardinality(keptBefore(i)) # 0
  <2> SUFFICES ASSUME NEW i \in Kept
               PROVE  /\ IsFiniteSet(keptBefore(i))
                      /\ Cardinality(keptBefore(i)) \in Nat
                      /\ Cardinality(keptBefore(i)) <= n
                      /\ Cardinality(keptBefore(i)) # 0
    OBVIOUS
  <2>1. IsFiniteSet(keptBefore(i)) /\ Cardinality(keptBefore(i)) <= n
    BY <1>2, <1>3, FS_Subset
  <2>2. Cardinality(keptBefore(i)) \in Nat
    BY <2>1, FS_CardinalityType
  <2>3. Cardinality(keptBefore(i)) # 0
    BY <1>3, <2>1, FS_EmptySet
  <2> QED BY <2>1, <2>2, <2>3
<1>5. \A i \in Kept : Cardinality(keptBefore(i)) \in 1..n
  BY <1>2, <1>4
<1>6. \A i, j \in Kept : i < j => Cardinality(keptBefore(i)) # Cardinality(keptBefore(j))
  <2> SUFFICES ASSUME NEW i \in Kept, NEW m \in Kept, i < m,
                      Cardinality(keptBefore(i)) = Cardinality(keptBefore(m))
               PROVE  FALSE
    OBVIOUS
  <2>1. Kept \subseteq Int
    BY <1>1
  <2>2. \A k \in Kept : k <= i => k <= m
    BY <2>1
  <2>3. ~(m <= i) /\ m <= m
    BY <2>1
  <2>4. keptBefore(i) \subseteq keptBefore(m) /\ m \notin keptBefore(i) /\ m \in keptBefore(m)
    BY <2>2, <2>3 DEF keptBefore
  <2>5. keptBefore(i) = keptBefore(m)
    BY <1>4, <2>4, FS_Subset
  <2> QED BY <2>4, <2>5
<1>7. \A i, j \in Kept : Cardinality(keptBefore(i)) = Cardinality(keptBefore(j)) => i = j
  BY <1>1, <1>6
<1>8. rank \in Injection(Kept, 1..n)
  BY <1>5, <1>7 DEF Injection, IsInjective
<1>9. IsFiniteSet(1..n) /\ Cardinality(1..n) = n
  BY <1>2, FS_Interval
<1>10. rank \in Surjection(Kept, 1..n)
  BY <1>8, <1>9, FS_Injection
<1>11. \A k \in 1..n : \E i \in Kept : rank[i] = k
  BY <1>10 DEF Surjection
<1> QED BY <1>2, <1>5, <1>7, <1>11

\* remove_if leaves the events at the positions that are kept.
LEMMA RemainingEvents ==
  ASSUME PBTypeOK
  PROVE  /\ Remaining \in Seq(Events)
         /\ \A k \in 1..Len(Remaining) : \E i \in Kept : Remaining[k] = pending_actions_[i]
         /\ \A i \in Kept : \E k \in 1..Len(Remaining) : Remaining[k] = pending_actions_[i]
<1> DEFINE n == Cardinality(Kept)
           at(k) == CHOOSE i \in Kept : Cardinality(keptBefore(i)) = k
<1>1. n \in Nat
  BY KeptAreNumbered
<1>2. \A k \in 1..n : at(k) \in Kept /\ Cardinality(keptBefore(at(k))) = k
  BY KeptAreNumbered
<1>3. \A i \in Kept : pending_actions_[i] \in Events
  BY DEF PBTypeOK, Kept
<1> HIDE DEF at
<1>4. Remaining = [k \in 1..n |-> pending_actions_[at(k)]]
  BY DEF Remaining, at
<1>5. Remaining \in [1..n -> Events]
  BY <1>2, <1>3, <1>4
<1>6. Remaining \in Seq(Events) /\ Len(Remaining) = n
  BY <1>1, <1>5
<1>7. \A k \in 1..n : Remaining[k] = pending_actions_[at(k)]
  BY <1>4
<1>8. ASSUME NEW i \in Kept PROVE \E k \in 1..n : Remaining[k] = pending_actions_[i]
  <2>1. Cardinality(keptBefore(i)) \in 1..n
    BY KeptAreNumbered
  <2>2. at(Cardinality(keptBefore(i))) = i
    BY <1>2, <2>1, KeptAreNumbered
  <2> QED BY <1>7, <2>1, <2>2
<1> QED BY <1>2, <1>6, <1>7, <1>8

\* What a clean-up leaves is what has not completed.
LEMMA CleanupIsExact ==
  ASSUME PBTypeOK, ListFits
  PROVE  /\ removeCompletedActions \in Seq(Events)
         /\ ToSet(removeCompletedActions) = ToSet(pending_actions_) \ done
<1>1. Len(pending_actions_) \in Nat /\ pending_actions_ \in Seq(Events)
  BY DEF PBTypeOK
<1>2. Kept = {i \in 1..Len(pending_actions_) : pending_actions_[i] \notin done}
  BY CountIsLength DEF Kept, functorIndex
<1>3. CASE AllCompleted
  <2>1. \A i \in 1..Len(pending_actions_) : pending_actions_[i] \in done
    BY <1>3, CountIsLength DEF AllCompleted
  <2>2. removeCompletedActions = <<>>
    BY <1>3, CountIsLength, <1>1 DEF removeCompletedActions, AllCompleted
  <2> QED BY <2>1, <2>2 DEF ToSet
<1>4. CASE ~AllCompleted /\ EventCount = 0
  <2>1. Len(pending_actions_) = 0
    BY <1>4, CountIsLength
  <2>2. removeCompletedActions = pending_actions_
    BY <1>4 DEF removeCompletedActions
  <2> QED BY <1>1, <2>1, <2>2 DEF ToSet
<1>5. CASE ~AllCompleted /\ EventCount # 0
  <2>1. removeCompletedActions = Remaining
    BY <1>5 DEF removeCompletedActions
  <2>2. ASSUME NEW e \in ToSet(Remaining) PROVE e \in ToSet(pending_actions_) \ done
    <3>1. PICK k \in 1..Len(Remaining) : e = Remaining[k]
      BY RemainingEvents DEF ToSet
    <3>2. PICK i \in Kept : e = pending_actions_[i]
      BY <3>1, RemainingEvents
    <3> QED BY <1>1, <1>2, <3>2 DEF ToSet
  <2>3. ASSUME NEW e \in ToSet(pending_actions_) \ done PROVE e \in ToSet(Remaining)
    <3>1. PICK i \in 1..Len(pending_actions_) : e = pending_actions_[i]
      BY <1>1 DEF ToSet
    <3>2. i \in Kept
      BY <1>2, <3>1
    <3>3. PICK k \in 1..Len(Remaining) : Remaining[k] = e
      BY <3>1, <3>2, RemainingEvents
    <3> QED BY <3>3, RemainingEvents DEF ToSet
  <2> QED BY <2>1, <2>2, <2>3, RemainingEvents
<1> QED BY <1>3, <1>4, <1>5

\* A list with one more event.
LEMMA OneMore ==
  ASSUME NEW s \in Seq(Events), NEW e \in Events
  PROVE  ToSet(Append(s, e)) = ToSet(s) \cup {e}
<1> DEFINE t == Append(s, e)
           n == Len(s)
<1>1. n \in Nat /\ DOMAIN s = 1..n
  OBVIOUS
<1>2. DOMAIN t = 1..(n + 1) /\ t[n + 1] = e
  OBVIOUS
<1>3. \A i \in 1..n : t[i] = s[i]
  OBVIOUS
<1> HIDE DEF t, n
<1>4. ASSUME NEW x \in ToSet(t) PROVE x \in ToSet(s) \cup {e}
  <2>1. PICK i \in 1..(n + 1) : x = t[i]
    BY <1>2 DEF ToSet
  <2>2. i \in 1..n \/ i = n + 1
    BY <1>1
  <2> QED BY <1>1, <1>2, <1>3, <2>1, <2>2 DEF ToSet
<1>5. ASSUME NEW x \in ToSet(s) PROVE x \in ToSet(t)
  <2>1. PICK i \in 1..n : x = s[i]
    BY <1>1 DEF ToSet
  <2>2. i \in 1..(n + 1) /\ x = t[i]
    BY <1>1, <1>3, <2>1
  <2> QED BY <1>2, <2>2 DEF ToSet
<1>6. e \in ToSet(t)
  <2>1. n + 1 \in 1..(n + 1)
    BY <1>1
  <2> QED BY <1>2, <2>1 DEF ToSet
<1> QED BY <1>4, <1>5, <1>6 DEF t

\* What a registration does to the list, with or without a clean-up.
LEMMA Registered ==
  ASSUME PBTypeOK, ListFits, NEW e \in Events, addPendingAction(e)
  PROVE  /\ pending_actions_' \in Seq(Events)
         /\ ToSet(pending_actions_') \ done = (ToSet(pending_actions_) \cup {e}) \ done
<1> DEFINE rest == IF action_cleanup_counter_ + 1 >= CleanupValue
                   THEN removeCompletedActions ELSE pending_actions_
<1>1. rest \in Seq(Events) /\ ToSet(rest) \ done = ToSet(pending_actions_) \ done
  BY CleanupIsExact DEF PBTypeOK
<1>2. pending_actions_' = Append(rest, e)
  BY DEF addPendingAction
<1> HIDE DEF rest
<1>3. ToSet(Append(rest, e)) = ToSet(rest) \cup {e}
  BY <1>1, OneMore
<1> QED BY <1>1, <1>2, <1>3

-----------------------------------------------------------------------------
(* The invariant of the pending list.                                      *)

PBInv ==
  /\ PBTypeOK
  /\ PendingIsUnfinished
  /\ DestroyedMeansFinished

\* Every step keeps it.
LEMMA PBInvStep ==
  ASSUME PBInv, ListFits, [PBNext]_pbVars
  PROVE  PBInv'
<1> USE DEF PBInv
<1>1. ASSUME NEW e \in Events, addPendingAction(e) PROVE PBInv'
  <2>1. PBTypeOK'
    BY <1>1, Registered, PBAssumption DEF PBTypeOK, addPendingAction
  <2>2. PendingIsUnfinished'
    BY <1>1, Registered DEF PendingIsUnfinished, addPendingAction
  <2>3. DestroyedMeansFinished'
    BY <1>1 DEF DestroyedMeansFinished, addPendingAction
  <2> QED BY <2>1, <2>2, <2>3
<1>2. ASSUME NEW e \in Events, Complete(e) PROVE PBInv'
  BY <1>2 DEF Complete, PBTypeOK, PendingIsUnfinished, DestroyedMeansFinished
<1>3. CASE Destroy
  <2>1. ToSet(pending_actions_) \subseteq done
    BY <1>3, CountIsLength DEF Destroy, ToSet, PBTypeOK
  <2> QED BY <1>3, <2>1 DEF Destroy, PBTypeOK, PendingIsUnfinished, DestroyedMeansFinished
<1>4. CASE UNCHANGED pbVars
  BY <1>4 DEF pbVars, PBTypeOK, PendingIsUnfinished, DestroyedMeansFinished
<1> QED BY <1>1, <1>2, <1>3, <1>4 DEF PBNext

\* It holds as long as the list fits.
LEMMA PBInvariance == PBSpec /\ []ListFits => []PBInv
<1>1. PBInit => PBInv
  <2> SUFFICES ASSUME PBInit PROVE PBInv
    OBVIOUS
  <2>1. PBTypeOK
    <3>1. <<>> \in Seq(Events) /\ {} \subseteq Events
      OBVIOUS
    <3>2. 0 \in 0..(CleanupValue - 1) /\ 0 \in 0..MaxAdds
      BY PBAssumption
    <3> QED BY <3>1, <3>2 DEF PBInit, PBTypeOK
  <2>2. ToSet(pending_actions_) = {}
    BY DEF PBInit, ToSet
  <2> QED BY <2>1, <2>2 DEF PBInit, PBInv, PendingIsUnfinished, DestroyedMeansFinished
<1> QED BY <1>1, PBInvStep, PTL DEF PBSpec

\* A buffer's list and the actions registered with it have the same unfinished
\* actions: removeCompletedActions forgets what has completed and nothing else.
THEOREM PendingIsExact == PBSpec /\ []ListFits => []PendingIsUnfinished
  BY PBInvariance, PTL DEF PBInv

\* The destructor of a physical buffer returns after the last of its actions.
THEOREM DestroyedLast == PBSpec /\ []ListFits => []DestroyedMeansFinished
  BY PBInvariance, PTL DEF PBInv

\* A clean-up leaves only actions that have not completed, and the new one.
THEOREM CleanupForgets == PBSpec /\ []ListFits => CleanupForgetsCompleted
<1> DEFINE Forgets == action_cleanup_counter_' < action_cleanup_counter_ =>
       \A i \in 1..(Len(pending_actions_') - 1) : pending_actions_'[i] \notin done
<1>1. PBInv /\ ListFits /\ [PBNext]_pbVars => [Forgets]_pbVars
  <2> SUFFICES ASSUME PBInv, ListFits, PBNext, action_cleanup_counter_' < action_cleanup_counter_,
                      NEW i \in 1..(Len(pending_actions_') - 1)
               PROVE  pending_actions_'[i] \notin done
    OBVIOUS
  <2>1. PICK e \in Events : addPendingAction(e)
    BY DEF PBNext, Destroy, Complete, PBInv, PBTypeOK
  <2>2. pending_actions_' = Append(removeCompletedActions, e)
    BY <2>1 DEF addPendingAction, PBInv, PBTypeOK
  <2>3. removeCompletedActions \in Seq(Events)
        /\ ToSet(removeCompletedActions) = ToSet(pending_actions_) \ done
    BY CleanupIsExact DEF PBInv
  <2>4. i \in 1..Len(removeCompletedActions) /\ pending_actions_'[i] = removeCompletedActions[i]
    BY <2>2, <2>3
  <2>5. removeCompletedActions[i] \in ToSet(removeCompletedActions)
    BY <2>3, <2>4 DEF ToSet
  <2> QED BY <2>3, <2>4, <2>5
<1> QED BY <1>1, PBInvariance, PTL DEF CleanupForgetsCompleted, PBSpec
=============================================================================
