------------------------- MODULE BufferInstancesProofs -------------------------
(* Why the instances of logical buffers stay consistent, and why a call    *)
(* that fails leaves no trace, for any number of buffers and domains.      *)
EXTENDS BufferInstances, FiniteSetTheorems, TLAPS

\* An instance that is not shared is its holder's own.  The pair it is named after
\* is of an id given out before; while that domain exists, it lies on its
\* physical domain: the name of a new instance is free.
Names ==
  /\ \A x \in DOMAIN phys_buffers_ : ~properties_[x[1]].aliased => phys_buffers_[x] = x
  /\ \A i \in DOMAIN instances :
       /\ i[2] < next_log_dom_id
       /\ i[2] \in DOMAIN phys_dom_ => instances[i].phys = phys_dom_[i[2]]
Finite == IsFiniteSet(DOMAIN phys_buffers_)

InstInv ==
  /\ NothingDangles
  /\ SharingIsExact
  /\ RefCountsMatch
  /\ Names
  /\ Finite

\* What a call works on: its new buffer or domain, and nothing else, is outside
\* the collections.
CallInv ==
  /\ call = [op |-> call.op, asked |-> call.asked, done |-> call.done, before |-> call.before]
  /\ call.op = "none" => call = Idle
  /\ call.op # "AddLogDomain" => log_domains = DOMAIN phys_dom_
  /\ call.op # "Alloc1DEx" => log_buffers = DOMAIN properties_
  /\ call.asked \subseteq (DOMAIN properties_) \X (DOMAIN phys_dom_)
  /\ call.op = "Alloc1DEx" => \A x \in call.asked : x[1] \notin log_buffers
  /\ call.op = "AddLogDomain" =>
       \A x \in call.asked : x[1] \in log_buffers /\ x[2] \notin log_domains

\* How the attachments and instances relate to those the call began with.
SinceCallInv ==
  call # Idle =>
    LET at == call.before[3]
        inst == call.before[4]
    IN
    /\ call.before = <<log_domains, log_buffers, at, inst>>
    /\ at = [x \in DOMAIN at |-> phys_buffers_[x]]
    /\ DOMAIN phys_buffers_ = DOMAIN at \cup call.done
    /\ DOMAIN at \cap call.done = {}
    /\ \A x \in DOMAIN at : x[1] \in log_buffers /\ x[2] \in log_domains
    /\ inst = [i \in {phys_buffers_[x] : x \in DOMAIN at} |->
                 [phys |-> instances[i].phys,
                  refcount |-> Cardinality({x \in DOMAIN at : at[x] = i})]]

IInv == TypeOK /\ InstInv /\ CallInv /\ SinceCallInv

-----------------------------------------------------------------------------
(* Functions with changing domains.                                        *)

\* A function extended by one argument.
LEMMA ExtendFacts ==
  ASSUME NEW f, NEW x, NEW v
  PROVE /\ DOMAIN Extend(f, x, v) = DOMAIN f \cup {x}
        /\ Extend(f, x, v)[x] = v
        /\ \A y \in DOMAIN f \ {x} : Extend(f, x, v)[y] = f[y]
BY DEF Extend

\* A function without some of its arguments.
LEMMA WithoutFacts ==
  ASSUME NEW f, NEW S
  PROVE /\ DOMAIN Without(f, S) = DOMAIN f \ S
        /\ \A y \in DOMAIN f \ S : Without(f, S)[y] = f[y]
        /\ Without(f, S) = [y \in DOMAIN f \ S |-> f[y]]
BY DEF Without, Restrict

\* Types of what a detachment or an attachment changes.
InstTypes ==
  /\ DOMAIN phys_buffers_ \subseteq Pairs
  /\ DOMAIN instances \subseteq Pairs
  /\ phys_buffers_ \in [DOMAIN phys_buffers_ -> Pairs]
  /\ instances \in [DOMAIN instances -> [phys : PhysDomains, refcount : Int]]

-----------------------------------------------------------------------------
(* Detaching.                                                              *)

\* What is left when the attachments in S end.
LEMMA Detached ==
  ASSUME InstTypes, InstInv, NEW S, detach(S)
  PROVE /\ DOMAIN phys_buffers_' = DOMAIN phys_buffers_ \ S
        /\ \A x \in DOMAIN phys_buffers_' : phys_buffers_'[x] = phys_buffers_[x]
        /\ phys_buffers_' = [x \in DOMAIN phys_buffers_ \ S |-> phys_buffers_[x]]
        /\ DOMAIN instances' = {i \in DOMAIN instances : Holders(i) \ S # {}}
        /\ instances' = [i \in DOMAIN instances' |->
             [phys |-> instances[i].phys, refcount |-> Cardinality(Holders(i) \ S)]]
        /\ \A i \in DOMAIN instances' : Holders(i)' = Holders(i) \ S
        /\ InstTypes'
<1> USE DEF InstInv
<1>1. /\ DOMAIN phys_buffers_' = DOMAIN phys_buffers_ \ S
      /\ \A x \in DOMAIN phys_buffers_' : phys_buffers_'[x] = phys_buffers_[x]
      /\ phys_buffers_' = [x \in DOMAIN phys_buffers_ \ S |-> phys_buffers_[x]]
  BY DEF detach, Without, Restrict
<1>2. ASSUME NEW i \in DOMAIN instances
      PROVE /\ RefsAfter(i, S) = Cardinality(Holders(i) \ S)
            /\ RefsAfter(i, S) \in Nat
            /\ RefsAfter(i, S) = 0 <=> Holders(i) \ S = {}
  <2>1. IsFiniteSet(Holders(i))
    BY FS_Subset DEF Finite, Holders
  <2>2. {x \in S \cap DOMAIN phys_buffers_ : phys_buffers_[x] = i} = Holders(i) \cap S
    BY DEF Holders
  <2>3. /\ Cardinality(Holders(i) \ S) = Cardinality(Holders(i)) - Cardinality(Holders(i) \cap S)
        /\ IsFiniteSet(Holders(i) \ S)
    BY <2>1, FS_Difference
  <2>4. Cardinality(Holders(i) \ S) \in Nat
    BY <2>3, FS_CardinalityType
  <2>5. Cardinality(Holders(i) \ S) = 0 <=> Holders(i) \ S = {}
    BY <2>3, FS_EmptySet
  <2> QED BY <2>2, <2>3, <2>4, <2>5 DEF RefsAfter, RefCountsMatch
<1>3. DOMAIN instances' = {i \in DOMAIN instances : Holders(i) \ S # {}}
  BY <1>2 DEF detach
<1>4. ASSUME NEW i \in DOMAIN instances'
      PROVE instances'[i] =
              [phys |-> instances[i].phys, refcount |-> Cardinality(Holders(i) \ S)]
  <2>1. i \in DOMAIN instances
    BY <1>3
  <2>2. instances[i] \in [phys : PhysDomains, refcount : Int]
    BY <2>1 DEF InstTypes
  <2>3. instances'[i] = [instances[i] EXCEPT !.refcount = RefsAfter(i, S)]
    BY DEF detach
  <2> QED BY <1>2, <2>1, <2>2, <2>3
<1>5. instances' = [i \in DOMAIN instances' |-> instances'[i]]
  BY DEF detach
<1>6. instances' = [i \in DOMAIN instances' |->
        [phys |-> instances[i].phys, refcount |-> Cardinality(Holders(i) \ S)]]
  BY <1>4, <1>5
<1>7. \A i \in DOMAIN instances' : Holders(i)' = Holders(i) \ S
  BY <1>1 DEF Holders
<1>8. InstTypes'
  <2>1. \A i \in DOMAIN instances' : instances'[i] \in [phys : PhysDomains, refcount : Int]
    <3> SUFFICES ASSUME NEW i \in DOMAIN instances'
        PROVE instances'[i] \in [phys : PhysDomains, refcount : Int]
      OBVIOUS
    <3>1. i \in DOMAIN instances
      BY <1>3
    <3>2. instances[i].phys \in PhysDomains
      BY <3>1 DEF InstTypes
    <3>3. Cardinality(Holders(i) \ S) \in Int
      BY <1>2, <3>1
    <3> QED BY <1>4, <3>2, <3>3
  <2>2. instances' \in [DOMAIN instances' -> [phys : PhysDomains, refcount : Int]]
    BY <1>5, <2>1
  <2>3. DOMAIN instances' \subseteq Pairs
    BY <1>3 DEF InstTypes
  <2>4. /\ DOMAIN phys_buffers_' \subseteq Pairs
        /\ phys_buffers_' \in [DOMAIN phys_buffers_' -> Pairs]
    BY <1>1 DEF InstTypes
  <2> QED BY <2>2, <2>3, <2>4 DEF InstTypes
<1> QED BY <1>1, <1>3, <1>6, <1>7, <1>8

\* The instances stay consistent when the attachments in S end, provided that the
\* buffers and domains of the others stay.
LEMMA DetachKeeps ==
  ASSUME InstTypes, InstInv, NEW S, detach(S),
         \A x \in DOMAIN phys_buffers_ \ S :
           /\ x[1] \in DOMAIN properties_' /\ properties_'[x[1]] = properties_[x[1]]
           /\ x[2] \in DOMAIN phys_dom_'
           /\ phys_dom_'[x[2]] = phys_dom_[x[2]],
         \A d \in DOMAIN phys_dom_' : d \in DOMAIN phys_dom_ /\ phys_dom_'[d] = phys_dom_[d],
         next_log_dom_id' = next_log_dom_id
  PROVE InstInv' /\ InstTypes'
<1> USE DEF InstInv
<1>1. /\ DOMAIN phys_buffers_' = DOMAIN phys_buffers_ \ S
      /\ \A x \in DOMAIN phys_buffers_' : phys_buffers_'[x] = phys_buffers_[x]
      /\ DOMAIN instances' = {i \in DOMAIN instances : Holders(i) \ S # {}}
      /\ instances' = [i \in DOMAIN instances' |->
           [phys |-> instances[i].phys, refcount |-> Cardinality(Holders(i) \ S)]]
      /\ \A i \in DOMAIN instances' : Holders(i)' = Holders(i) \ S
      /\ InstTypes'
  BY Detached
<1>2. ASSUME NEW i \in DOMAIN instances'
      PROVE /\ i \in DOMAIN instances
            /\ instances'[i].phys = instances[i].phys
            /\ instances'[i].refcount = Cardinality(Holders(i) \ S)
  <2> DEFINE F == [j \in DOMAIN instances' |->
                     [phys |-> instances[j].phys, refcount |-> Cardinality(Holders(j) \ S)]]
  <2>1. instances' = F
    BY <1>1
  <2>2. F[i] = [phys |-> instances[i].phys, refcount |-> Cardinality(Holders(i) \ S)]
    OBVIOUS
  <2>3. instances'[i] = [phys |-> instances[i].phys, refcount |-> Cardinality(Holders(i) \ S)]
    BY <2>1, <2>2
  <2>4. i \in DOMAIN instances
    BY <1>1
  <2> QED BY <2>3, <2>4
<1>3. NothingDangles'
  <2> SUFFICES ASSUME NEW x \in DOMAIN phys_buffers_'
      PROVE /\ x[1] \in DOMAIN properties_'
            /\ x[2] \in DOMAIN phys_dom_'
            /\ phys_buffers_'[x] \in DOMAIN instances'
            /\ phys_buffers_'[x][1] = x[1]
            /\ instances'[phys_buffers_'[x]].phys = phys_dom_'[x[2]]
    BY DEF NothingDangles
  <2>1. x \in DOMAIN phys_buffers_ \ S /\ phys_buffers_'[x] = phys_buffers_[x]
    BY <1>1
  <2>2. /\ phys_buffers_[x] \in DOMAIN instances
        /\ phys_buffers_[x][1] = x[1]
        /\ instances[phys_buffers_[x]].phys = phys_dom_[x[2]]
    BY <2>1 DEF NothingDangles
  <2>3. x \in Holders(phys_buffers_[x]) \ S
    BY <2>1 DEF Holders
  <2>4. phys_buffers_[x] \in DOMAIN instances'
    BY <1>1, <2>2, <2>3
  <2> QED BY <1>2, <2>1, <2>2, <2>4
<1>4. SharingIsExact'
  <2> SUFFICES ASSUME NEW x \in DOMAIN phys_buffers_', NEW y \in DOMAIN phys_buffers_'
      PROVE (phys_buffers_'[x] = phys_buffers_'[y])
              <=> \/ x = y
                  \/ x[1] = y[1] /\ properties_'[x[1]].aliased /\ phys_dom_'[x[2]] = phys_dom_'[y[2]]
    BY DEF SharingIsExact
  <2> QED BY <1>1 DEF SharingIsExact
<1>5. RefCountsMatch'
  BY <1>1, <1>2 DEF RefCountsMatch
<1>6. Names'
  <2>1. \A x \in DOMAIN phys_buffers_' : ~properties_'[x[1]].aliased => phys_buffers_'[x] = x
    BY <1>1 DEF Names
  <2>2. \A i \in DOMAIN instances' :
          /\ i[2] < next_log_dom_id'
          /\ i[2] \in DOMAIN phys_dom_' => instances'[i].phys = phys_dom_'[i[2]]
    BY <1>2 DEF Names
  <2> QED BY <2>1, <2>2 DEF Names
<1>7. Finite'
  BY <1>1, FS_Subset DEF Finite
<1> QED BY <1>1, <1>3, <1>4, <1>5, <1>6, <1>7
-----------------------------------------------------------------------------
(* Attaching.                                                              *)

\* The instances stay consistent when a buffer is attached to one more domain,
\* and the others keep what they have.
LEMMA Attached ==
  ASSUME TypeOK, InstInv, NEW b, NEW d,
         b \in DOMAIN properties_, d \in DOMAIN phys_dom_,
         attachExistingLogDomain(b, d),
         UNCHANGED <<next_log_dom_id, phys_dom_, properties_>>
  PROVE /\ InstInv'
        /\ InstTypes'
        /\ <<b, d>> \notin DOMAIN phys_buffers_
        /\ DOMAIN phys_buffers_' = DOMAIN phys_buffers_ \cup {<<b, d>>}
        /\ \A x \in DOMAIN phys_buffers_ : phys_buffers_'[x] = phys_buffers_[x]
        /\ \A i \in DOMAIN instances :
             i \in DOMAIN instances' /\ instances'[i].phys = instances[i].phys
<1> USE DEF InstInv
<1> DEFINE n == <<b, d>>
<1>0. /\ n \in Pairs /\ n[1] = b /\ n[2] = d
      /\ n \notin DOMAIN phys_buffers_
      /\ d < next_log_dom_id
      /\ phys_dom_[d] \in PhysDomains
  <2>1. n \notin DOMAIN phys_buffers_
    BY DEF attachExistingLogDomain
  <2>2. d \in 0..(next_log_dom_id - 1) /\ next_log_dom_id \in 1..(MaxLogDomID + 1)
    BY DEF TypeOK
  <2>3. d \in LogDomIDs /\ d < next_log_dom_id
    BY <2>2, MaxLogDomAssumption DEF LogDomIDs
  <2>4. b \in Buffers /\ phys_dom_[d] \in PhysDomains
    BY DEF TypeOK
  <2> QED BY <2>1, <2>3, <2>4 DEF Pairs
<1>1. IsFiniteSet(DOMAIN phys_buffers_ \cup {n})
  BY FS_AddElement DEF Finite
<1>2. \A i : IsFiniteSet(Holders(i))
  BY FS_Subset DEF Finite, Holders
<1>3. CASE tryAttachToAliasingBuffer(b, d)
  <2>1. PICK x \in Aliasing(b, d) :
          /\ phys_buffers_' = Extend(phys_buffers_, n, phys_buffers_[x])
          /\ instances' = [instances EXCEPT ![phys_buffers_[x]].refcount = @ + 1]
    BY <1>3 DEF tryAttachToAliasingBuffer
  <2> DEFINE k == phys_buffers_[x]
  <2>2. /\ x \in DOMAIN phys_buffers_ /\ x[1] = b
        /\ properties_[b].aliased /\ phys_dom_[x[2]] = phys_dom_[d]
        /\ k \in DOMAIN instances /\ k[1] = b
        /\ instances[k].phys = phys_dom_[d]
    BY DEF Aliasing, NothingDangles
  <2>3. /\ DOMAIN phys_buffers_' = DOMAIN phys_buffers_ \cup {n}
        /\ phys_buffers_'[n] = k
        /\ \A y \in DOMAIN phys_buffers_ : phys_buffers_'[y] = phys_buffers_[y]
    BY <1>0, <2>1 DEF Extend
  <2>4. DOMAIN instances' = DOMAIN instances
    BY <2>1
  <2>5. ASSUME NEW i \in DOMAIN instances
        PROVE /\ instances'[i].phys = instances[i].phys
              /\ instances'[i].refcount = IF i = k THEN instances[i].refcount + 1
                                           ELSE instances[i].refcount
              /\ instances'[i] \in [phys : PhysDomains, refcount : Int]
    <3>1. instances[i] \in [phys : PhysDomains, refcount : Int]
      BY DEF TypeOK
    <3>2. instances'[i] = IF i = k THEN [instances[i] EXCEPT !.refcount = @ + 1] ELSE instances[i]
      BY <2>1
    <3> QED BY <3>1, <3>2
  <2>6. InstTypes'
    <3>1. instances' \in [DOMAIN instances' -> [phys : PhysDomains, refcount : Int]]
      <4>1. instances' = [i \in DOMAIN instances |-> instances'[i]]
        BY <2>1
      <4> QED BY <2>4, <2>5, <4>1
    <3>2. phys_buffers_' \in [DOMAIN phys_buffers_' -> Pairs]
      <4>1. k \in Pairs
        BY <2>2 DEF TypeOK
      <4> QED BY <2>1, <2>3, <4>1 DEF TypeOK, Extend
    <3> QED BY <1>0, <2>3, <2>4, <3>1, <3>2 DEF InstTypes, TypeOK
  <2>7. NothingDangles'
    <3> SUFFICES ASSUME NEW y \in DOMAIN phys_buffers_'
        PROVE /\ y[1] \in DOMAIN properties_
              /\ y[2] \in DOMAIN phys_dom_
              /\ phys_buffers_'[y] \in DOMAIN instances'
              /\ phys_buffers_'[y][1] = y[1]
              /\ instances'[phys_buffers_'[y]].phys = phys_dom_[y[2]]
      BY DEF NothingDangles
    <3>1. CASE y = n
      BY <1>0, <2>2, <2>3, <2>4, <2>5, <3>1
    <3>2. CASE y # n
      <4>1. y \in DOMAIN phys_buffers_ /\ phys_buffers_'[y] = phys_buffers_[y]
        BY <2>3, <3>2
      <4> QED BY <2>4, <2>5, <4>1 DEF NothingDangles
    <3> QED BY <3>1, <3>2
  <2>8. SharingIsExact'
    <3> SUFFICES ASSUME NEW y \in DOMAIN phys_buffers_', NEW z \in DOMAIN phys_buffers_'
        PROVE (phys_buffers_'[y] = phys_buffers_'[z])
                <=> \/ y = z
                    \/ y[1] = z[1] /\ properties_[y[1]].aliased /\ phys_dom_[y[2]] = phys_dom_[z[2]]
      BY DEF SharingIsExact
    <3> DEFINE like(v) == IF v = n THEN x ELSE v
    <3>1. \A v \in {y, z} :
            /\ like(v) \in DOMAIN phys_buffers_
            /\ phys_buffers_'[v] = phys_buffers_[like(v)]
            /\ like(v)[1] = v[1]
            /\ phys_dom_[like(v)[2]] = phys_dom_[v[2]]
      BY <1>0, <2>2, <2>3
    <3>2. (phys_buffers_[like(y)] = phys_buffers_[like(z)])
            <=> \/ like(y) = like(z)
                \/ /\ like(y)[1] = like(z)[1] /\ properties_[like(y)[1]].aliased
                   /\ phys_dom_[like(y)[2]] = phys_dom_[like(z)[2]]
      BY <3>1 DEF SharingIsExact
    <3>3. like(y) = like(z) /\ y # z => y[1] = z[1] /\ properties_[y[1]].aliased
      BY <1>0, <2>2
    <3>4. like(y) = like(z) => phys_dom_[y[2]] = phys_dom_[z[2]]
      BY <3>1
    <3>5. y = z => like(y) = like(z)
      OBVIOUS
    <3> HIDE DEF like
    <3> QED BY <3>1, <3>2, <3>3, <3>4, <3>5
  <2>9. RefCountsMatch'
    <3> SUFFICES ASSUME NEW i \in DOMAIN instances'
        PROVE Holders(i)' # {} /\ instances'[i].refcount = Cardinality(Holders(i)')
      BY DEF RefCountsMatch
    <3>0. i \in DOMAIN instances /\ Holders(i) # {}
          /\ instances[i].refcount = Cardinality(Holders(i))
      BY <2>4 DEF RefCountsMatch
    <3>1. CASE i = k
      <4>1. Holders(i)' = Holders(i) \cup {n} /\ n \notin Holders(i)
        BY <1>0, <2>3, <3>1 DEF Holders
      <4>2. Cardinality(Holders(i) \cup {n}) = Cardinality(Holders(i)) + 1
        BY <1>2, <4>1, FS_AddElement
      <4> QED BY <2>5, <3>0, <3>1, <4>1, <4>2
    <3>2. CASE i # k
      <4>1. Holders(i)' = Holders(i)
        BY <1>0, <2>3, <3>2 DEF Holders
      <4> QED BY <2>5, <3>0, <3>2, <4>1
    <3> QED BY <3>1, <3>2
  <2>10. Names'
    <3>1. \A y \in DOMAIN phys_buffers_' : ~properties_'[y[1]].aliased => phys_buffers_'[y] = y
      BY <1>0, <2>2, <2>3 DEF Names
    <3>2. \A i \in DOMAIN instances' :
            /\ i[2] < next_log_dom_id'
            /\ i[2] \in DOMAIN phys_dom_' => instances'[i].phys = phys_dom_'[i[2]]
      BY <2>4, <2>5 DEF Names
    <3> QED BY <3>1, <3>2 DEF Names
  <2>11. Finite'
    BY <1>1, <2>3 DEF Finite
  <2> QED BY <1>0, <2>3, <2>4, <2>5, <2>6, <2>7, <2>8, <2>9, <2>10, <2>11
<1>4. CASE NewInstance(b, d)
  <2>1. /\ Aliasing(b, d) = {}
        /\ phys_buffers_' = Extend(phys_buffers_, n, n)
        /\ instances' = Extend(instances, n, [phys |-> phys_dom_[d], refcount |-> 1])
    BY <1>4 DEF NewInstance
  <2>2. n \notin DOMAIN instances
    <3> SUFFICES ASSUME n \in DOMAIN instances PROVE FALSE
      OBVIOUS
    <3>1. PICK x \in DOMAIN phys_buffers_ : phys_buffers_[x] = n
      BY DEF RefCountsMatch, Holders
    <3>2. x[1] = b /\ instances[n].phys = phys_dom_[x[2]] /\ x # n
      BY <1>0, <3>1 DEF NothingDangles
    <3>3. instances[n].phys = phys_dom_[d]
      BY <1>0 DEF Names
    <3>4. properties_[b].aliased
      BY <3>1, <3>2 DEF Names
    <3>5. x \in Aliasing(b, d)
      BY <3>2, <3>3, <3>4 DEF Aliasing
    <3> QED BY <2>1, <3>5
  <2>3. /\ DOMAIN phys_buffers_' = DOMAIN phys_buffers_ \cup {n}
        /\ phys_buffers_'[n] = n
        /\ \A y \in DOMAIN phys_buffers_ : phys_buffers_'[y] = phys_buffers_[y]
    BY <1>0, <2>1 DEF Extend
  <2>4. /\ DOMAIN instances' = DOMAIN instances \cup {n}
        /\ instances'[n] = [phys |-> phys_dom_[d], refcount |-> 1]
        /\ \A i \in DOMAIN instances : instances'[i] = instances[i]
    BY <2>1, <2>2 DEF Extend
  <2>5. \A y \in DOMAIN phys_buffers_ : phys_buffers_[y] \in DOMAIN instances /\ phys_buffers_[y] # n
    BY <2>2 DEF NothingDangles
  <2>6. InstTypes'
    <3>1. instances' \in [DOMAIN instances' -> [phys : PhysDomains, refcount : Int]]
      <4>1. \A i \in DOMAIN instances' : instances'[i] \in [phys : PhysDomains, refcount : Int]
        BY <1>0, <2>4 DEF TypeOK
      <4>2. instances' = [i \in DOMAIN instances' |-> instances'[i]]
        BY <2>1 DEF Extend
      <4> QED BY <4>1, <4>2
    <3>2. phys_buffers_' \in [DOMAIN phys_buffers_' -> Pairs]
      BY <1>0, <2>1, <2>3 DEF TypeOK, Extend
    <3> QED BY <1>0, <2>3, <2>4, <3>1, <3>2 DEF InstTypes, TypeOK
  <2>7. NothingDangles'
    <3> SUFFICES ASSUME NEW y \in DOMAIN phys_buffers_'
        PROVE /\ y[1] \in DOMAIN properties_
              /\ y[2] \in DOMAIN phys_dom_
              /\ phys_buffers_'[y] \in DOMAIN instances'
              /\ phys_buffers_'[y][1] = y[1]
              /\ instances'[phys_buffers_'[y]].phys = phys_dom_[y[2]]
      BY DEF NothingDangles
    <3>1. CASE y = n
      BY <1>0, <2>3, <2>4, <3>1
    <3>2. CASE y # n
      BY <2>3, <2>4, <2>5, <3>2 DEF NothingDangles
    <3> QED BY <3>1, <3>2
  <2>8. SharingIsExact'
    <3> SUFFICES ASSUME NEW y \in DOMAIN phys_buffers_', NEW z \in DOMAIN phys_buffers_'
        PROVE (phys_buffers_'[y] = phys_buffers_'[z])
                <=> \/ y = z
                    \/ y[1] = z[1] /\ properties_[y[1]].aliased /\ phys_dom_[y[2]] = phys_dom_[z[2]]
      BY DEF SharingIsExact
    <3>1. \A v \in DOMAIN phys_buffers_ :
            ~(v[1] = b /\ properties_[b].aliased /\ phys_dom_[v[2]] = phys_dom_[d])
      BY <2>1 DEF Aliasing
    <3>2. CASE y = n /\ z = n
      BY <3>2
    <3>3. CASE y = n /\ z # n
      BY <1>0, <2>3, <2>5, <3>1, <3>3
    <3>4. CASE y # n /\ z = n
      BY <1>0, <2>3, <2>5, <3>1, <3>4
    <3>5. CASE y # n /\ z # n
      BY <2>3, <3>5 DEF SharingIsExact
    <3> QED BY <3>2, <3>3, <3>4, <3>5
  <2>9. RefCountsMatch'
    <3> SUFFICES ASSUME NEW i \in DOMAIN instances'
        PROVE Holders(i)' # {} /\ instances'[i].refcount = Cardinality(Holders(i)')
      BY DEF RefCountsMatch
    <3>1. CASE i = n
      <4>1. Holders(n)' = {n}
        BY <2>3, <2>5 DEF Holders
      <4>2. Cardinality({n}) = 1
        BY FS_Singleton
      <4>3. instances'[n].refcount = 1
        BY <2>4
      <4> HIDE DEF n
      <4> QED BY <3>1, <4>1, <4>2, <4>3
    <3>2. CASE i # n
      <4>1. i \in DOMAIN instances /\ Holders(i)' = Holders(i)
        BY <1>0, <2>3, <2>4, <3>2 DEF Holders
      <4> QED BY <2>4, <4>1 DEF RefCountsMatch
    <3> QED BY <3>1, <3>2
  <2>10. Names'
    <3>1. \A y \in DOMAIN phys_buffers_' : ~properties_'[y[1]].aliased => phys_buffers_'[y] = y
      BY <2>3 DEF Names
    <3>2. \A i \in DOMAIN instances' :
            /\ i[2] < next_log_dom_id'
            /\ i[2] \in DOMAIN phys_dom_' => instances'[i].phys = phys_dom_'[i[2]]
      BY <1>0, <2>4 DEF Names
    <3> QED BY <3>1, <3>2 DEF Names
  <2>11. Finite'
    BY <1>1, <2>3 DEF Finite
  <2> QED BY <1>0, <2>3, <2>4, <2>6, <2>7, <2>8, <2>9, <2>10, <2>11
<1> QED BY <1>3, <1>4 DEF attachExistingLogDomain
-----------------------------------------------------------------------------
(* Initially, and the steps.                                               *)

\* The instances do not mind new buffers and new domains.
LEMMA InstancesUntouched ==
  ASSUME InstInv, UNCHANGED instanceVars,
         \A b \in DOMAIN properties_ : b \in DOMAIN properties_' /\ properties_'[b] = properties_[b],
         \A d \in DOMAIN phys_dom_ : d \in DOMAIN phys_dom_' /\ phys_dom_'[d] = phys_dom_[d],
         \A i \in DOMAIN instances : i[2] \in DOMAIN phys_dom_' => i[2] \in DOMAIN phys_dom_,
         \A i \in DOMAIN instances : i[2] < next_log_dom_id'
  PROVE InstInv'
<1> USE DEF InstInv, instanceVars
<1>1. NothingDangles' BY DEF NothingDangles
<1>2. SharingIsExact'
  <2> SUFFICES ASSUME NEW x \in DOMAIN phys_buffers_, NEW y \in DOMAIN phys_buffers_
      PROVE (phys_buffers_[x] = phys_buffers_[y])
              <=> \/ x = y
                  \/ x[1] = y[1] /\ properties_'[x[1]].aliased /\ phys_dom_'[x[2]] = phys_dom_'[y[2]]
    BY DEF SharingIsExact
  <2>1. /\ x[1] \in DOMAIN properties_ /\ x[2] \in DOMAIN phys_dom_
        /\ y[1] \in DOMAIN properties_ /\ y[2] \in DOMAIN phys_dom_
    BY DEF NothingDangles
  <2> QED BY <2>1 DEF SharingIsExact
<1>3. RefCountsMatch' BY DEF RefCountsMatch, Holders
<1>4. Names'
  <2>1. \A x \in DOMAIN phys_buffers_' : ~properties_'[x[1]].aliased => phys_buffers_'[x] = x
    BY DEF Names, NothingDangles
  <2>2. \A i \in DOMAIN instances' :
          /\ i[2] < next_log_dom_id'
          /\ i[2] \in DOMAIN phys_dom_' => instances'[i].phys = phys_dom_'[i[2]]
    BY DEF Names
  <2> QED BY <2>1, <2>2 DEF Names
<1>5. Finite' BY DEF Finite
<1> QED BY <1>1, <1>2, <1>3, <1>4, <1>5

\* Nothing is attached at first.
LEMMA Fresh ==
  Init => IInv
<1> SUFFICES ASSUME Init PROVE IInv
  OBVIOUS
<1> USE DEF Init, Empty
<1>1. TypeOK
  BY PhysDomainAssumption, MaxLogDomAssumption DEF TypeOK, HSTR_SRC_LOG_DOMAIN, Idle
<1>2. InstInv
  BY FS_EmptySet DEF InstInv, NothingDangles, SharingIsExact, RefCountsMatch, Names, Finite
<1>3. CallInv BY DEF CallInv, Idle
<1>4. SinceCallInv BY DEF SinceCallInv
<1> QED BY <1>1, <1>2, <1>3, <1>4 DEF IInv

\* A call that begins is yet to attach anything.
LEMMA Begun ==
  ASSUME IInv, NEW op, NEW asked, Begin(op, asked), op # "none", UNCHANGED instanceVars,
         UNCHANGED <<log_domains, log_buffers>>
  PROVE SinceCallInv'
<1> USE DEF IInv, InstInv, instanceVars
<1>1. /\ call = Idle
      /\ call'.op = op /\ call'.asked = asked /\ call'.done = {}
      /\ call'.before = <<log_domains, log_buffers, phys_buffers_, instances>>
  BY DEF Begin, State
<1>2. log_buffers = DOMAIN properties_ /\ log_domains = DOMAIN phys_dom_
  BY <1>1 DEF CallInv, Idle
<1>3. DOMAIN instances = {phys_buffers_[x] : x \in DOMAIN phys_buffers_}
  BY DEF NothingDangles, RefCountsMatch, Holders
<1>4. ASSUME NEW i \in DOMAIN instances
      PROVE instances[i] = [phys |-> instances[i].phys,
                            refcount |-> Cardinality({x \in DOMAIN phys_buffers_ : phys_buffers_[x] = i})]
  <2>1. instances[i] \in [phys : PhysDomains, refcount : Int]
    BY DEF TypeOK
  <2>2. instances[i].refcount = Cardinality({x \in DOMAIN phys_buffers_ : phys_buffers_[x] = i})
    BY DEF RefCountsMatch, Holders
  <2> QED BY <2>1, <2>2
<1>5. instances = [i \in DOMAIN instances |-> instances[i]]
  BY DEF TypeOK
<1>6. instances = [i \in {phys_buffers_[x] : x \in DOMAIN phys_buffers_} |->
        [phys |-> instances[i].phys,
         refcount |-> Cardinality({x \in DOMAIN phys_buffers_ : phys_buffers_[x] = i})]]
  BY <1>3, <1>4, <1>5
<1>7. phys_buffers_ = [x \in DOMAIN phys_buffers_ |-> phys_buffers_[x]]
  BY DEF TypeOK
<1>8. \A x \in DOMAIN phys_buffers_ : x[1] \in log_buffers /\ x[2] \in log_domains
  BY <1>2 DEF NothingDangles
<1> QED BY <1>1, <1>6, <1>7, <1>8 DEF SinceCallInv

\* The domains there are have ids within the bound.
LEMMA IdsInRange ==
  ASSUME TypeOK
  PROVE DOMAIN phys_dom_ \subseteq LogDomIDs /\ log_domains \subseteq LogDomIDs
BY MaxLogDomAssumption DEF TypeOK, LogDomIDs

\* Alloc1DEx makes a buffer that is in no collection yet.
LEMMA AllocBegins ==
  ASSUME IInv, NEW b \in Buffers, NEW props \in Props, NEW doms \in SUBSET log_domains,
         Alloc1DEx(b, props, doms)
  PROVE IInv'
<1> USE DEF IInv, Alloc1DEx, domainVars, instanceVars
<1>0. /\ call = Idle
      /\ call' = [op |-> "Alloc1DEx", asked |-> {b} \X doms, done |-> {}, before |-> State]
      /\ log_buffers = DOMAIN properties_ /\ log_domains = DOMAIN phys_dom_
  BY DEF Begin, CallInv, Idle
<1>1. /\ DOMAIN properties_' = DOMAIN properties_ \cup {b}
      /\ \A c \in DOMAIN properties_ : properties_'[c] = properties_[c]
      /\ properties_' \in [DOMAIN properties_' -> Props]
  BY <1>0 DEF Extend, TypeOK
<1>2. TypeOK'
  <2>1. call'.asked \subseteq Pairs
    BY <1>0, IdsInRange DEF Pairs
  <2> QED BY <1>0, <1>1, <2>1 DEF TypeOK
<1>3. InstInv'
  BY <1>1, InstancesUntouched DEF InstInv, Names
<1>4. CallInv'
  <2> DEFINE r == call'
  <2>1. /\ r.op = "Alloc1DEx" /\ r.asked = {b} \X doms /\ r.done = {} /\ r.before = State
        /\ r = [op |-> r.op, asked |-> r.asked, done |-> r.done, before |-> r.before]
    BY <1>0
  <2>2. r.asked \subseteq (DOMAIN properties_') \X (DOMAIN phys_dom_')
    BY <1>0, <1>1, <2>1
  <2> QED BY <1>0, <1>1, <2>1, <2>2 DEF CallInv
<1>5. SinceCallInv'
  BY Begun
<1> QED BY <1>2, <1>3, <1>4, <1>5

\* AddBufferLogDomains works on a buffer and domains of the collections.
LEMMA AddBufferBegins ==
  ASSUME IInv, NEW b \in Buffers, NEW doms \in SUBSET log_domains, AddBufferLogDomains(b, doms)
  PROVE IInv'
<1> USE DEF IInv, AddBufferLogDomains, domainVars, bufferVars, instanceVars
<1>0. /\ call = Idle
      /\ call' = [op |-> "AddBufferLogDomains", asked |-> {b} \X doms, done |-> {}, before |-> State]
      /\ log_buffers = DOMAIN properties_ /\ log_domains = DOMAIN phys_dom_
  BY DEF Begin, CallInv, Idle
<1>2. TypeOK'
  <2>1. call'.asked \subseteq Pairs
    BY <1>0, IdsInRange DEF Pairs
  <2> QED BY <1>0, <2>1 DEF TypeOK
<1>3. InstInv'
  BY InstancesUntouched DEF InstInv, Names
<1>4. CallInv'
  <2> DEFINE r == call'
  <2>1. /\ r.op = "AddBufferLogDomains" /\ r.asked = {b} \X doms /\ r.done = {} /\ r.before = State
        /\ r = [op |-> r.op, asked |-> r.asked, done |-> r.done, before |-> r.before]
    BY <1>0
  <2>2. r.asked \subseteq (DOMAIN properties_') \X (DOMAIN phys_dom_')
    BY <1>0, <2>1
  <2> QED BY <1>0, <2>1, <2>2 DEF CallInv
<1>5. SinceCallInv'
  BY Begun
<1> QED BY <1>2, <1>3, <1>4, <1>5

\* AddLogDomain makes a domain that is in no collection yet and has a new id.
LEMMA AddLogDomainBegins ==
  ASSUME IInv, NEW p \in PhysDomains, AddLogDomain(p)
  PROVE IInv'
<1> USE DEF IInv, AddLogDomain, bufferVars, instanceVars
<1> DEFINE d == next_log_dom_id
           asked == {b \in log_buffers : properties_[b].incremental} \X {d}
<1>0. /\ call = Idle
      /\ call' = [op |-> "AddLogDomain", asked |-> asked, done |-> {}, before |-> State]
      /\ log_buffers = DOMAIN properties_ /\ log_domains = DOMAIN phys_dom_
  BY DEF Begin, CallInv, Idle
<1>1. d \notin DOMAIN phys_dom_ /\ d \in LogDomIDs /\ next_log_dom_id' = d + 1 /\ d \in Nat
  BY MaxLogDomAssumption DEF TypeOK, LogDomIDs
<1>2. /\ DOMAIN phys_dom_' = DOMAIN phys_dom_ \cup {d}
      /\ \A e \in DOMAIN phys_dom_ : phys_dom_'[e] = phys_dom_[e]
      /\ phys_dom_' \in [DOMAIN phys_dom_' -> PhysDomains]
  BY <1>1 DEF Extend, TypeOK
<1>3. TypeOK'
  <2>1. call'.asked \subseteq Pairs
    BY <1>0, <1>1 DEF TypeOK, Pairs
  <2>2. next_log_dom_id' \in 1..(MaxLogDomID + 1)
    BY <1>1, MaxLogDomAssumption DEF LogDomIDs
  <2>3. DOMAIN phys_dom_' \subseteq 0..(next_log_dom_id' - 1)
    BY <1>1, <1>2 DEF TypeOK
  <2> QED BY <1>0, <1>2, <2>1, <2>2, <2>3 DEF TypeOK
<1>4. InstInv'
  <2>1. \A i \in DOMAIN instances :
          /\ i[2] # d /\ i[2] < next_log_dom_id'
    <3> SUFFICES ASSUME NEW i \in DOMAIN instances PROVE i[2] # d /\ i[2] < d + 1
      BY <1>1
    <3>1. i[2] \in Nat /\ i[2] < d
      BY DEF InstInv, Names, TypeOK, Pairs, LogDomIDs
    <3> QED BY <1>1, <3>1
  <2> QED BY <1>2, <2>1, InstancesUntouched
<1>5. CallInv'
  <2> DEFINE r == call'
  <2>1. /\ r.op = "AddLogDomain" /\ r.asked = asked /\ r.done = {} /\ r.before = State
        /\ r = [op |-> r.op, asked |-> r.asked, done |-> r.done, before |-> r.before]
    BY <1>0
  <2>2. r.asked \subseteq (DOMAIN properties_') \X (DOMAIN phys_dom_')
    BY <1>0, <1>1, <1>2, <2>1
  <2> QED BY <1>0, <1>1, <1>2, <2>1, <2>2 DEF CallInv
<1>6. SinceCallInv'
  BY Begun
<1> QED BY <1>3, <1>4, <1>5, <1>6

\* One more attachment is made.
LEMMA AttachKeeps ==
  ASSUME IInv, Attach
  PROVE IInv'
<1> USE DEF IInv, domainVars, bufferVars
<1>1. PICK x \in call.asked \ call.done :
        /\ attachExistingLogDomain(x[1], x[2])
        /\ call' = [call EXCEPT !.done = @ \cup {x}]
  BY DEF Attach
<1>2. UNCHANGED <<next_log_dom_id, log_domains, phys_dom_, log_buffers, properties_>>
  BY DEF Attach
<1>3. x = <<x[1], x[2]>> /\ x[1] \in DOMAIN properties_ /\ x[2] \in DOMAIN phys_dom_
  <2>1. call.asked \subseteq (DOMAIN properties_) \X (DOMAIN phys_dom_)
    BY DEF CallInv
  <2> QED BY <2>1
<1>4. /\ InstInv'
      /\ InstTypes'
      /\ x \notin DOMAIN phys_buffers_
      /\ DOMAIN phys_buffers_' = DOMAIN phys_buffers_ \cup {x}
      /\ \A y \in DOMAIN phys_buffers_ : phys_buffers_'[y] = phys_buffers_[y]
      /\ \A i \in DOMAIN instances :
           i \in DOMAIN instances' /\ instances'[i].phys = instances[i].phys
  BY <1>1, <1>2, <1>3, Attached
<1>5. /\ call'.op = call.op /\ call'.asked = call.asked /\ call'.before = call.before
      /\ call'.done = call.done \cup {x}
      /\ call' = [op |-> call'.op, asked |-> call'.asked, done |-> call'.done, before |-> call'.before]
  <2> DEFINE r == [op |-> call.op, asked |-> call.asked, done |-> call.done, before |-> call.before]
  <2>1. call' = [r EXCEPT !.done = @ \cup {x}]
    BY <1>1 DEF CallInv
  <2> QED BY <2>1
<1>6. TypeOK'
  <2>1. call'.op \in {"none", "Alloc1DEx", "AddBufferLogDomains", "AddLogDomain"}
    BY <1>5 DEF TypeOK
  <2>2. call'.asked \subseteq Pairs /\ call'.done \subseteq call'.asked
    BY <1>5 DEF TypeOK
  <2> QED BY <1>2, <1>4, <2>1, <2>2 DEF TypeOK, InstTypes
<1>7. call # Idle /\ call'.op # "none"
  BY <1>1, <1>5 DEF Idle, CallInv
<1>8. CallInv'
  BY <1>2, <1>5, <1>7 DEF CallInv
<1>9. SinceCallInv'
  <2> DEFINE at == call.before[3]
             inst == call.before[4]
  <2>1. /\ call.before = <<log_domains, log_buffers, at, inst>>
        /\ at = [y \in DOMAIN at |-> phys_buffers_[y]]
        /\ DOMAIN phys_buffers_ = DOMAIN at \cup call.done
        /\ DOMAIN at \cap call.done = {}
        /\ \A y \in DOMAIN at : y[1] \in log_buffers /\ y[2] \in log_domains
        /\ inst = [i \in {phys_buffers_[y] : y \in DOMAIN at} |->
                     [phys |-> instances[i].phys,
                      refcount |-> Cardinality({y \in DOMAIN at : at[y] = i})]]
    BY <1>7 DEF SinceCallInv
  <2> HIDE DEF at, inst
  <2>2. \A y \in DOMAIN at : y \in DOMAIN phys_buffers_ /\ phys_buffers_'[y] = phys_buffers_[y]
    BY <1>4, <2>1
  <2>3. at = [y \in DOMAIN at |-> phys_buffers_'[y]]
    BY <2>1, <2>2
  <2>4. {phys_buffers_[y] : y \in DOMAIN at} = {phys_buffers_'[y] : y \in DOMAIN at}
    BY <2>2
  <2>5. \A y \in DOMAIN at : instances'[phys_buffers_[y]].phys = instances[phys_buffers_[y]].phys
    BY <1>4, <2>2 DEF InstInv, NothingDangles
  <2>6. inst = [i \in {phys_buffers_'[y] : y \in DOMAIN at} |->
                 [phys |-> instances'[i].phys,
                  refcount |-> Cardinality({y \in DOMAIN at : at[y] = i})]]
    <3>1. \A i \in {phys_buffers_[y] : y \in DOMAIN at} : instances'[i].phys = instances[i].phys
      BY <2>5
    <3> QED BY <2>1, <2>4, <3>1
  <2>7. /\ DOMAIN phys_buffers_' = DOMAIN at \cup call'.done
        /\ DOMAIN at \cap call'.done = {}
    BY <1>4, <1>5, <2>1
  <2>8. call'.before = <<log_domains', log_buffers', at, inst>>
    BY <1>2, <1>5, <2>1
  <2>9. at = call'.before[3] /\ inst = call'.before[4]
    BY <2>8
  <2>10. \A y \in DOMAIN at : y[1] \in log_buffers' /\ y[2] \in log_domains'
    BY <1>2, <2>1
  <2> QED BY <2>3, <2>6, <2>7, <2>8, <2>9, <2>10 DEF SinceCallInv
<1> QED BY <1>4, <1>6, <1>8, <1>9
-----------------------------------------------------------------------------
(* Calls that end.                                                         *)

\* When all that a call has attached is detached, it leaves what it found.
LEMMA RolledBack ==
  ASSUME IInv, call # Idle, NEW S, detach(S),
         call.done \subseteq S, DOMAIN call.before[3] \cap S = {}
  PROVE phys_buffers_' = call.before[3] /\ instances' = call.before[4]
<1> USE DEF IInv
<1> DEFINE at == call.before[3]
           inst == call.before[4]
<1>1. /\ at = [x \in DOMAIN at |-> phys_buffers_[x]]
      /\ DOMAIN phys_buffers_ = DOMAIN at \cup call.done
      /\ inst = [i \in {phys_buffers_[x] : x \in DOMAIN at} |->
                   [phys |-> instances[i].phys,
                    refcount |-> Cardinality({x \in DOMAIN at : at[x] = i})]]
  BY DEF SinceCallInv
<1>2. /\ phys_buffers_' = [x \in DOMAIN phys_buffers_ \ S |-> phys_buffers_[x]]
      /\ DOMAIN instances' = {i \in DOMAIN instances : Holders(i) \ S # {}}
      /\ instances' = [i \in DOMAIN instances' |->
           [phys |-> instances[i].phys, refcount |-> Cardinality(Holders(i) \ S)]]
  <2>1. InstTypes
    BY DEF TypeOK, InstTypes
  <2> QED BY <2>1, Detached
<1>3. DOMAIN at \cap S = {}
  OBVIOUS
<1> HIDE DEF at, inst
<1>4. DOMAIN phys_buffers_ \ S = DOMAIN at
  BY <1>1, <1>3
<1>5. phys_buffers_' = at
  BY <1>1, <1>2, <1>4
<1>6. \A x \in DOMAIN at : at[x] = phys_buffers_[x]
  BY <1>1
<1>7. \A i : Holders(i) \ S = {x \in DOMAIN at : at[x] = i}
  BY <1>4, <1>6 DEF Holders
<1>8. DOMAIN instances' = {phys_buffers_[x] : x \in DOMAIN at}
  <2>1. \A x \in DOMAIN at : phys_buffers_[x] \in DOMAIN instances
    BY <1>1 DEF InstInv, NothingDangles
  <2> QED BY <1>2, <1>6, <1>7, <2>1
<1>9. inst = instances'
  <2> DEFINE D == {phys_buffers_[x] : x \in DOMAIN at}
  <2>1. ASSUME NEW i \in D
        PROVE [phys |-> instances[i].phys, refcount |-> Cardinality(Holders(i) \ S)]
                = [phys |-> instances[i].phys,
                   refcount |-> Cardinality({x \in DOMAIN at : at[x] = i})]
    BY <1>7
  <2>2. instances' = [i \in D |->
          [phys |-> instances[i].phys, refcount |-> Cardinality(Holders(i) \ S)]]
    BY <1>2, <1>8
  <2>3. inst = [i \in D |->
          [phys |-> instances[i].phys,
           refcount |-> Cardinality({x \in DOMAIN at : at[x] = i})]]
    BY <1>1
  <2> HIDE DEF D
  <2> QED BY <2>1, <2>2, <2>3
<1> QED BY <1>5, <1>9 DEF at, inst

\* What a call that attaches buffers to a range of domains has done so far, is
\* what it takes back.
LEMMA RangeFails ==
  ASSUME IInv, AttachRangeFails
  PROVE IInv' /\ State' = call.before
<1> USE DEF IInv, AttachRangeFails, domainVars
<1>0. /\ call # Idle /\ call' = Idle
      /\ log_domains = DOMAIN phys_dom_
  BY DEF Idle, CallInv
<1>1. InstTypes
  BY DEF TypeOK, InstTypes
<1>2. /\ call.before = <<log_domains, log_buffers, call.before[3], call.before[4]>>
      /\ DOMAIN call.before[3] \cap call.done = {}
      /\ DOMAIN phys_buffers_ = DOMAIN call.before[3] \cup call.done
      /\ \A x \in DOMAIN call.before[3] : x[1] \in log_buffers /\ x[2] \in log_domains
  BY <1>0 DEF SinceCallInv
<1>3. phys_buffers_' = call.before[3] /\ instances' = call.before[4]
  BY <1>0, <1>2, RolledBack
<1>4. /\ DOMAIN properties_' = log_buffers
      /\ \A b \in log_buffers : properties_'[b] = properties_[b]
      /\ properties_' \in [DOMAIN properties_' -> Props]
  BY DEF TypeOK, Restrict
<1>5. InstInv' /\ InstTypes'
  BY <1>1, <1>2, <1>4, DetachKeeps DEF InstInv, NothingDangles
<1>6. TypeOK'
  <2>1. /\ call'.op = "none" /\ call'.asked = {} /\ call'.done = {}
    BY <1>0 DEF Idle
  <2>2. DOMAIN properties_' \subseteq Buffers /\ log_buffers \subseteq DOMAIN properties_'
    BY <1>4 DEF TypeOK
  <2> QED BY <1>4, <1>5, <2>1, <2>2 DEF TypeOK, InstTypes
<1>7. CallInv'
  BY <1>0, <1>4 DEF CallInv, Idle
<1>8. SinceCallInv'
  BY <1>0 DEF SinceCallInv
<1>9. State' = call.before
  BY <1>2, <1>3 DEF State
<1> QED BY <1>5, <1>6, <1>7, <1>8, <1>9

\* A logical domain that cannot have every incremental buffer is detached from
\* all buffers and never enters its collection.
LEMMA DomainFails ==
  ASSUME IInv, AddLogDomainFails
  PROVE IInv' /\ State' = call.before
<1> USE DEF IInv, AddLogDomainFails, bufferVars
<1> DEFINE S == log_buffers \X (DOMAIN phys_dom_ \ log_domains)
<1>0. /\ call # Idle /\ call' = Idle
      /\ log_buffers = DOMAIN properties_
  BY DEF Idle, CallInv
<1>1. InstTypes
  BY DEF TypeOK, InstTypes
<1>2. /\ call.before = <<log_domains, log_buffers, call.before[3], call.before[4]>>
      /\ DOMAIN call.before[3] \cap call.done = {}
      /\ DOMAIN phys_buffers_ = DOMAIN call.before[3] \cup call.done
      /\ \A x \in DOMAIN call.before[3] : x[1] \in log_buffers /\ x[2] \in log_domains
  BY <1>0 DEF SinceCallInv
<1>3. \A x \in call.done : x \in S
  <2>1. \A x \in call.asked : x \in (DOMAIN properties_) \X (DOMAIN phys_dom_) /\ x[2] \notin log_domains
    BY DEF CallInv
  <2> QED BY <1>0, <2>1 DEF TypeOK
<1>4. DOMAIN call.before[3] \cap S = {}
  BY <1>2
<1>5. detach(S)
  OBVIOUS
<1>6. phys_buffers_' = call.before[3] /\ instances' = call.before[4]
  <2> HIDE DEF S
  <2> QED BY <1>0, <1>3, <1>4, <1>5, RolledBack
<1>7. /\ DOMAIN phys_dom_' = log_domains
      /\ \A d \in log_domains : d \in DOMAIN phys_dom_ /\ phys_dom_'[d] = phys_dom_[d]
      /\ phys_dom_' \in [DOMAIN phys_dom_' -> PhysDomains]
  BY DEF TypeOK, Restrict
<1>8. \A x \in DOMAIN phys_buffers_ \ S : x[1] \in DOMAIN properties_ /\ x[2] \in log_domains
  BY <1>0, <1>2, <1>3
<1>9. InstInv' /\ InstTypes'
  <2> HIDE DEF S
  <2> QED BY <1>1, <1>5, <1>7, <1>8, DetachKeeps
<1>10. TypeOK'
  <2>1. /\ call'.op = "none" /\ call'.asked = {} /\ call'.done = {}
    BY <1>0 DEF Idle
  <2>2. DOMAIN phys_dom_' \subseteq 0..(next_log_dom_id' - 1) /\ log_domains' \subseteq DOMAIN phys_dom_'
    BY <1>7 DEF TypeOK
  <2> QED BY <1>7, <1>9, <2>1, <2>2 DEF TypeOK, InstTypes
<1>11. CallInv'
  BY <1>0, <1>7 DEF CallInv, Idle
<1>12. SinceCallInv'
  BY <1>0 DEF SinceCallInv
<1>13. State' = call.before
  BY <1>2, <1>6 DEF State
<1> QED BY <1>9, <1>10, <1>11, <1>12, <1>13

\* A call that has attached all ends with its new buffer or domain known.
LEMMA Returns ==
  ASSUME IInv, Return
  PROVE IInv' /\ /\ DOMAIN phys_buffers_' = DOMAIN call.before[3] \cup call.asked
                 /\ \A x \in DOMAIN call.before[3] : phys_buffers_'[x] = call.before[3][x]
                 /\ \A x \in call.asked : x[1] \in log_buffers' /\ x[2] \in log_domains'
<1> USE DEF IInv, Return, instanceVars
<1>1. /\ call # Idle /\ call' = Idle /\ call.done = call.asked
      /\ call'.op = "none" /\ call'.asked = {} /\ call'.done = {}
  BY DEF Idle
<1>2. /\ call.before[3] = [x \in DOMAIN call.before[3] |-> phys_buffers_[x]]
      /\ DOMAIN phys_buffers_ = DOMAIN call.before[3] \cup call.done
  BY <1>1 DEF SinceCallInv
<1>3. TypeOK' BY <1>1 DEF TypeOK
<1>4. InstInv'
  BY InstancesUntouched DEF InstInv, Names
<1>5. CallInv' BY <1>1 DEF CallInv, Idle
<1>6. SinceCallInv' BY <1>1 DEF SinceCallInv
<1>7. \A x \in DOMAIN call.before[3] : phys_buffers_[x] = call.before[3][x]
  BY <1>2
<1>8. \A x \in call.asked : x[1] \in DOMAIN properties_ /\ x[2] \in DOMAIN phys_dom_
  BY DEF CallInv
<1> QED BY <1>1, <1>2, <1>3, <1>4, <1>5, <1>6, <1>7, <1>8

-----------------------------------------------------------------------------
(* Calls that only detach.                                                 *)

\* Between calls the collections hold all there is.
LEMMA BetweenCalls ==
  ASSUME IInv, call = Idle
  PROVE /\ log_buffers = DOMAIN properties_ /\ log_domains = DOMAIN phys_dom_
        /\ InstTypes /\ InstInv
        /\ \A x \in DOMAIN phys_buffers_ :
             x = <<x[1], x[2]>> /\ x[1] \in log_buffers /\ x[2] \in log_domains /\ x[2] \in LogDomIDs
<1>1. call.op = "none"
  BY DEF Idle
<1>2. log_buffers = DOMAIN properties_ /\ log_domains = DOMAIN phys_dom_
  BY <1>1 DEF IInv, CallInv
<1>3. \A x \in DOMAIN phys_buffers_ : x \in Pairs /\ x[1] \in DOMAIN properties_ /\ x[2] \in DOMAIN phys_dom_
  BY DEF IInv, InstInv, NothingDangles, TypeOK
<1>4. \A x \in Pairs : x = <<x[1], x[2]>> /\ x[2] \in LogDomIDs
  BY DEF Pairs
<1> QED BY <1>2, <1>3, <1>4 DEF IInv, InstTypes, TypeOK

\* A call of one step leaves no call behind.
LEMMA IdleStays ==
  ASSUME call' = Idle, InstTypes', InstInv',
         log_buffers' = DOMAIN properties_', log_domains' = DOMAIN phys_dom_',
         next_log_dom_id' \in 1..(MaxLogDomID + 1),
         DOMAIN phys_dom_' \subseteq 0..(next_log_dom_id' - 1),
         phys_dom_' \in [DOMAIN phys_dom_' -> PhysDomains],
         DOMAIN properties_' \subseteq Buffers,
         properties_' \in [DOMAIN properties_' -> Props]
  PROVE IInv'
<1>1. call'.op = "none" /\ call'.asked = {} /\ call'.done = {}
  BY DEF Idle
<1>2. TypeOK' BY <1>1 DEF TypeOK, InstTypes
<1>3. CallInv' BY <1>1 DEF CallInv, Idle
<1>4. SinceCallInv' BY DEF SinceCallInv
<1> QED BY <1>2, <1>3, <1>4 DEF IInv

\* RmBufferLogDomains preserves the invariant.
LEMMA RmBufferKeeps ==
  ASSUME IInv, NEW b \in Buffers, NEW doms \in SUBSET LogDomIDs, RmBufferLogDomains(b, doms)
  PROVE IInv'
<1> USE DEF RmBufferLogDomains, domainVars, bufferVars
<1> DEFINE S == {b} \X doms
<1>1. /\ log_buffers = DOMAIN properties_ /\ log_domains = DOMAIN phys_dom_
      /\ InstTypes /\ InstInv
  BY BetweenCalls
<1>2. detach(S) /\ call' = Idle
  OBVIOUS
<1>3. \A x \in DOMAIN phys_buffers_ : x[1] \in DOMAIN properties_ /\ x[2] \in DOMAIN phys_dom_
  BY <1>1 DEF InstInv, NothingDangles
<1> HIDE DEF S
<1>4. InstInv' /\ InstTypes'
  BY <1>1, <1>2, <1>3, DetachKeeps
<1> QED BY <1>1, <1>2, <1>4, IdleStays DEF IInv, TypeOK

\* DeAlloc preserves the invariant.
LEMMA DeAllocKeeps ==
  ASSUME IInv, NEW b \in Buffers, DeAlloc(b)
  PROVE IInv'
<1> USE DEF DeAlloc, domainVars
<1> DEFINE S == {b} \X LogDomIDs
<1>1. /\ log_buffers = DOMAIN properties_ /\ log_domains = DOMAIN phys_dom_
      /\ InstTypes /\ InstInv
      /\ \A x \in DOMAIN phys_buffers_ :
           x = <<x[1], x[2]>> /\ x[1] \in log_buffers /\ x[2] \in log_domains /\ x[2] \in LogDomIDs
  BY BetweenCalls
<1>2. detach(S) /\ call' = Idle
  OBVIOUS
<1>3. /\ DOMAIN properties_' = DOMAIN properties_ \ {b}
      /\ \A c \in DOMAIN properties_ \ {b} : properties_'[c] = properties_[c]
      /\ properties_' \in [DOMAIN properties_' -> Props]
  BY DEF Without, Restrict, IInv, TypeOK
<1>4. \A x \in DOMAIN phys_buffers_ \ S : x[1] \in DOMAIN properties_ \ {b} /\ x[2] \in DOMAIN phys_dom_
  <2> SUFFICES ASSUME NEW x \in DOMAIN phys_buffers_ \ S
      PROVE x[1] \in DOMAIN properties_ \ {b} /\ x[2] \in DOMAIN phys_dom_
    OBVIOUS
  <2>1. x = <<x[1], x[2]>> /\ x[1] \in DOMAIN properties_ /\ x[2] \in DOMAIN phys_dom_ /\ x[2] \in LogDomIDs
    BY <1>1
  <2>2. x[1] # b
    BY <2>1
  <2> QED BY <2>1, <2>2
<1> HIDE DEF S
<1>5. InstInv' /\ InstTypes'
  BY <1>1, <1>2, <1>3, <1>4, DetachKeeps
<1> QED BY <1>1, <1>2, <1>3, <1>5, IdleStays DEF IInv, TypeOK

\* RmLogDomains preserves the invariant.
LEMMA RmLogDomainsKeeps ==
  ASSUME IInv, NEW doms \in SUBSET log_domains, RmLogDomains(doms)
  PROVE IInv'
<1> USE DEF RmLogDomains, bufferVars
<1> DEFINE S == log_buffers \X doms
<1>1. /\ log_buffers = DOMAIN properties_ /\ log_domains = DOMAIN phys_dom_
      /\ InstTypes /\ InstInv
      /\ \A x \in DOMAIN phys_buffers_ :
           x = <<x[1], x[2]>> /\ x[1] \in log_buffers /\ x[2] \in log_domains /\ x[2] \in LogDomIDs
  BY BetweenCalls
<1>2. detach(S) /\ call' = Idle
  OBVIOUS
<1>3. /\ DOMAIN phys_dom_' = DOMAIN phys_dom_ \ doms
      /\ \A d \in DOMAIN phys_dom_ \ doms : phys_dom_'[d] = phys_dom_[d]
      /\ phys_dom_' \in [DOMAIN phys_dom_' -> PhysDomains]
  BY DEF Without, Restrict, IInv, TypeOK
<1>4. \A x \in DOMAIN phys_buffers_ \ S : x[1] \in DOMAIN properties_ /\ x[2] \in DOMAIN phys_dom_ \ doms
  <2> SUFFICES ASSUME NEW x \in DOMAIN phys_buffers_ \ S
      PROVE x[1] \in DOMAIN properties_ /\ x[2] \in DOMAIN phys_dom_ \ doms
    OBVIOUS
  <2>1. x = <<x[1], x[2]>> /\ x[1] \in log_buffers /\ x[2] \in log_domains
    BY <1>1
  <2>2. x[2] \notin doms
    BY <2>1
  <2> QED BY <1>1, <2>1, <2>2
<1> HIDE DEF S
<1>5. InstInv' /\ InstTypes'
  BY <1>1, <1>2, <1>3, <1>4, DetachKeeps
<1> QED BY <1>1, <1>2, <1>3, <1>5, IdleStays DEF IInv, TypeOK

\* Fini destroys the buffers, and with them every instance.
LEMMA FiniKeeps ==
  ASSUME IInv, Fini
  PROVE IInv'
<1> USE DEF Fini
<1> DEFINE S == log_buffers \X LogDomIDs
<1>1. /\ InstTypes /\ InstInv
      /\ \A x \in DOMAIN phys_buffers_ :
           x = <<x[1], x[2]>> /\ x[1] \in log_buffers /\ x[2] \in log_domains /\ x[2] \in LogDomIDs
  BY BetweenCalls
<1>2. detach(S) /\ call' = Idle
  OBVIOUS
<1>3. \A x \in DOMAIN phys_buffers_ : x \in S
  BY <1>1
<1>4. DOMAIN phys_buffers_' = {} /\ DOMAIN instances' = {}
  <2> HIDE DEF S
  <2>1. /\ DOMAIN phys_buffers_' = DOMAIN phys_buffers_ \ S
        /\ DOMAIN instances' = {i \in DOMAIN instances : Holders(i) \ S # {}}
    BY <1>1, <1>2, Detached
  <2>2. \A i : Holders(i) \ S = {}
    BY <1>3 DEF Holders
  <2> QED BY <1>3, <2>1, <2>2
<1>5. InstTypes'
  BY <1>1, <1>2, Detached
<1>6. InstInv'
  BY <1>4, FS_EmptySet DEF InstInv, NothingDangles, SharingIsExact, RefCountsMatch, Names, Finite
<1>7. next_log_dom_id' \in 1..(MaxLogDomID + 1)
  BY MaxLogDomAssumption
<1> QED BY <1>2, <1>5, <1>6, <1>7, IdleStays, PhysDomainAssumption DEF Empty, HSTR_SRC_LOG_DOMAIN

-----------------------------------------------------------------------------
(* The invariant, and what follows.                                        *)

\* Every step preserves the invariant.
LEMMA Inductive ==
  ASSUME IInv, [Next]_vars
  PROVE IInv'
<1>1. CASE UNCHANGED vars
  <2> USE <1>1 DEF vars, domainVars, bufferVars, instanceVars, IInv
  <2>1. TypeOK' BY DEF TypeOK
  <2>2. InstInv' BY InstancesUntouched DEF InstInv, Names
  <2>3. CallInv' BY DEF CallInv
  <2>4. SinceCallInv'
    <3>1. SinceCallInv OBVIOUS
    <3> QED BY <3>1 DEF SinceCallInv
  <2> QED BY <2>1, <2>2, <2>3, <2>4
<1>2. CASE Next
  <2>1. ASSUME NEW b \in Buffers, NEW props \in Props, NEW doms \in SUBSET log_domains,
               Alloc1DEx(b, props, doms)
        PROVE IInv'
    BY <2>1, AllocBegins
  <2>2. ASSUME NEW b \in Buffers, NEW doms \in SUBSET log_domains, AddBufferLogDomains(b, doms)
        PROVE IInv'
    BY <2>2, AddBufferBegins
  <2>3. ASSUME NEW p \in PhysDomains, AddLogDomain(p) PROVE IInv'
    BY <2>3, AddLogDomainBegins
  <2>4. CASE Attach BY <2>4, AttachKeeps
  <2>5. CASE AttachRangeFails BY <2>5, RangeFails
  <2>6. CASE AddLogDomainFails BY <2>6, DomainFails
  <2>7. CASE Return BY <2>7, Returns
  <2>8. ASSUME NEW b \in Buffers, NEW doms \in SUBSET LogDomIDs, RmBufferLogDomains(b, doms)
        PROVE IInv'
    BY <2>8, RmBufferKeeps
  <2>9. ASSUME NEW b \in Buffers, DeAlloc(b) PROVE IInv'
    BY <2>9, DeAllocKeeps
  <2>10. ASSUME NEW doms \in SUBSET log_domains, RmLogDomains(doms) PROVE IInv'
    BY <2>10, RmLogDomainsKeeps
  <2>11. CASE Fini BY <2>11, FiniKeeps
  <2> QED BY <1>2, <2>1, <2>2, <2>3, <2>4, <2>5, <2>6, <2>7, <2>8, <2>9, <2>10, <2>11 DEF Next
<1> QED BY <1>1, <1>2

\* The invariant holds throughout.
THEOREM Invariance == Spec => []IInv
<1>1. Init => IInv BY Fresh
<1>2. IInv /\ [Next]_vars => IInv' BY Inductive
<1> QED BY <1>1, <1>2, PTL DEF Spec

\* The state keeps its types.
THEOREM InstancesTyped == Spec => []TypeOK
<1>1. IInv => TypeOK BY DEF IInv
<1> QED BY <1>1, Invariance, PTL

\* An instance lives as long as it is used, and its count is right.
THEOREM InstancesCounted == Spec => []RefCountsMatch
<1>1. IInv => RefCountsMatch BY DEF IInv, InstInv
<1> QED BY <1>1, Invariance, PTL

\* No attachment outlives what it joins.
THEOREM AttachmentsLive == Spec => []NothingDangles
<1>1. IInv => NothingDangles BY DEF IInv, InstInv
<1> QED BY <1>1, Invariance, PTL

\* Instances are shared by aliased buffers on one physical domain and by nobody
\* else.
THEOREM AliasesShare == Spec => []SharingIsExact
<1>1. IInv => SharingIsExact BY DEF IInv, InstInv
<1> QED BY <1>1, Invariance, PTL

\* A call that attaches does all or nothing.
THEOREM CallsAllOrNothing == Spec => AllOrNothing
<1> DEFINE Ends ==
  (call # Idle /\ call' = Idle) =>
    \/ State' = call.before
    \/ /\ DOMAIN phys_buffers_' = DOMAIN call.before[3] \cup call.asked
       /\ \A x \in DOMAIN call.before[3] : phys_buffers_'[x] = call.before[3][x]
       /\ \A x \in call.asked : x[1] \in log_buffers' /\ x[2] \in log_domains'
<1>1. IInv /\ [Next]_vars => [Ends]_vars
  <2> SUFFICES ASSUME IInv, Next, call # Idle, call' = Idle
      PROVE Ends
    BY DEF vars
  <2>1. CASE AttachRangeFails BY <2>1, RangeFails
  <2>2. CASE AddLogDomainFails BY <2>2, DomainFails
  <2>3. CASE Return BY <2>3, Returns
  <2>4. CASE Attach
    <3>1. call.op # "none" /\ DOMAIN call = {"op", "asked", "done", "before"}
      BY DEF IInv, CallInv
    <3>2. call'.op = call.op
      BY <2>4, <3>1 DEF Attach
    <3> QED BY <3>1, <3>2 DEF Idle
  <2> QED BY <2>1, <2>2, <2>3, <2>4
        DEF Next, Alloc1DEx, AddBufferLogDomains, AddLogDomain, Begin, RmBufferLogDomains,
          DeAlloc, RmLogDomains, Fini
<1>2. Spec => [][Ends]_vars
  BY <1>1, Invariance, PTL DEF Spec
<1> QED BY <1>2 DEF AllOrNothing
=============================================================================
