------------------------------ MODULE AppProofs ------------------------------
(***************************************************************************)
(* What an application gets from the app API and what it may build on it:  *)
(* the domains and streams that app_init makes, for any cards, domains,    *)
(* places and streams per place, and programs over streams, whatever they  *)
(* are.                                                                    *)
(*                                                                         *)
(* app_init.  The loops over cards, domains, places and streams keep       *)
(* running values: d_lower, str_base, p_lower, the next id.  The invariant *)
(* AIInv says of each what it is in closed form, the even share of what is *)
(* to be divided, and of the domains and streams made so far that they are *)
(* those before the one at hand.  That no id is asked for twice, and that  *)
(* the threads are shared out, are then facts about the shares.  A call    *)
(* that fails leaves some of its streams behind; that is remembered, and   *)
(* nothing is claimed of the streams from then on.                         *)
(*                                                                         *)
(* Programs.  A text that is Sane is compiled to commands that wait for    *)
(* earlier work only and say what memory they are about                    *)
(* (CompiledIsWellFormed), and on top of the promise it runs as its        *)
(* compiled form does (ProgramImplemented).  ClientInv is what that takes: *)
(* the library has been told of the enqueued commands of the text, each    *)
(* after those of its stream, and whatever has been signalled without      *)
(* doing any work passed on what held it back.                             *)
(*                                                                         *)
(* If its compiled form passes the static checks of StreamProgram as well, *)
(* then in whatever order its actions run no two commands race, and the    *)
(* host gets the results of the sequential run.  TLC makes the checks,     *)
(* which are finite computations with no state to explore, for instances   *)
(* that MCRefPrograms lists; what follows from them holds for any.         *)
(*                                                                         *)
(* past[i] is what the program's waits and events say is over when command *)
(* i runs.  OrderInv says that they are right: what is said to be over     *)
(* before an executed command has been executed.  MemInv says what is in   *)
(* memory although the actions ran in an order of their own: a place whose *)
(* executed writers are those among the first k commands holds what the    *)
(* sequential run has there after k.                                       *)
(***************************************************************************)
EXTENDS AppInit, StreamClient, FiniteSetTheorems, WellFoundedInduction, TLAPS

-----------------------------------------------------------------------------
(* app_init: the invariant.                                                *)

\* A set of threads that is a block, its first thread and its size.
Low(m) == CHOOSE x \in m : \A y \in m : x <= y
Size(m) == Cardinality(m)
Block(low, n) == low..(low + n - 1)
IsBlock(m) == Low(m) \in Nat /\ Size(m) \in Nat \ {0} /\ m = Block(Low(m), Size(m))

\* How much the first j of k parts of n have, when the first parts are one larger,
\* and when the last part gets what is left.
Even(n, k, j) == j * (n \div k) + IF j < n % k THEN j ELSE n % k
Rest(n, k, j) == IF j = k THEN n ELSE j * (n \div k)

Limit == phys_domains_limit(NumLogDomains)
\* The number of logical domains on the first q cards.
OnFirst(q) == Even(NumLogDomains, Limit, q)
Cut(q, e) == Rest(CardAt(q).count, num_log_domains(q), e)
DomainMask(q, e) == (CardAt(q).lower + Cut(q, e))..(CardAt(q).lower + Cut(q, e + 1) - 1)

LibOK ==
  /\ initialized \in BOOLEAN /\ call_failed \in BOOLEAN
  /\ phys_domains \in Seq(0..(NumEngines - 1))
  /\ initialized => phys_domains # <<>>
  /\ app_init_log_doms_IDs \in Seq(Nat)
  /\ \A i \in DOMAIN app_init_log_doms_IDs : app_init_log_doms_IDs[i] = i
  /\ DOMAIN log_domains = 1..Len(app_init_log_doms_IDs)
  /\ \A d \in DOMAIN log_domains : IsBlock(log_domains[d].mask)
  /\ app_init_next_log_str_ID \in Nat

\* The locals of a call have their types.
IsCall(c) ==
  /\ DOMAIN c = {"stage", "streams", "over", "tot_places", "start", "str_base", "should_fini",
                 "first", "p", "dom", "idx", "d_lower", "dsize", "p_lower", "place", "lstr"}
  /\ c.stage \in {"domain", "place", "refused"}
  /\ c.streams \in Seq(Nat) \ {<<>>} /\ c.over \in Nat \ {0} /\ c.tot_places \in Nat \ {0}
  /\ c.start \in Nat /\ c.str_base \in Nat
  /\ c.should_fini \in BOOLEAN /\ c.first \in BOOLEAN
  /\ c.p \in Nat /\ c.dom \in Nat /\ c.idx \in Nat /\ c.d_lower \in Nat
  /\ c.dsize \in Nat /\ c.p_lower \in Nat /\ c.place \in Nat /\ c.lstr \in Nat

Upto(i) == StreamsUpto(call.streams)[i]

\* The loops are at logical domain idx, which is number dom on card p, or past all.
InRange(c) ==
  c.p < Limit /\ c.dom < num_log_domains(c.p) /\ c.idx = OnFirst(c.p) + c.dom
AtEnd(c) == c.p = Limit /\ c.dom = 0 /\ c.idx = NumLogDomains

Mask(d) == log_domains[d].mask
\* The first thread of the first place of the domain at hand.
Base == call.p_lower - Even(call.dsize, StreamsOf(call.idx), call.place)

CallOK ==
  /\ IsCall(call)
  /\ initialized
  /\ call.tot_places = TotalOf(call.streams)
  /\ InRange(call) \/ (call.stage = "domain" /\ AtEnd(call))
  /\ Len(app_init_log_doms_IDs) =
       IF ~call.first THEN NumLogDomains
       ELSE IF call.stage = "domain" THEN call.idx ELSE call.idx + 1
  /\ call.str_base = call.start + Upto(call.idx)
  /\ AtPlace =>
       /\ call.place < StreamsOf(call.idx) /\ call.lstr < call.over
       /\ call.dsize = Size(log_domains[call.idx + 1].mask)
       /\ StreamsOf(call.idx) <= call.dsize
       /\ call.place > 0 => Base \in Mask(call.idx + 1)

DomainsOK ==
  call.first =>
    /\ call.p < Limit =>
         call.d_lower = CardAt(call.p).lower
           + Cut(call.p, IF call.stage = "domain" THEN call.dom ELSE call.dom + 1)
    /\ \A q \in 0..(Limit - 1) : \A e \in 0..(num_log_domains(q) - 1) :
         OnFirst(q) + e < Len(app_init_log_doms_IDs) =>
           /\ log_domains[OnFirst(q) + e + 1] = [phys |-> q, mask |-> DomainMask(q, e)]
           /\ Cut(q, e) < Cut(q, e + 1)

\* The place the loops are at, of all places, and the stream there.
NextPlace == Upto(call.idx) + IF AtPlace THEN call.place ELSE 0
NextInPlace == IF AtPlace THEN call.lstr ELSE 0
InPlace(s) == (s - call.start) \div call.tot_places
Created(s) ==
  /\ InPlace(s) < call.over
  /\ PlaceOf(s) < NextPlace \/ (PlaceOf(s) = NextPlace /\ InPlace(s) < NextInPlace)

PlaceIn(low, n, k, j) == (low + Even(n, k, j))..(low + Even(n, k, j + 1) - 1)

StreamsOK ==
  /\ DOMAIN log_streams = {s \in Nat : s < call.start \/ Created(s)}
  /\ app_init_next_log_str_ID = call.start + NextPlace * call.over + NextInPlace
  /\ \A s \in DOMAIN log_streams : s >= call.start =>
       \A d \in 1..NumLogDomains : Upto(d - 1) <= PlaceOf(s) /\ PlaceOf(s) < Upto(d) =>
         /\ log_streams[s].dom = d
         /\ IF d <= call.idx
            THEN /\ call.streams[d] <= Size(Mask(d))
                 /\ log_streams[s].mask =
                      PlaceIn(Low(Mask(d)), Size(Mask(d)), call.streams[d], PlaceOf(s) - Upto(d - 1))
            ELSE log_streams[s].mask =
                   PlaceIn(Base, call.dsize, StreamsOf(call.idx), PlaceOf(s) - Upto(d - 1))

AIInv ==
  /\ LibOK
  /\ call # Idle => CallOK /\ DomainsOK /\ (~call_failed => StreamsOK)
  /\ call = Idle /\ ~call_failed => DOMAIN log_streams = 0..(app_init_next_log_str_ID - 1)

-----------------------------------------------------------------------------
(* Numbers.                                                                *)

\* Products.
LEMMA TimesNat == \A a, b \in Nat : a * b \in Nat
  OBVIOUS
LEMMA TimesSum == \A a, b, c \in Int : (a + b) * c = a * c + b * c
  OBVIOUS
LEMMA TimesMonotone == \A a, b, c \in Nat : a <= b => a * c <= b * c
  OBVIOUS

\* Division.
LEMMA Division ==
  ASSUME NEW n \in Nat, NEW k \in Nat \ {0}
  PROVE  /\ n \div k \in Nat /\ n % k \in 0..(k - 1)
         /\ n = k * (n \div k) + (n % k)
  OBVIOUS

\* A quotient and a remainder in range are those of the division.
LEMMA DivisionUnique ==
  ASSUME NEW q \in Nat, NEW k \in Nat \ {0}, NEW r \in 0..(k - 1)
  PROVE  (q * k + r) \div k = q /\ (q * k + r) % k = r
  OBVIOUS

\* The first thread of a block and its size are its parameters.
LEMMA BlockIs ==
  ASSUME NEW low \in Nat, NEW n \in Nat \ {0}
  PROVE  /\ Low(low..(low + n - 1)) = low /\ Size(low..(low + n - 1)) = n
         /\ IsBlock(low..(low + n - 1))
<1> DEFINE m == low..(low + n - 1)
<1>1. low \in m /\ \A y \in m : low <= y
  OBVIOUS
<1>2. Low(m) = low
  <2>1. Low(m) \in m /\ \A y \in m : Low(m) <= y
    BY <1>1 DEF Low
  <2> QED BY <1>1, <2>1
<1>3. Size(m) = n
  <2>1. Cardinality(low..(low + n - 1)) = IF low > low + n - 1 THEN 0 ELSE low + n - 1 - low + 1
    BY FS_Interval
  <2> QED BY <2>1 DEF Size
<1> QED BY <1>2, <1>3 DEF IsBlock, Block

\* A set of natural numbers has a least one.
LEMMA Least ==
  ASSUME NEW S \in SUBSET Nat, S # {}
  PROVE  \E n \in S : \A k \in S : n <= k
<1>1. PICK n \in S : \A k \in S : ~(<<k, n>> \in OpToRel(<, Nat))
  BY NatLessThanWellFounded, WFMin
<1>2. \A k \in S : ~(k < n)
  BY <1>1 DEF OpToRel
<1> QED BY <1>2

\* Climbing.
LEMMA ClimbMonotone ==
  ASSUME NEW k \in Nat, NEW f, \A j \in 0..k : f[j] \in Nat, \A j \in 0..(k - 1) : f[j] <= f[j + 1],
         NEW a \in 0..k, NEW b \in 0..k, a <= b
  PROVE  f[a] <= f[b]
<1> DEFINE Bad == {j \in a..b : ~(f[a] <= f[j])}
<1>1. SUFFICES ASSUME Bad # {} PROVE FALSE
  OBVIOUS
<1>2. PICK j \in Bad : \A i \in Bad : j <= i
  <2>1. Bad \in SUBSET Nat
    OBVIOUS
  <2> HIDE DEF Bad
  <2> QED BY <1>1, <2>1, Least
<1>3. j # a /\ j \in 0..k
  BY <1>2
<1>4. j - 1 \in a..b /\ j - 1 \notin Bad /\ j - 1 \in 0..(k - 1) /\ (j - 1) + 1 = j
  BY <1>2, <1>3
<1>5. f[a] <= f[j - 1] /\ f[j - 1] <= f[j] /\ f[a] \in Nat /\ f[j - 1] \in Nat /\ f[j] \in Nat
  BY <1>3, <1>4
<1> QED BY <1>2, <1>5

\* A function that starts at 0 passes every number below its last value.
LEMMA ClimbReaches ==
  ASSUME NEW k \in Nat, NEW f, \A j \in 0..k : f[j] \in Nat, f[0] = 0, NEW x \in Nat, x < f[k]
  PROVE  \E j \in 0..(k - 1) : f[j] <= x /\ x < f[j + 1]
<1> DEFINE Above == {j \in 0..k : x < f[j]}
<1>1. PICK j \in Above : \A i \in Above : j <= i
  <2>1. Above \in SUBSET Nat /\ k \in Above
    OBVIOUS
  <2> HIDE DEF Above
  <2> QED BY <2>1, Least
<1>2. j # 0
  BY <1>1
<1>3. j - 1 \in 0..(k - 1) /\ j - 1 \in 0..k /\ j - 1 \notin Above /\ (j - 1) + 1 = j
  BY <1>1, <1>2
<1>4. f[j - 1] <= x
  BY <1>3
<1> QED BY <1>1, <1>3, <1>4

\* Even shares.
LEMMA EvenShares ==
  ASSUME NEW n \in Nat, NEW k \in Nat \ {0}
  PROVE  /\ Even(n, k, 0) = 0
         /\ Even(n, k, k) = n
         /\ \A j \in Nat : Even(n, k, j) \in Nat
         /\ \A j \in Nat :
              Even(n, k, j + 1) = Even(n, k, j) + (n \div k) + IF j < n % k THEN 1 ELSE 0
<1> DEFINE q == n \div k
           r == n % k
<1>1. q \in Nat /\ r \in 0..(k - 1) /\ n = k * q + r
  BY Division
<1> HIDE DEF q, r
<1>2. 0 * q = 0
  BY <1>1
<1>3. \A j \in Nat : j * q \in Nat /\ (j + 1) * q = j * q + q
  BY <1>1
<1>4. \A j \in Nat : Even(n, k, j) = j * q + IF j < r THEN j ELSE r
  BY DEF Even, q, r
<1>5. Even(n, k, 0) = 0
  BY <1>1, <1>2, <1>4
<1>6. Even(n, k, k) = n
  BY <1>1, <1>4
<1>7. \A j \in Nat : Even(n, k, j) \in Nat
  BY <1>1, <1>3, <1>4
<1>8. \A j \in Nat : Even(n, k, j + 1) = Even(n, k, j) + q + IF j < r THEN 1 ELSE 0
  BY <1>1, <1>3, <1>4
<1> QED BY <1>5, <1>6, <1>7, <1>8 DEF q, r

\* Shares that leave what is left to the last one.
LEMMA RestShares ==
  ASSUME NEW n \in Nat, NEW k \in Nat \ {0}
  PROVE  /\ Rest(n, k, 0) = 0
         /\ Rest(n, k, k) = n
         /\ \A j \in 0..k : Rest(n, k, j) \in Nat
         /\ \A j \in 0..(k - 1) :
              Rest(n, k, j + 1) = Rest(n, k, j) + (n \div k) + IF j = k - 1 THEN n % k ELSE 0
<1> DEFINE q == n \div k
           r == n % k
<1>1. q \in Nat /\ r \in 0..(k - 1) /\ n = k * q + r
  BY Division
<1> HIDE DEF q, r
<1>2. 0 * q = 0
  BY <1>1
<1>3. \A j \in Nat : j * q \in Nat /\ (j + 1) * q = j * q + q
  BY <1>1
<1>4. \A j \in 0..k : Rest(n, k, j) = IF j = k THEN n ELSE j * q
  BY DEF Rest, q
<1>5. Rest(n, k, 0) = 0 /\ Rest(n, k, k) = n
  BY <1>1, <1>2, <1>4
<1>6. \A j \in 0..k : Rest(n, k, j) \in Nat
  BY <1>1, <1>3, <1>4
<1>7. \A j \in 0..(k - 1) : Rest(n, k, j + 1) = Rest(n, k, j) + q + IF j = k - 1 THEN r ELSE 0
  <2> SUFFICES ASSUME NEW j \in 0..(k - 1)
               PROVE Rest(n, k, j + 1) = Rest(n, k, j) + q + IF j = k - 1 THEN r ELSE 0
    OBVIOUS
  <2>1. j \in Nat /\ j \in 0..k /\ j + 1 \in 0..k /\ j # k
    OBVIOUS
  <2>2. Rest(n, k, j) = j * q
    BY <1>4, <2>1
  <2>3. CASE j = k - 1
    <3>1. Rest(n, k, j + 1) = n /\ k = j + 1
      BY <1>4, <2>1, <2>3
    <3>2. n = (j + 1) * q + r
      BY <1>1, <3>1
    <3> QED BY <1>1, <1>3, <2>1, <2>2, <2>3, <3>1, <3>2
  <2>4. CASE j # k - 1
    <3>1. Rest(n, k, j + 1) = (j + 1) * q
      BY <1>4, <2>1, <2>4
    <3> QED BY <1>1, <1>3, <2>1, <2>2, <2>4, <3>1
  <2> QED BY <2>3, <2>4
<1> QED BY <1>5, <1>6, <1>7 DEF q, r

\* The sums of the first elements of a sequence are a function: the recursion has
\* a solution for every length.
LEMMA UptoExists ==
  ASSUME NEW s \in Seq(Nat), NEW k \in Nat
  PROVE  \E f : f = [i \in 0..k |-> IF i = 0 THEN 0 ELSE f[i - 1] + s[i]]
<1> DEFINE Sums(f, n) == f = [i \in 0..n |-> IF i = 0 THEN 0 ELSE f[i - 1] + s[i]]
           Bad == {n \in Nat : ~\E f : Sums(f, n)}
<1>1. SUFFICES ASSUME Bad # {} PROVE FALSE
  OBVIOUS
<1>2. PICK n \in Bad : \A i \in Bad : n <= i
  <2>1. Bad \in SUBSET Nat
    OBVIOUS
  <2> HIDE DEF Bad
  <2> QED BY <1>1, <2>1, Least
<1>3. n # 0
  <2>1. Sums([i \in 0..0 |-> 0], 0)
    OBVIOUS
  <2> QED BY <1>2, <2>1
<1>4. n - 1 \in Nat /\ n - 1 \notin Bad
  <2>1. n \in Nat
    BY <1>2
  <2>2. n - 1 \in Nat /\ ~(n <= n - 1)
    BY <1>3, <2>1
  <2> HIDE DEF Bad
  <2> QED BY <1>2, <2>2
<1>5. PICK f : Sums(f, n - 1)
  BY <1>4
<1> DEFINE g == [i \in 0..n |-> IF i = n THEN f[n - 1] + s[n] ELSE f[i]]
<1>6. \A i \in 0..(n - 1) : f[i] = IF i = 0 THEN 0 ELSE f[i - 1] + s[i]
  BY <1>5
<1>7. \A i \in 0..n : g[i] = IF i = 0 THEN 0 ELSE g[i - 1] + s[i]
  <2> SUFFICES ASSUME NEW i \in 0..n PROVE g[i] = IF i = 0 THEN 0 ELSE g[i - 1] + s[i]
    OBVIOUS
  <2>1. CASE i = n
    BY <1>2, <1>3, <2>1
  <2>2. CASE i # n
    <3>1. i \in 0..(n - 1) /\ g[i] = f[i] /\ (i # 0 => i - 1 \in 0..n /\ i - 1 # n /\ g[i - 1] = f[i - 1])
      BY <1>2, <2>2
    <3> QED BY <1>6, <3>1
  <2> QED BY <2>1, <2>2
<1>8. Sums(g, n)
  BY <1>7
<1> QED BY <1>2, <1>8

\* So the recursive function is what its equation says.
LEMMA UptoIs ==
  ASSUME NEW s \in Seq(Nat)
  PROVE  /\ StreamsUpto(s)[0] = 0
         /\ \A i \in 1..Len(s) : StreamsUpto(s)[i] = StreamsUpto(s)[i - 1] + s[i]
<1> DEFINE n == Len(s)
           f == StreamsUpto(s)
<1>1. \E g : g = [i \in 0..n |-> IF i = 0 THEN 0 ELSE g[i - 1] + s[i]]
  BY UptoExists
<1>2. f = [i \in 0..n |-> IF i = 0 THEN 0 ELSE f[i - 1] + s[i]]
  BY <1>1 DEF StreamsUpto
<1>3. n \in Nat
  OBVIOUS
<1> HIDE DEF f, n
<1> QED BY <1>2, <1>3 DEF f, n

\* The sums are natural numbers.
LEMMA UptoClimbs ==
  ASSUME NEW s \in Seq(Nat)
  PROVE  \A i \in 0..Len(s) : StreamsUpto(s)[i] \in Nat
<1> DEFINE f == StreamsUpto(s)
           Bad == {i \in 0..Len(s) : f[i] \notin Nat}
<1>0. Len(s) \in Nat
  OBVIOUS
<1>1. SUFFICES ASSUME Bad # {} PROVE FALSE
  OBVIOUS
<1>2. PICK n \in Bad : \A i \in Bad : n <= i
  <2>1. Bad \in SUBSET Nat
    OBVIOUS
  <2> HIDE DEF Bad
  <2> QED BY <1>1, <2>1, Least
<1>3. f[0] = 0 /\ \A i \in 1..Len(s) : f[i] = f[i - 1] + s[i]
  BY UptoIs
<1> HIDE DEF f
<1>4. n # 0
  BY <1>2, <1>3
<1>5. n \in 1..Len(s) /\ n - 1 \in 0..Len(s) /\ n - 1 \notin Bad
  BY <1>0, <1>2, <1>4
<1>6. f[n - 1] \in Nat /\ s[n] \in Nat
  BY <1>5
<1> QED BY <1>2, <1>3, <1>5, <1>6

-----------------------------------------------------------------------------
(* The arithmetic of the call.                                             *)

\* The least of three numbers.
LEMMA MinOfThree ==
  ASSUME NEW a \in Nat, NEW b \in Nat, NEW c \in Nat
  PROVE  /\ Min({a, b, c}) \in {a, b, c}
         /\ Min({a, b, c}) <= a /\ Min({a, b, c}) <= b /\ Min({a, b, c}) <= c
<1>1. \E x \in {a, b, c} : \A y \in {a, b, c} : x <= y
  OBVIOUS
<1> QED BY <1>1 DEF Min

\* A call uses at least one card, no more than there are and no more than it has
\* domains for.
LEMMA LimitIs ==
  ASSUME phys_domains \in Seq(0..(NumEngines - 1)), phys_domains # <<>>, IsCall(call)
  PROVE  /\ NumLogDomains \in Nat \ {0} /\ NumActive \in Nat
         /\ Limit \in Nat \ {0} /\ Limit <= NumLogDomains /\ Limit <= NumActive
<1>1. NumLogDomains \in Nat \ {0} /\ NumActive \in Nat \ {0}
  <2>1. call.streams \in Seq(Nat) /\ call.streams # <<>>
    BY DEF IsCall
  <2> QED BY <2>1 DEF NumLogDomains, NumActive
<1> QED BY <1>1, MinOfThree, EnginesAssumption DEF Limit, phys_domains_limit

\* The two formulas for the number of domains on a card, the one for the first
\* cards and the one for the others, make it the even share.
LEMMA Shares ==
  ASSUME NEW n \in Nat \ {0}, NEW k \in Nat \ {0}, k <= n, NEW p \in Nat
  PROVE  /\ (IF n % k # 0 /\ p > (n % k) - 1 THEN n \div k ELSE (n + k - 1) \div k)
              = (n \div k) + (IF p < n % k THEN 1 ELSE 0)
         /\ n \div k \in Nat \ {0}
<1> DEFINE q == n \div k
           r == n % k
<1>1. q \in Nat /\ r \in 0..(k - 1) /\ n = k * q + r
  BY Division
<1> HIDE DEF q, r
<1>2. q # 0
  BY <1>1
<1>3. CASE r = 0
  <2>1. n + k - 1 = q * k + (k - 1) /\ k - 1 \in 0..(k - 1)
    BY <1>1, <1>3
  <2>2. (n + k - 1) \div k = q
    BY <1>1, <2>1, DivisionUnique
  <2> QED BY <1>1, <1>2, <1>3, <2>2 DEF q, r
<1>4. CASE r # 0
  <2>1. n + k - 1 = (q + 1) * k + (r - 1) /\ r - 1 \in 0..(k - 1) /\ q + 1 \in Nat
    BY <1>1, <1>4
  <2>2. (n + k - 1) \div k = q + 1
    BY <2>1, DivisionUnique
  <2> QED BY <1>1, <1>2, <1>4, <2>2 DEF q, r
<1> QED BY <1>3, <1>4

\* The hypotheses of the lemmas about a call.
Called ==
  /\ phys_domains \in Seq(0..(NumEngines - 1)) /\ phys_domains # <<>>
  /\ IsCall(call)

\* Every card that is used has its even share of the domains, at least one.
LEMMA NumIs ==
  ASSUME Called, NEW q \in Nat
  PROVE  /\ num_log_domains(q)
              = (NumLogDomains \div Limit) + (IF q < NumLogDomains % Limit THEN 1 ELSE 0)
         /\ num_log_domains(q) \in Nat \ {0}
<1>1. /\ NumLogDomains \in Nat \ {0} /\ Limit \in Nat \ {0} /\ Limit <= NumLogDomains
  BY LimitIs DEF Called
<1>2. num_log_domains(q) =
        IF NumLogDomains % Limit # 0 /\ q > (NumLogDomains % Limit) - 1 THEN NumLogDomains \div Limit
        ELSE (NumLogDomains + Limit - 1) \div Limit
  BY DEF num_log_domains, Limit
<1> DEFINE n == NumLogDomains
           k == Limit
<1>3. n \div k \in Nat /\ n % k \in Nat
  BY <1>1, Division
<1> HIDE DEF n, k
<1>4. /\ (IF n % k # 0 /\ q > (n % k) - 1 THEN n \div k ELSE (n + k - 1) \div k)
              = (n \div k) + (IF q < n % k THEN 1 ELSE 0)
      /\ n \div k \in Nat \ {0}
  BY <1>1, Shares DEF n, k
<1>5. num_log_domains(q) = (n \div k) + (IF q < n % k THEN 1 ELSE 0)
  BY <1>2, <1>4 DEF n, k
<1>6. (n \div k) + (IF q < n % k THEN 1 ELSE 0) \in Nat \ {0}
  BY <1>3, <1>4
<1> QED BY <1>5, <1>6 DEF n, k

\* The numbers of domains on the first cards add up to all domains.
LEMMA OnFirstIs ==
  ASSUME Called
  PROVE  /\ OnFirst(0) = 0 /\ OnFirst(Limit) = NumLogDomains
         /\ \A q \in Nat : OnFirst(q) \in Nat /\ OnFirst(q + 1) = OnFirst(q) + num_log_domains(q)
         /\ \A a, b \in 0..Limit : a <= b => OnFirst(a) <= OnFirst(b)
<1>1. /\ NumLogDomains \in Nat \ {0} /\ Limit \in Nat \ {0} /\ Limit <= NumLogDomains
  BY LimitIs DEF Called
<1>2. /\ OnFirst(0) = 0 /\ OnFirst(Limit) = NumLogDomains
      /\ \A q \in Nat : OnFirst(q) \in Nat
      /\ \A q \in Nat : OnFirst(q + 1) =
           OnFirst(q) + (NumLogDomains \div Limit) + IF q < NumLogDomains % Limit THEN 1 ELSE 0
  BY <1>1, EvenShares DEF OnFirst
<1>3. \A q \in Nat : OnFirst(q + 1) = OnFirst(q) + num_log_domains(q)
  <2> SUFFICES ASSUME NEW q \in Nat PROVE OnFirst(q + 1) = OnFirst(q) + num_log_domains(q)
    OBVIOUS
  <2> DEFINE a == NumLogDomains \div Limit
             b == IF q < NumLogDomains % Limit THEN 1 ELSE 0
  <2>1. a \in Nat /\ b \in Nat
    BY <1>1, Division
  <2>2. OnFirst(q + 1) = OnFirst(q) + a + b /\ OnFirst(q) \in Nat
    BY <1>2
  <2>3. num_log_domains(q) = a + b
    BY NumIs
  <2> HIDE DEF a, b
  <2> QED BY <2>1, <2>2, <2>3
<1>4. \A a, b \in 0..Limit : a <= b => OnFirst(a) <= OnFirst(b)
  <2> SUFFICES ASSUME NEW a \in 0..Limit, NEW b \in 0..Limit, a <= b PROVE OnFirst(a) <= OnFirst(b)
    OBVIOUS
  <2> DEFINE f == [j \in 0..Limit |-> OnFirst(j)]
  <2>1. \A j \in 0..Limit : f[j] \in Nat
    BY <1>2
  <2>2. \A j \in 0..(Limit - 1) : f[j] <= f[j + 1]
    <3> SUFFICES ASSUME NEW j \in 0..(Limit - 1) PROVE f[j] <= f[j + 1]
      OBVIOUS
    <3>1. j \in Nat /\ j \in 0..Limit /\ j + 1 \in 0..Limit
      BY <1>1
    <3> QED BY <1>2, <1>3, <3>1, NumIs
  <2>3. f[a] = OnFirst(a) /\ f[b] = OnFirst(b)
    OBVIOUS
  <2> HIDE DEF f
  <2> QED BY <1>1, <2>1, <2>2, <2>3, ClimbMonotone
<1> QED BY <1>2, <1>3, <1>4

\* No two pairs of a card and a number there stand for the same logical domain,
LEMMA OnFirstUnique ==
  ASSUME Called, NEW q \in 0..(Limit - 1), NEW r \in 0..(Limit - 1),
         NEW e \in 0..(num_log_domains(q) - 1), NEW f \in 0..(num_log_domains(r) - 1),
         OnFirst(q) + e = OnFirst(r) + f
  PROVE  q = r /\ e = f
<1>1. Limit \in Nat \ {0} /\ q \in Nat /\ r \in Nat
  BY LimitIs DEF Called
<1>2. num_log_domains(q) \in Nat /\ num_log_domains(r) \in Nat
  BY <1>1, NumIs
<1>3. /\ OnFirst(q) \in Nat /\ OnFirst(r) \in Nat
      /\ OnFirst(q + 1) = OnFirst(q) + num_log_domains(q)
      /\ OnFirst(r + 1) = OnFirst(r) + num_log_domains(r)
  BY <1>1, OnFirstIs
<1>4. q < r => OnFirst(q + 1) <= OnFirst(r)
  BY <1>1, OnFirstIs
<1>5. r < q => OnFirst(r + 1) <= OnFirst(q)
  BY <1>1, OnFirstIs
<1> QED BY <1>1, <1>2, <1>3, <1>4, <1>5

\* and every logical domain has one.
LEMMA OnFirstReaches ==
  ASSUME Called, NEW x \in 0..(NumLogDomains - 1)
  PROVE  \E q \in 0..(Limit - 1) : \E e \in 0..(num_log_domains(q) - 1) : x = OnFirst(q) + e
<1> DEFINE f == [j \in 0..Limit |-> OnFirst(j)]
<1>1. Limit \in Nat \ {0} /\ NumLogDomains \in Nat
  BY LimitIs DEF Called
<1>2. \A j \in 0..Limit : f[j] = OnFirst(j) /\ OnFirst(j) \in Nat
  BY <1>1, OnFirstIs
<1>3. f[0] = 0 /\ f[Limit] = NumLogDomains
  BY <1>1, <1>2, OnFirstIs
<1>4. x \in Nat /\ x < f[Limit]
  BY <1>1, <1>3
<1> HIDE DEF f
<1>5. PICK q \in 0..(Limit - 1) : f[q] <= x /\ x < f[q + 1]
  BY <1>1, <1>2, <1>3, <1>4, ClimbReaches
<1>6. q \in Nat /\ q \in 0..Limit /\ q + 1 \in 0..Limit
  BY <1>1
<1>7. OnFirst(q) <= x /\ x < OnFirst(q) + num_log_domains(q) /\ OnFirst(q) \in Nat
      /\ num_log_domains(q) \in Nat
  BY <1>2, <1>5, <1>6, OnFirstIs, NumIs
<1>8. x - OnFirst(q) \in 0..(num_log_domains(q) - 1) /\ x = OnFirst(q) + (x - OnFirst(q))
  BY <1>4, <1>7
<1> QED BY <1>8

\* A card has threads.
LEMMA CardIs ==
  ASSUME Called, NEW q \in 0..(NumActive - 1)
  PROVE  CardAt(q).lower \in Nat /\ CardAt(q).count \in Nat \ {0}
<1>1. phys_domains \in Seq(0..(NumEngines - 1)) /\ q + 1 \in 1..Len(phys_domains)
  BY DEF Called, NumActive
<1>2. phys_domains[q + 1] \in 0..(NumEngines - 1)
  BY <1>1, EnginesAssumption
<1> QED BY <1>2, AvailableAssumption DEF CardAt

\* The sizes of the domains on a card add up to its threads.
LEMMA CutIs ==
  ASSUME Called, NEW q \in 0..(Limit - 1)
  PROVE  /\ Cut(q, 0) = 0 /\ Cut(q, num_log_domains(q)) = CardAt(q).count
         /\ \A e \in 0..num_log_domains(q) : Cut(q, e) \in Nat
         /\ \A e \in 0..(num_log_domains(q) - 1) :
              Cut(q, e + 1) = Cut(q, e) + DomainSize(q, e) /\ DomainSize(q, e) \in Nat
<1>1. q \in Nat /\ q \in 0..(NumActive - 1)
  BY LimitIs DEF Called
<1>2. CardAt(q).count \in Nat /\ num_log_domains(q) \in Nat \ {0}
  BY <1>1, CardIs, NumIs
<1> DEFINE n == CardAt(q).count
           k == num_log_domains(q)
<1>3. n \div k \in Nat /\ n % k \in Nat
  <2>1. n \in Nat /\ k \in Nat \ {0}
    BY <1>2
  <2> HIDE DEF n, k
  <2> QED BY <2>1
<1>4. \A e \in 0..(k - 1) : DomainSize(q, e) = (n \div k) + (IF e = k - 1 THEN n % k ELSE 0)
  BY DEF DomainSize
<1>5. \A e : Cut(q, e) = Rest(n, k, e)
  BY DEF Cut
<1> HIDE DEF n, k
<1>6. /\ Rest(n, k, 0) = 0
      /\ Rest(n, k, k) = n
      /\ \A j \in 0..k : Rest(n, k, j) \in Nat
      /\ \A j \in 0..(k - 1) :
              Rest(n, k, j + 1) = Rest(n, k, j) + (n \div k) + IF j = k - 1 THEN n % k ELSE 0
  BY <1>2, RestShares DEF n, k
<1>7. \A e \in 0..(k - 1) : Cut(q, e + 1) = Cut(q, e) + DomainSize(q, e) /\ DomainSize(q, e) \in Nat
  <2> SUFFICES ASSUME NEW e \in 0..(k - 1)
               PROVE  Cut(q, e + 1) = Cut(q, e) + DomainSize(q, e) /\ DomainSize(q, e) \in Nat
    OBVIOUS
  <2>1. Rest(n, k, e) \in Nat
    BY <1>2, <1>6 DEF k
  <2> QED BY <1>3, <1>4, <1>5, <1>6, <2>1
<1>8. Cut(q, 0) = 0 /\ Cut(q, k) = n /\ \A e \in 0..k : Cut(q, e) \in Nat
  BY <1>5, <1>6
<1> QED BY <1>7, <1>8 DEF n, k

\* The numbers of streams in the first domains, as the loops add them up.
LEMMA UptoFacts ==
  ASSUME Called
  PROVE  /\ Upto(0) = 0
         /\ \A i \in 0..NumLogDomains : Upto(i) \in Nat
         /\ \A i \in 0..(NumLogDomains - 1) :
              Upto(i + 1) = Upto(i) + StreamsOf(i) /\ StreamsOf(i) \in Nat
              /\ StreamsOf(i) = call.streams[i + 1]
         /\ \A a, b \in 0..NumLogDomains : a <= b => Upto(a) <= Upto(b)
<1>1. call.streams \in Seq(Nat) /\ Len(call.streams) = NumLogDomains /\ NumLogDomains \in Nat
  BY DEF Called, IsCall, NumLogDomains
<1>2. /\ Upto(0) = 0 /\ \A i \in 0..NumLogDomains : Upto(i) \in Nat
      /\ \A i \in 1..NumLogDomains : Upto(i) = Upto(i - 1) + call.streams[i]
  BY <1>1, UptoIs, UptoClimbs DEF Upto
<1>3. \A i \in 0..(NumLogDomains - 1) :
         Upto(i + 1) = Upto(i) + StreamsOf(i) /\ StreamsOf(i) \in Nat
         /\ StreamsOf(i) = call.streams[i + 1]
  <2> SUFFICES ASSUME NEW i \in 0..(NumLogDomains - 1)
               PROVE  Upto(i + 1) = Upto(i) + StreamsOf(i) /\ StreamsOf(i) \in Nat
                      /\ StreamsOf(i) = call.streams[i + 1]
    OBVIOUS
  <2>1. i + 1 \in 1..NumLogDomains /\ (i + 1) - 1 = i
    BY <1>1
  <2>2. StreamsOf(i) = call.streams[i + 1]
    BY DEF StreamsOf
  <2>3. call.streams[i + 1] \in Nat
    BY <1>1, <2>1
  <2>4. Upto(i + 1) = Upto(i) + call.streams[i + 1]
    BY <1>2, <2>1
  <2> QED BY <2>2, <2>3, <2>4
<1>4. \A a, b \in 0..NumLogDomains : a <= b => Upto(a) <= Upto(b)
  <2>1. \A j \in 0..(NumLogDomains - 1) : Upto(j) <= Upto(j + 1)
    BY <1>1, <1>2, <1>3
  <2> QED BY <1>1, <1>2, <2>1, ClimbMonotone DEF Upto
<1> QED BY <1>2, <1>3, <1>4

-----------------------------------------------------------------------------
(* Steps of a call.                                                        *)

\* What a call is about does not change while it lasts.
Keeps(c, d) ==
  /\ c.streams = d.streams /\ c.over = d.over /\ c.tot_places = d.tot_places
  /\ c.start = d.start /\ c.should_fini = d.should_fini /\ c.first = d.first

\* A step that keeps what the call is about keeps what is computed from it.
LEMMA SameCall ==
  ASSUME Keeps(call', call), phys_domains' = phys_domains
  PROVE  /\ NumLogDomains' = NumLogDomains /\ NumActive' = NumActive /\ Limit' = Limit
         /\ \A q : num_log_domains(q)' = num_log_domains(q) /\ OnFirst(q)' = OnFirst(q)
         /\ \A q : CardAt(q)' = CardAt(q)
         /\ \A q, e : Cut(q, e)' = Cut(q, e) /\ DomainMask(q, e)' = DomainMask(q, e)
         /\ \A i : Upto(i)' = Upto(i) /\ StreamsOf(i)' = StreamsOf(i)
         /\ \A s : PlaceOf(s)' = PlaceOf(s) /\ InPlace(s)' = InPlace(s)
         /\ \A c : InRange(c)' = InRange(c) /\ AtEnd(c)' = AtEnd(c)
<1>1. NumLogDomains' = NumLogDomains /\ NumActive' = NumActive
  BY DEF NumLogDomains, NumActive, Keeps
<1>2. Limit' = Limit
  BY <1>1 DEF Limit, phys_domains_limit
<1>3. \A q : num_log_domains(q)' = num_log_domains(q)
  BY <1>1 DEF num_log_domains, phys_domains_limit
<1>4. \A q : OnFirst(q)' = OnFirst(q)
  BY <1>1, <1>2 DEF OnFirst
<1>5. \A q : CardAt(q)' = CardAt(q)
  BY DEF CardAt
<1>6. \A q, e : Cut(q, e)' = Cut(q, e)
  BY <1>3, <1>5 DEF Cut
<1>7. \A q, e : DomainMask(q, e)' = DomainMask(q, e)
  BY <1>5, <1>6 DEF DomainMask
<1>8. \A i : Upto(i)' = Upto(i) /\ StreamsOf(i)' = StreamsOf(i)
  BY DEF Upto, StreamsOf, Keeps
<1>9. \A s : PlaceOf(s)' = PlaceOf(s) /\ InPlace(s)' = InPlace(s)
  BY DEF PlaceOf, InPlace, Keeps
<1>10. \A c : InRange(c)' = InRange(c) /\ AtEnd(c)' = AtEnd(c)
  BY <1>1, <1>2, <1>3, <1>4 DEF InRange, AtEnd
<1> QED BY <1>1, <1>2, <1>3, <1>4, <1>5, <1>6, <1>7, <1>8, <1>9, <1>10

\* d is c at the next domain.
Moves(d, c) ==
  /\ d.stage = "domain" /\ d.idx = c.idx + 1
  /\ InRange(d) \/ AtEnd(d)
  /\ IF c.dom + 1 < num_log_domains(c.p)
     THEN d.p = c.p /\ d.dom = c.dom + 1 /\ d.d_lower = c.d_lower
     ELSE d.p = c.p + 1 /\ d.dom = 0 /\ (d.p < Limit => d.d_lower = CardAt(d.p).lower)

\* The loops go on to the next domain, on the same card or the next.
LEMMA NextDomainIs ==
  ASSUME Called, NEW c, IsCall(c), InRange(c), NEW d, d = NextDomain(c)
  PROVE  IsCall(d) /\ Keeps(d, c) /\ d.str_base = c.str_base /\ Moves(d, c)
<1>1. c.p \in Nat /\ c.dom \in Nat /\ c.idx \in Nat /\ c.p < Limit
      /\ c.dom < num_log_domains(c.p) /\ c.idx = OnFirst(c.p) + c.dom
  BY DEF IsCall, InRange
<1>2. Limit \in Nat /\ Limit <= NumActive /\ NumActive \in Nat
  BY LimitIs DEF Called
<1>3. num_log_domains(c.p) \in Nat \ {0}
  BY <1>1, NumIs
<1>4. CASE c.dom + 1 < num_log_domains(c.p)
  <2>1. d = [c EXCEPT !.stage = "domain", !.dom = c.dom + 1, !.idx = c.idx + 1]
    BY <1>4 DEF NextDomain
  <2>2. IsCall(d)
    BY <1>1, <2>1 DEF IsCall
  <2>3. /\ d.stage = "domain" /\ d.idx = c.idx + 1 /\ d.p = c.p /\ d.dom = c.dom + 1
        /\ d.d_lower = c.d_lower /\ d.str_base = c.str_base /\ Keeps(d, c)
    BY <2>1 DEF IsCall, Keeps
  <2>4. OnFirst(c.p) \in Nat
    BY <1>1, OnFirstIs
  <2>5. InRange(d)
    BY <1>1, <1>4, <2>3, <2>4 DEF InRange
  <2> QED BY <1>4, <2>2, <2>3, <2>5 DEF Moves
<1>5. CASE ~(c.dom + 1 < num_log_domains(c.p))
  <2> DEFINE low == IF c.p + 1 < NumActive THEN CardAt(c.p + 1).lower ELSE c.d_lower
  <2>1. d = [c EXCEPT !.stage = "domain", !.dom = 0, !.idx = c.idx + 1, !.p = c.p + 1,
                     !.d_lower = low]
    BY <1>5 DEF NextDomain
  <2>2. low \in Nat
    <3>1. c.p + 1 < NumActive => CardAt(c.p + 1).lower \in Nat
      BY <1>1, <1>2, CardIs
    <3> QED BY <3>1 DEF IsCall
  <2>3. c.p + 1 < Limit => low = CardAt(c.p + 1).lower
    BY <1>1, <1>2
  <2> HIDE DEF low
  <2>4. IsCall(d)
    BY <1>1, <2>1, <2>2, SMTT(30) DEF IsCall
  <2>5. /\ d.stage = "domain" /\ d.idx = c.idx + 1 /\ d.p = c.p + 1 /\ d.dom = 0
        /\ d.d_lower = low /\ d.str_base = c.str_base /\ Keeps(d, c)
    BY <2>1 DEF IsCall, Keeps
  <2>6. c.dom + 1 = num_log_domains(c.p)
    BY <1>1, <1>3, <1>5
  <2>7. OnFirst(c.p + 1) = OnFirst(c.p) + num_log_domains(c.p) /\ OnFirst(c.p) \in Nat
        /\ OnFirst(Limit) = NumLogDomains
    BY <1>1, OnFirstIs
  <2>8. d.idx = OnFirst(d.p)
    BY <1>1, <1>3, <2>5, <2>6, <2>7
  <2>9. CASE c.p + 1 < Limit
    <3>1. num_log_domains(c.p + 1) \in Nat \ {0} /\ OnFirst(c.p + 1) \in Nat
      BY <1>1, NumIs, OnFirstIs
    <3>2. InRange(d)
      BY <2>5, <2>8, <2>9, <3>1 DEF InRange
    <3> QED BY <1>5, <2>3, <2>4, <2>5, <2>9, <3>2 DEF Moves
  <2>10. CASE c.p + 1 = Limit
    <3>1. AtEnd(d)
      BY <2>5, <2>7, <2>8, <2>10 DEF AtEnd
    <3> QED BY <1>2, <1>5, <2>4, <2>5, <2>10, <3>1 DEF Moves
  <2> QED BY <1>1, <1>2, <2>9, <2>10
<1> QED BY <1>4, <1>5

\* d is c in the same domain.
Stays(d, c) == d.idx = c.idx /\ d.p = c.p /\ d.dom = c.dom /\ d.d_lower = c.d_lower

Entered(c, size, lower) ==
  [EnterDomain(c, size, lower) EXCEPT !.stage = IF StreamsOf(c.idx) > size THEN "refused" ELSE @]

\* A call at another stage is still a call.
LEMMA OtherStage ==
  ASSUME NEW c, IsCall(c), NEW x \in {"domain", "place", "refused"}
  PROVE  IsCall([c EXCEPT !.stage = x])
  BY DEF IsCall

\* Of a domain that is there, the call skips it, refuses it or begins its places.
LEMMA EnteredIs ==
  ASSUME Called, NEW c, IsCall(c), c.stage = "domain", InRange(c), StreamsOf(c.idx) \in Nat,
         NEW size \in Nat \ {0}, NEW lower \in Nat,
         NEW d, d = Entered(c, size, lower)
  PROVE  /\ IsCall(d) /\ Keeps(d, c) /\ d.str_base = c.str_base
         /\ \/ StreamsOf(c.idx) = 0 /\ Moves(d, c)
            \/ d.stage = "refused" /\ Stays(d, c)
            \/ /\ d.stage = "place" /\ Stays(d, c)
               /\ StreamsOf(c.idx) > 0 /\ StreamsOf(c.idx) <= size
               /\ d.dsize = size /\ d.place = 0 /\ d.lstr = 0
<1>1. CASE StreamsOf(c.idx) = 0
  <2> DEFINE e == NextDomain(c)
  <2>1. IsCall(e) /\ Keeps(e, c) /\ e.str_base = c.str_base /\ Moves(e, c)
    BY NextDomainIs
  <2>2. d = [e EXCEPT !.stage = "domain"]
    BY <1>1, <2>1 DEF Entered, EnterDomain, Moves
  <2> HIDE DEF e
  <2>3. IsCall(d)
    BY <2>1, <2>2, OtherStage
  <2>4. Keeps(d, c) /\ d.str_base = c.str_base
    BY <2>1, <2>2 DEF IsCall, Keeps
  <2>5. d.stage = "domain" /\ d.idx = e.idx /\ d.p = e.p /\ d.dom = e.dom /\ d.d_lower = e.d_lower
    BY <2>1, <2>2 DEF IsCall
  <2>6. Moves(d, c)
    BY <2>1, <2>5 DEF Moves, InRange, AtEnd
  <2> QED BY <1>1, <2>3, <2>4, <2>6
<1>2. CASE StreamsOf(c.idx) # 0
  <2> DEFINE e == [c EXCEPT !.stage = "place", !.dsize = size, !.p_lower = lower, !.place = 0,
                           !.lstr = 0]
  <2>1. EnterDomain(c, size, lower) = e
    BY <1>2 DEF EnterDomain
  <2>2. IsCall(e)
    BY SMTT(30) DEF IsCall
  <2>3. /\ e.stage = "place" /\ Stays(e, c) /\ Keeps(e, c) /\ e.str_base = c.str_base
        /\ e.dsize = size /\ e.place = 0 /\ e.lstr = 0
    BY DEF IsCall, Stays, Keeps
  <2> HIDE DEF e
  <2>4. d = [e EXCEPT !.stage = IF StreamsOf(c.idx) > size THEN "refused" ELSE "place"]
    BY <2>1, <2>3 DEF Entered
  <2>5. IsCall(d)
    <3> DEFINE x == IF StreamsOf(c.idx) > size THEN "refused" ELSE "place"
    <3>1. x \in {"domain", "place", "refused"}
      OBVIOUS
    <3> HIDE DEF x
    <3>2. IsCall([e EXCEPT !.stage = x])
      BY <2>2, <3>1, OtherStage
    <3> QED BY <2>4, <3>2 DEF x
  <2>6. /\ Stays(d, c) /\ Keeps(d, c) /\ d.str_base = c.str_base
        /\ d.dsize = size /\ d.place = 0 /\ d.lstr = 0
        /\ d.stage = IF StreamsOf(c.idx) > size THEN "refused" ELSE "place"
    BY <2>2, <2>3, <2>4 DEF IsCall, Stays, Keeps
  <2> QED BY <1>2, <2>5, <2>6
<1> QED BY <1>1, <1>2

-----------------------------------------------------------------------------
(* The steps, one after the other.                                         *)

\* The active cards are a sequence of cards that is not empty.
LEMMA DiscoveriesAre ==
  ASSUME NEW cards \in Discoveries
  PROVE  cards \in Seq(0..(NumEngines - 1)) /\ cards # <<>>
<1> DEFINE m == Min({NumEngines, PhysLimit})
<1>1. PICK n \in 1..NumEngines : cards \in [1..n -> 0..(m - 1)]
  BY DEF Discoveries
<1>2. m \in Nat /\ m <= NumEngines
  <2>1. {NumEngines, PhysLimit} = {NumEngines, PhysLimit, NumEngines}
    OBVIOUS
  <2> QED BY <2>1, MinOfThree, EnginesAssumption
<1> HIDE DEF m
<1>3. n \in Nat \ {0} /\ 0..(m - 1) \subseteq 0..(NumEngines - 1)
  BY <1>2, EnginesAssumption
<1>4. cards \in [1..n -> 0..(NumEngines - 1)]
  BY <1>1, <1>3
<1>5. [i \in 1..n |-> cards[i]] \in Seq(0..(NumEngines - 1))
  BY <1>3, <1>4
<1>6. cards = [i \in 1..n |-> cards[i]] /\ 1 \in DOMAIN cards
  BY <1>3, <1>4
<1> QED BY <1>5, <1>6

\* Empty sequences and functions.
LEMMA NothingYet ==
  /\ <<>> \in Seq(0..(NumEngines - 1)) /\ <<>> \in Seq(Nat)
  /\ DOMAIN <<>> = {} /\ DOMAIN Empty = {} /\ 1..Len(<<>>) = {} /\ 0..(0 - 1) = {}
  BY DEF Empty

\* A library that starts or stops has nothing.
LEMMA FreshInv ==
  ASSUME NEW cards, cards \in Discoveries \/ cards = <<>>, Fresh(cards), call' = Idle
  PROVE  AIInv'
<1>1. cards \in Seq(0..(NumEngines - 1))
  BY DiscoveriesAre, NothingYet
<1>2. LibOK'
  <2>1. /\ initialized' \in BOOLEAN /\ call_failed' \in BOOLEAN
        /\ phys_domains' \in Seq(0..(NumEngines - 1))
        /\ initialized' => phys_domains' # <<>>
    BY <1>1 DEF Fresh
  <2>2. /\ app_init_log_doms_IDs' = <<>> /\ DOMAIN log_domains' = {}
        /\ app_init_next_log_str_ID' = 0
    BY NothingYet DEF Fresh
  <2> QED BY <2>1, <2>2, NothingYet DEF LibOK
<1>3. DOMAIN log_streams' = 0..(app_init_next_log_str_ID' - 1)
  BY DEF Fresh, Empty
<1> QED BY <1>2, <1>3 DEF AIInv

\* The invariant holds initially.
LEMMA InitInv ==
  ASSUME AIInit
  PROVE  AIInv
<1>1. DOMAIN log_domains = {} /\ DOMAIN log_streams = {}
  BY NothingYet DEF AIInit
<1>2. LibOK
  BY <1>1, NothingYet DEF AIInit, LibOK
<1>3. DOMAIN log_streams = 0..(app_init_next_log_str_ID - 1)
  BY <1>1, NothingYet DEF AIInit
<1> QED BY <1>2, <1>3 DEF AIInv, AIInit

\* Init starts from nothing.
LEMMA LibInitInv ==
  ASSUME LibInit
  PROVE  AIInv'
<1>1. call' = Idle
  BY DEF LibInit
<1> QED BY <1>1, FreshInv DEF LibInit

\* Fini leaves nothing.
LEMMA FiniInv ==
  ASSUME Fini
  PROVE  AIInv'
<1>1. call' = Idle
  BY DEF Fini
<1> QED BY <1>1, FreshInv DEF Fini

\* A call that fails takes the library down, or is remembered.
LEMMA FailsInv ==
  ASSUME AIInv, Fails, call' = Idle, call # Idle,
         ~call.should_fini => app_init_next_log_str_ID' \in Nat
  PROVE  AIInv'
<1>1. CASE call.should_fini
  BY <1>1, FreshInv DEF Fails
<1>2. CASE ~call.should_fini
  <2>1. call_failed' = TRUE /\ UNCHANGED <<libVars, log_streams>>
    BY <1>2 DEF Fails
  <2>2. LibOK'
    BY <1>2, <2>1 DEF LibOK, AIInv, libVars
  <2> QED BY <2>1, <2>2 DEF AIInv
<1> QED BY <1>1, <1>2

\* A domain that fails ends the call.
LEMMA DomainFailsInv ==
  ASSUME AIInv, DomainFails
  PROVE  AIInv'
<1>1. call # Idle
  BY DEF DomainFails, Idle, InDomains
<1>2. ~call.should_fini => app_init_next_log_str_ID' \in Nat
  BY DEF DomainFails, AIInv, LibOK
<1> QED BY <1>1, <1>2, FailsInv DEF DomainFails

\* A stream that fails ends the call.
LEMMA StreamFailsInv ==
  ASSUME AIInv, StreamFails
  PROVE  AIInv'
<1>1. call # Idle
  BY DEF StreamFails, Idle, AtPlace
<1>2. ~call.should_fini => app_init_next_log_str_ID' \in Nat
  BY DEF StreamFails, AIInv, LibOK
<1> QED BY <1>1, <1>2, FailsInv DEF StreamFails

\* Where a call begins.
LEMMA AtFirst ==
  Called => /\ 0 < Limit /\ 0 < num_log_domains(0) /\ OnFirst(0) = 0 /\ Upto(0) = 0
            /\ Cut(0, 0) = 0 /\ CardAt(0).lower \in Nat
            /\ \A q \in Nat : OnFirst(q) \in Nat
<1> SUFFICES ASSUME Called
             PROVE  /\ 0 < Limit /\ 0 < num_log_domains(0) /\ OnFirst(0) = 0 /\ Upto(0) = 0
                    /\ Cut(0, 0) = 0 /\ CardAt(0).lower \in Nat
                    /\ \A q \in Nat : OnFirst(q) \in Nat
  OBVIOUS
<1>1. Limit \in Nat \ {0} /\ NumActive \in Nat /\ Limit <= NumActive
  BY LimitIs DEF Called
<1>2. num_log_domains(0) \in Nat \ {0} /\ OnFirst(0) = 0 /\ Upto(0) = 0
     /\ \A q \in Nat : OnFirst(q) \in Nat
  BY NumIs, OnFirstIs, UptoFacts
<1>3. Cut(0, 0) = 0 /\ CardAt(0).lower \in Nat
  BY <1>1, CutIs, CardIs
<1> QED BY <1>1, <1>2, <1>3

\* Streams of before the call are none that it creates.
LEMMA NoneCreated ==
  ASSUME NEW start \in Nat, NEW tot \in Nat \ {0}, NEW s \in Nat, s >= start
  PROVE  (s - start) % tot \in 0..(tot - 1) /\ (s - start) \div tot \in Nat
<1>1. s - start \in Nat
  OBVIOUS
<1> QED BY <1>1, Division

\* An id is made of its place and its number in the place.
LEMMA PlaceIs ==
  ASSUME Called, NEW s \in Nat, s >= call.start
  PROVE  /\ PlaceOf(s) \in Nat /\ PlaceOf(s) < call.tot_places /\ InPlace(s) \in Nat
         /\ s = call.start + InPlace(s) * call.tot_places + PlaceOf(s)
<1>1. call.start \in Nat /\ call.tot_places \in Nat \ {0}
  BY DEF Called, IsCall
<1> DEFINE n == s - call.start
           k == call.tot_places
<1>2. n \in Nat /\ k \in Nat \ {0} /\ s = call.start + n
  BY <1>1
<1>3. PlaceOf(s) = n % k /\ InPlace(s) = n \div k
  BY DEF PlaceOf, InPlace
<1> HIDE DEF n, k
<1>4. n \div k \in Nat /\ n % k \in 0..(k - 1) /\ n = k * (n \div k) + (n % k)
  BY <1>2, Division
<1>5. k * (n \div k) = (n \div k) * k
  BY <1>2, <1>4
<1>6. n = (n \div k) * k + (n % k)
  BY <1>4, <1>5
<1>7. s = call.start + InPlace(s) * k + PlaceOf(s)
  <2> DEFINE m == (n \div k) * k
  <2>1. m \in Nat
    BY <1>2, <1>4
  <2>2. n = m + (n % k) /\ InPlace(s) * k = m
    BY <1>3, <1>6
  <2> HIDE DEF m
  <2> QED BY <1>1, <1>2, <1>3, <1>4, <2>1, <2>2
<1>8. PlaceOf(s) \in Nat /\ PlaceOf(s) < k /\ InPlace(s) \in Nat
  BY <1>2, <1>3, <1>4
<1> QED BY <1>7, <1>8 DEF k

\* A call that starts is before all its domains and has no streams yet.
LEMMA StartInv ==
  ASSUME AIInv, NEW streams \in Seq(Nat) \ {<<>>}, NEW over \in Nat \ {0},
         app_init_domains(streams, over)
  PROVE  AIInv'
<1> USE DEF app_init_domains
<1>1. phys_domains' \in Seq(0..(NumEngines - 1)) /\ phys_domains' # <<>> /\ initialized' = TRUE
  <2>1. CASE initialized
    BY <2>1 DEF AIInv, LibOK
  <2>2. CASE ~initialized
    BY <2>2, DiscoveriesAre
  <2> QED BY <2>1, <2>2
<1>2. LibOK'
  BY <1>1 DEF AIInv, LibOK
<1>3. TotalOf(streams) \in Nat \ {0}
  <2>1. Len(streams) \in 0..Len(streams)
    OBVIOUS
  <2> QED BY <2>1, UptoClimbs DEF TotalOf
<1>4. Available[phys_domains'[1]].lower \in Nat
  <2>1. phys_domains'[1] \in 0..(NumEngines - 1)
    <3>1. phys_domains' \in Seq(0..(NumEngines - 1)) /\ 1 \in 1..Len(phys_domains')
      BY <1>1
    <3> QED BY <3>1, EnginesAssumption
  <2> QED BY <2>1, AvailableAssumption
<1>5. app_init_next_log_str_ID \in Nat
  BY DEF AIInv, LibOK
<1>6. IsCall(call')
  BY <1>1, <1>3, <1>4, <1>5 DEF IsCall, AIInv, LibOK
<1>7. Called'
  BY <1>1, <1>6 DEF Called, IsCall
<1>8. (Called => /\ 0 < Limit /\ 0 < num_log_domains(0) /\ OnFirst(0) = 0 /\ Upto(0) = 0
                 /\ Cut(0, 0) = 0 /\ CardAt(0).lower \in Nat
                 /\ \A q \in Nat : OnFirst(q) \in Nat)'
  BY AtFirst, PTL
<1>9. /\ call'.stage = "domain" /\ call'.p = 0 /\ call'.dom = 0 /\ call'.idx = 0
      /\ call'.streams = streams /\ call'.tot_places = TotalOf(streams)
      /\ call'.start = app_init_next_log_str_ID /\ call'.str_base = app_init_next_log_str_ID
      /\ call'.first = (app_init_log_doms_IDs = <<>>)
      /\ call'.d_lower = Available[phys_domains'[1]].lower
  OBVIOUS
<1> HIDE DEF app_init_domains
<1>10. UNCHANGED <<log_domains, log_streams, app_init_log_doms_IDs, app_init_next_log_str_ID, call_failed>>
       /\ (app_init_log_doms_IDs = <<>> \/ Len(app_init_log_doms_IDs) = Len(streams))
       /\ call = Idle
  BY DEF app_init_domains
<1>11. CallOK'
  <2>1. InRange(call)'
    BY <1>7, <1>8, <1>9 DEF InRange
  <2>2. (Len(app_init_log_doms_IDs) =
         IF ~call.first THEN NumLogDomains
         ELSE IF call.stage = "domain" THEN call.idx ELSE call.idx + 1)'
    BY <1>9, <1>10 DEF NumLogDomains
  <2>3. (call.str_base = call.start + Upto(call.idx))'
    BY <1>5, <1>7, <1>8, <1>9
  <2>4. ~AtPlace'
    BY <1>9 DEF AtPlace
  <2> QED BY <1>1, <1>6, <1>9, <2>1, <2>2, <2>3, <2>4 DEF CallOK
<1>12. DomainsOK'
  <2> SUFFICES ASSUME call'.first PROVE DomainsOK'
    BY DEF DomainsOK
  <2>1. Len(app_init_log_doms_IDs') = 0
    BY <1>9, <1>10
  <2>2. (call.d_lower = CardAt(call.p).lower
           + Cut(call.p, IF call.stage = "domain" THEN call.dom ELSE call.dom + 1))'
    <3>1. CardAt(0)' = Available[phys_domains'[1]]
      BY DEF CardAt
    <3>2. (Cut(call.p, IF call.stage = "domain" THEN call.dom ELSE call.dom + 1))' = 0
      BY <1>7, <1>8, <1>9
    <3>3. CardAt(call.p)' = Available[phys_domains'[1]]
      BY <1>9, <3>1 DEF CardAt
    <3>4. call'.d_lower = Available[phys_domains'[1]].lower + 0
      BY <1>4, <1>9
    <3> QED BY <3>2, <3>3, <3>4
  <2>3. (\A q \in 0..(Limit - 1) : \A e \in 0..(num_log_domains(q) - 1) :
           ~(OnFirst(q) + e < Len(app_init_log_doms_IDs)))'
    <3>1. \A q \in Nat : OnFirst(q)' \in Nat
      BY <1>7, <1>8
    <3> QED BY <2>1, <3>1
  <2> QED BY <2>2, <2>3 DEF DomainsOK
<1>13. ASSUME ~call_failed' PROVE StreamsOK'
  <2>1. DOMAIN log_streams' = 0..(app_init_next_log_str_ID - 1)
    BY <1>10, <1>13 DEF AIInv
  <2>2. NextPlace' = 0 /\ NextInPlace' = 0
    BY <1>7, <1>8, <1>9 DEF NextPlace, NextInPlace, AtPlace
  <2>3. \A s \in Nat : s >= call'.start => ~Created(s)'
    <3> SUFFICES ASSUME NEW s \in Nat, s >= call'.start PROVE ~Created(s)'
      OBVIOUS
    <3>1. PlaceOf(s)' \in Nat /\ InPlace(s)' \in Nat
      <4>1. /\ (s - app_init_next_log_str_ID) % TotalOf(streams) \in Nat
            /\ (s - app_init_next_log_str_ID) \div TotalOf(streams) \in Nat
        <5> DEFINE tot == TotalOf(streams)
                   start == app_init_next_log_str_ID
        <5>1. start \in Nat /\ tot \in Nat \ {0} /\ s >= start
          BY <1>3, <1>5, <1>9
        <5> HIDE DEF tot, start
        <5>2. (s - start) % tot \in 0..(tot - 1) /\ (s - start) \div tot \in Nat
          BY <5>1, NoneCreated
        <5>3. (s - start) % tot \in Nat
          BY <5>1, <5>2
        <5> QED BY <5>2, <5>3 DEF tot, start
      <4> QED BY <1>9, <4>1 DEF PlaceOf, InPlace
    <3> QED BY <2>2, <3>1 DEF Created
  <2>4. (DOMAIN log_streams = {s \in Nat : s < call.start \/ Created(s)})'
    BY <1>5, <1>9, <2>1, <2>3
  <2>5. (app_init_next_log_str_ID = call.start + NextPlace * call.over + NextInPlace)'
    BY <1>5, <1>6, <1>9, <1>10, <2>2 DEF IsCall
  <2>6. ~(\E s \in DOMAIN log_streams' : s >= call'.start)
    BY <1>5, <1>9, <2>1
  <2> QED BY <2>4, <2>5, <2>6 DEF StreamsOK
<1>14. call' # Idle
  BY <1>9 DEF Idle
<1> QED BY <1>2, <1>11, <1>12, <1>13, <1>14 DEF AIInv

\* Loops that are in range are at a card, at a domain there and at a domain.
LEMMA InRangeIs ==
  ASSUME Called, NEW c, IsCall(c), InRange(c)
  PROVE  /\ c.p \in 0..(Limit - 1) /\ c.p \in 0..(NumActive - 1)
         /\ c.dom \in 0..(num_log_domains(c.p) - 1)
         /\ c.idx \in 0..(NumLogDomains - 1)
<1>1. /\ NumLogDomains \in Nat \ {0} /\ NumActive \in Nat
      /\ Limit \in Nat \ {0} /\ Limit <= NumActive
  BY LimitIs DEF Called
<1>2. c.p \in Nat /\ c.dom \in Nat /\ c.idx \in Nat
  BY DEF IsCall
<1>3. num_log_domains(c.p) \in Nat
  BY <1>2, NumIs
<1>4. OnFirst(c.p) \in Nat /\ OnFirst(c.p + 1) = OnFirst(c.p) + num_log_domains(c.p)
  BY <1>2, OnFirstIs
<1>5. c.p + 1 \in 0..Limit /\ Limit \in 0..Limit /\ c.p + 1 <= Limit
  BY <1>1, <1>2 DEF InRange
<1>6. OnFirst(c.p + 1) <= NumLogDomains
  BY <1>5, OnFirstIs
<1> QED BY <1>1, <1>2, <1>3, <1>4, <1>5, <1>6 DEF InRange

\* The invariant says of a call in its loops over domains,
LEMMA InDomainsIs ==
  ASSUME AIInv, InDomains
  PROVE  /\ Called /\ InRange(call) /\ call # Idle /\ CallOK /\ DomainsOK /\ LibOK
         /\ call.idx \in 0..(NumLogDomains - 1) /\ call.stage = "domain"
<1>1. call # Idle /\ call.stage = "domain" /\ call.idx < NumLogDomains
  BY DEF InDomains, Idle
<1>2. CallOK /\ DomainsOK /\ LibOK
  BY <1>1 DEF AIInv
<1>3. Called
  BY <1>2 DEF CallOK, LibOK, Called
<1>4. call.idx \in Nat /\ NumLogDomains \in Nat
  BY <1>2, <1>3, LimitIs DEF CallOK, IsCall, Called
<1>5. InRange(call)
  BY <1>1, <1>2, <1>4 DEF CallOK, AtEnd
<1> QED BY <1>1, <1>2, <1>3, <1>5, InRangeIs DEF Called

\* and of one in its loops over places.
LEMMA AtPlaceIs ==
  ASSUME AIInv, AtPlace
  PROVE  /\ Called /\ InRange(call) /\ call # Idle /\ CallOK /\ DomainsOK /\ LibOK
         /\ call.idx \in 0..(NumLogDomains - 1) /\ call.stage = "place"
<1>1. call # Idle /\ call.stage = "place"
  BY DEF AtPlace, Idle
<1>2. CallOK /\ DomainsOK /\ LibOK
  BY <1>1 DEF AIInv
<1>3. Called
  BY <1>2 DEF CallOK, LibOK, Called
<1>4. InRange(call)
  BY <1>1, <1>2 DEF CallOK
<1> QED BY <1>1, <1>2, <1>3, <1>4, InRangeIs DEF Called

\* Entering a domain keeps what the invariant says of the call and its streams:
\* nothing has been created there so far.
LEMMA EnterInv ==
  ASSUME Called, InRange(call), CallOK, call.stage = "domain", call.idx \in 0..(NumLogDomains - 1),
         UNCHANGED <<initialized, phys_domains, log_streams, app_init_next_log_str_ID>>,
         NEW size \in Nat \ {0},
         IsCall(call'), Keeps(call', call), call'.str_base = call.str_base,
         \/ /\ call'.stage = "domain" /\ call'.idx = call.idx + 1 /\ StreamsOf(call.idx) = 0
            /\ InRange(call') \/ AtEnd(call')
         \/ call'.stage = "refused" /\ call'.idx = call.idx /\ call'.p = call.p /\ call'.dom = call.dom
         \/ /\ call'.stage = "place" /\ call'.idx = call.idx /\ call'.p = call.p /\ call'.dom = call.dom
            /\ StreamsOf(call.idx) > 0 /\ StreamsOf(call.idx) <= size
            /\ call'.dsize = size /\ call'.place = 0 /\ call'.lstr = 0,
         Len(app_init_log_doms_IDs') = IF call.first THEN call.idx + 1 ELSE NumLogDomains,
         size = Size(log_domains'[call.idx + 1].mask),
         \A d \in 1..call.idx : log_domains'[d] = log_domains[d]
  PROVE  CallOK' /\ (StreamsOK => StreamsOK') /\ call' # Idle
<1>0. call.idx \in Nat /\ NumLogDomains \in Nat
  BY LimitIs DEF Called, IsCall
<1>1. call' # Idle
  <2>1. call'.stage # "idle"
    BY DEF IsCall
  <2> QED BY <2>1 DEF Idle
<1>2. /\ NumLogDomains' = NumLogDomains /\ Limit' = Limit
      /\ \A q : num_log_domains(q)' = num_log_domains(q) /\ OnFirst(q)' = OnFirst(q)
      /\ \A i : Upto(i)' = Upto(i) /\ StreamsOf(i)' = StreamsOf(i)
      /\ \A s : PlaceOf(s)' = PlaceOf(s) /\ InPlace(s)' = InPlace(s)
      /\ \A c : InRange(c)' = InRange(c) /\ AtEnd(c)' = AtEnd(c)
  BY SameCall
<1>3. /\ call'.streams = call.streams /\ call'.over = call.over
      /\ call'.tot_places = call.tot_places /\ call'.start = call.start /\ call'.first = call.first
  BY DEF Keeps
<1>4. StreamsOf(call.idx) = 0 => Upto(call.idx + 1) = Upto(call.idx)
  <2>1. call.idx \in 0..NumLogDomains
    BY <1>0
  <2> QED BY <2>1, UptoFacts
<1>5. \/ /\ call'.stage = "domain" /\ call'.idx = call.idx + 1 /\ StreamsOf(call.idx) = 0
         /\ InRange(call') \/ AtEnd(call')
      \/ /\ call'.stage # "domain" /\ call'.idx = call.idx /\ InRange(call')
         /\ call'.stage = "place" =>
              /\ StreamsOf(call.idx) > 0 /\ StreamsOf(call.idx) <= size
              /\ call'.dsize = size /\ call'.place = 0 /\ call'.lstr = 0
  BY DEF InRange
<1>6. Upto(call'.idx) = Upto(call.idx)
  BY <1>4, <1>5
<1>7. CallOK'
  <2>1. (InRange(call) \/ (call.stage = "domain" /\ AtEnd(call)))'
    <3>1. InRange(call') \/ (call'.stage = "domain" /\ AtEnd(call'))
      BY <1>5
    <3>2. InRange(call)' = InRange(call') /\ AtEnd(call)' = AtEnd(call')
      BY <1>2 DEF InRange, AtEnd
    <3> QED BY <3>1, <3>2
  <2>2. (Len(app_init_log_doms_IDs) =
         IF ~call.first THEN NumLogDomains
         ELSE IF call.stage = "domain" THEN call.idx ELSE call.idx + 1)'
    BY <1>2, <1>3, <1>5
  <2>3. (call.str_base = call.start + Upto(call.idx))'
    <3>1. Upto(call.idx)' = Upto(call'.idx)
      BY <1>3 DEF Upto
    <3> QED BY <1>3, <1>6, <3>1 DEF CallOK
  <2>4. AtPlace' =>
       /\ (call.place < StreamsOf(call.idx))' /\ call'.lstr < call'.over
       /\ call'.dsize = Size(log_domains'[call'.idx + 1].mask)
       /\ (StreamsOf(call.idx) <= call.dsize)'
       /\ ~(call'.place > 0)
    <3> SUFFICES ASSUME call'.stage = "place"
                 PROVE  /\ (call.place < StreamsOf(call.idx))' /\ call'.lstr < call'.over
                        /\ call'.dsize = Size(log_domains'[call'.idx + 1].mask)
                        /\ (StreamsOf(call.idx) <= call.dsize)'
                        /\ ~(call'.place > 0)
      BY DEF AtPlace
    <3>1. StreamsOf(call.idx)' = StreamsOf(call.idx) /\ call'.idx = call.idx
      BY <1>3, <1>5 DEF StreamsOf
    <3> QED BY <1>3, <1>5, <3>1 DEF IsCall
  <2>5. call'.tot_places = TotalOf(call'.streams) /\ initialized'
    BY <1>3 DEF CallOK
  <2> QED BY <2>1, <2>2, <2>3, <2>4, <2>5 DEF CallOK
<1>8. ASSUME StreamsOK PROVE StreamsOK'
  <2>1. Upto(call.idx)' = Upto(call.idx)
    BY <1>3, <1>6 DEF Upto
  <2>2. /\ Upto(call.idx) \in Nat /\ NextPlace = Upto(call.idx) /\ NextInPlace = 0
        /\ NextPlace' = Upto(call.idx) /\ NextInPlace' = 0
    <3>1. call.idx \in 0..NumLogDomains
      BY <1>0
    <3>2. Upto(call.idx) \in Nat
      BY <3>1, UptoFacts
    <3>3. NextPlace = Upto(call.idx) /\ NextInPlace = 0
      BY <3>2 DEF NextPlace, NextInPlace, AtPlace
    <3>4. AtPlace' => call'.place = 0 /\ call'.lstr = 0
      BY <1>5 DEF AtPlace
    <3>5. NextPlace' = Upto(call.idx) /\ NextInPlace' = 0
      BY <2>1, <3>2, <3>4 DEF NextPlace, NextInPlace
    <3> QED BY <3>2, <3>3, <3>5
  <2>3. \A s : Created(s)' = Created(s)
    BY <1>2, <1>3, <2>2 DEF Created
  <2>4. (DOMAIN log_streams = {s \in Nat : s < call.start \/ Created(s)})'
    BY <1>3, <1>8, <2>3 DEF StreamsOK
  <2>5. (app_init_next_log_str_ID = call.start + NextPlace * call.over + NextInPlace)'
    BY <1>3, <1>8, <2>2 DEF StreamsOK
  <2>6. ASSUME NEW s \in DOMAIN log_streams, s >= call.start, NEW d \in 1..NumLogDomains,
               Upto(d - 1) <= PlaceOf(s), PlaceOf(s) < Upto(d)
        PROVE  /\ d <= call.idx /\ log_streams[s].dom = d
               /\ call.streams[d] <= Size(Mask(d))
               /\ log_streams[s].mask =
                    PlaceIn(Low(Mask(d)), Size(Mask(d)), call.streams[d], PlaceOf(s) - Upto(d - 1))
    <3>0. call.start \in Nat /\ call.tot_places \in Nat \ {0}
      BY DEF Called, IsCall
    <3>1. s \in Nat /\ Created(s)
      BY <1>8, <2>6, <3>0 DEF StreamsOK
    <3>2. PlaceOf(s) \in Nat /\ InPlace(s) \in Nat
      BY <2>6, <3>1, PlaceIs
    <3>3. PlaceOf(s) < Upto(call.idx)
      BY <2>2, <3>1, <3>2 DEF Created
    <3>4. d <= call.idx
      <4>1. d - 1 \in 0..NumLogDomains /\ call.idx \in 0..NumLogDomains
        BY <1>0
      <4>2. call.idx <= d - 1 => Upto(call.idx) <= Upto(d - 1)
        BY <4>1, UptoFacts
      <4>3. Upto(d - 1) \in Nat
        BY <4>1, UptoFacts
      <4> QED BY <1>0, <2>2, <2>6, <3>2, <3>3, <4>2, <4>3
    <3> QED BY <1>8, <2>6, <3>4 DEF StreamsOK
  <2>7. ASSUME NEW s \in DOMAIN log_streams, s >= call.start, NEW d \in 1..NumLogDomains,
               Upto(d - 1) <= PlaceOf(s), PlaceOf(s) < Upto(d)
        PROVE  /\ d <= call'.idx /\ log_streams'[s].dom = d
               /\ call'.streams[d] <= Size(Mask(d)')
               /\ log_streams'[s].mask =
                    PlaceIn(Low(Mask(d)'), Size(Mask(d)'), call'.streams[d], PlaceOf(s) - Upto(d - 1))
    <3>1. d \in 1..call.idx
      BY <1>0, <2>6, <2>7
    <3>2. Mask(d)' = Mask(d)
      BY <3>1 DEF Mask
    <3>3. d <= call'.idx
      BY <1>0, <1>5, <3>1
    <3> QED BY <1>3, <2>6, <2>7, <3>2, <3>3
  <2> QED BY <1>2, <1>3, <2>4, <2>5, <2>7 DEF StreamsOK
<1> QED BY <1>1, <1>7, <1>8

\* A call with another lower bound is still a call.
LEMMA OtherLower ==
  ASSUME NEW c, IsCall(c), NEW x \in Nat, NEW d, d = [c EXCEPT !.d_lower = x]
  PROVE  /\ IsCall(d) /\ Keeps(d, c) /\ d.d_lower = x
         /\ d.stage = c.stage /\ d.p = c.p /\ d.dom = c.dom /\ d.idx = c.idx
         /\ d.str_base = c.str_base
  BY DEF IsCall, Keeps

\* The first call makes the domain where the one before ends.
LEMMA CreateDomainInv ==
  ASSUME AIInv, CreateDomain
  PROVE  AIInv'
<1> DEFINE size == DomainSize(call.p, call.dom)
           id == Len(app_init_log_doms_IDs) + 1
           mask == call.d_lower..(call.d_lower + size - 1)
           c == [call EXCEPT !.d_lower = @ + size]
<1>1. InDomains /\ call.first
  BY DEF CreateDomain
<1>2. /\ Called /\ InRange(call) /\ call # Idle /\ CallOK /\ DomainsOK /\ LibOK
      /\ call.idx \in 0..(NumLogDomains - 1) /\ call.stage = "domain"
  BY <1>1, InDomainsIs
<1>3. /\ size # 0
      /\ log_domains' = [d \in 1..id |-> IF d = id THEN [phys |-> call.p, mask |-> mask]
                                         ELSE log_domains[d]]
      /\ app_init_log_doms_IDs' = Append(app_init_log_doms_IDs, id)
      /\ call' = [EnterDomain(c, size, call.d_lower)
                    EXCEPT !.stage = IF StreamsOf(call.idx) > size THEN "refused" ELSE @]
      /\ UNCHANGED <<initialized, phys_domains, log_streams, app_init_next_log_str_ID, call_failed>>
  BY DEF CreateDomain
<1>4. /\ call.p \in 0..(Limit - 1) /\ call.p \in 0..(NumActive - 1)
      /\ call.dom \in 0..(num_log_domains(call.p) - 1)
      /\ Limit \in Nat /\ NumLogDomains \in Nat
  BY <1>2, InRangeIs, LimitIs DEF Called
<1>5. /\ size \in Nat \ {0} /\ Cut(call.p, call.dom) \in Nat
      /\ Cut(call.p, call.dom + 1) = Cut(call.p, call.dom) + size
      /\ CardAt(call.p).lower \in Nat
  <2>1. call.dom \in 0..num_log_domains(call.p) /\ num_log_domains(call.p) \in Nat
    BY <1>2, <1>4, NumIs
  <2> QED BY <1>2, <1>3, <1>4, <2>1, CutIs, CardIs
<1>6. call.d_lower = CardAt(call.p).lower + Cut(call.p, call.dom) /\ call.d_lower \in Nat
  <2>1. call.p < Limit
    BY <1>2 DEF InRange
  <2> QED BY <1>1, <1>2, <1>5, <2>1 DEF DomainsOK
<1>7. /\ id = call.idx + 1 /\ id \in Nat /\ call.idx \in Nat
      /\ Len(app_init_log_doms_IDs) = call.idx /\ app_init_log_doms_IDs \in Seq(Nat)
  BY <1>1, <1>2 DEF CallOK, LibOK
<1>8. mask = DomainMask(call.p, call.dom) /\ Size(mask) = size /\ IsBlock(mask)
  <2>1. mask = DomainMask(call.p, call.dom)
    BY <1>5, <1>6 DEF DomainMask
  <2> HIDE DEF size
  <2>2. Size(mask) = size /\ IsBlock(mask)
    BY <1>5, <1>6, BlockIs
  <2> QED BY <2>1, <2>2
<1> HIDE DEF size, id, mask
<1>9. /\ IsCall(c) /\ c.stage = "domain" /\ c.p = call.p /\ c.dom = call.dom /\ c.idx = call.idx
      /\ c.str_base = call.str_base /\ Keeps(c, call) /\ c.d_lower = call.d_lower + size
  <2>1. IsCall(call) /\ call.d_lower + size \in Nat
    BY <1>2, <1>5, <1>6 DEF Called
  <2> QED BY <1>2, <2>1, OtherLower
<1> HIDE DEF c
<1>10. StreamsOf(call.idx) \in Nat
  BY <1>2, UptoFacts
<1>11. InRange(c)
  BY <1>2, <1>9 DEF InRange
<1>12. /\ IsCall(call') /\ Keeps(call', c) /\ call'.str_base = c.str_base
       /\ \/ StreamsOf(c.idx) = 0 /\ Moves(call', c)
          \/ call'.stage = "refused" /\ Stays(call', c)
          \/ /\ call'.stage = "place" /\ Stays(call', c)
             /\ StreamsOf(c.idx) > 0 /\ StreamsOf(c.idx) <= size
             /\ call'.dsize = size /\ call'.place = 0 /\ call'.lstr = 0
  <2>1. StreamsOf(c.idx) \in Nat /\ StreamsOf(c.idx) = StreamsOf(call.idx)
    BY <1>9, <1>10
  <2>2. call' = Entered(c, size, call.d_lower)
    BY <1>3, <2>1 DEF Entered
  <2> QED BY <1>2, <1>5, <1>6, <1>9, <1>11, <2>1, <2>2, EnteredIs
<1>13. /\ Keeps(call', call) /\ call'.str_base = call.str_base
       /\ \/ StreamsOf(call.idx) = 0 /\ Moves(call', c)
          \/ call'.stage = "refused" /\ Stays(call', c)
          \/ /\ call'.stage = "place" /\ Stays(call', c)
             /\ StreamsOf(call.idx) > 0 /\ StreamsOf(call.idx) <= size
             /\ call'.dsize = size /\ call'.place = 0 /\ call'.lstr = 0
  BY <1>9, <1>12 DEF Keeps
<1>14. /\ Len(app_init_log_doms_IDs') = call.idx + 1
       /\ \A i \in 1..(call.idx + 1) : app_init_log_doms_IDs'[i] =
            IF i = call.idx + 1 THEN call.idx + 1 ELSE app_init_log_doms_IDs[i]
       /\ app_init_log_doms_IDs' \in Seq(Nat)
  BY <1>3, <1>7
<1>15. /\ log_domains'[call.idx + 1] = [phys |-> call.p, mask |-> mask]
       /\ \A d \in 1..call.idx : log_domains'[d] = log_domains[d]
       /\ DOMAIN log_domains' = 1..(call.idx + 1)
  BY <1>3, <1>7
<1>16. LibOK'
  <2>1. \A d \in DOMAIN log_domains' : IsBlock(log_domains'[d].mask)
    <3> SUFFICES ASSUME NEW d \in 1..(call.idx + 1) PROVE IsBlock(log_domains'[d].mask)
      BY <1>15
    <3>1. CASE d = call.idx + 1
      BY <1>8, <1>15, <3>1
    <3>2. CASE d # call.idx + 1
      <4>1. d \in 1..call.idx /\ d \in DOMAIN log_domains
        BY <1>2, <1>4, <1>7, <3>2 DEF LibOK
      <4> QED BY <1>2, <1>15, <4>1 DEF LibOK
    <3> QED BY <3>1, <3>2
  <2>2. \A i \in DOMAIN app_init_log_doms_IDs' : app_init_log_doms_IDs'[i] = i
    <3>1. DOMAIN app_init_log_doms_IDs' = 1..(call.idx + 1)
          /\ DOMAIN app_init_log_doms_IDs = 1..call.idx
      BY <1>7, <1>14
    <3> QED BY <1>2, <1>14, <3>1 DEF LibOK
  <2> QED BY <1>2, <1>3, <1>14, <1>15, <2>1, <2>2 DEF LibOK
<1>17. CallOK' /\ (StreamsOK => StreamsOK') /\ call' # Idle
  <2>1. \/ /\ call'.stage = "domain" /\ call'.idx = call.idx + 1 /\ StreamsOf(call.idx) = 0
           /\ InRange(call') \/ AtEnd(call')
        \/ call'.stage = "refused" /\ call'.idx = call.idx /\ call'.p = call.p /\ call'.dom = call.dom
        \/ /\ call'.stage = "place" /\ call'.idx = call.idx /\ call'.p = call.p /\ call'.dom = call.dom
           /\ StreamsOf(call.idx) > 0 /\ StreamsOf(call.idx) <= size
           /\ call'.dsize = size /\ call'.place = 0 /\ call'.lstr = 0
    BY <1>9, <1>13 DEF Moves, Stays
  <2>2. size = Size(log_domains'[call.idx + 1].mask)
    BY <1>8, <1>15
  <2>3. Len(app_init_log_doms_IDs') = IF call.first THEN call.idx + 1 ELSE NumLogDomains
    BY <1>1, <1>14
  <2> QED BY <1>2, <1>3, <1>5, <1>12, <1>13, <1>15, <2>1, <2>2, <2>3, EnterInv
<1>18. DomainsOK'
  <2>1. call'.p < Limit =>
          call'.d_lower = CardAt(call'.p).lower
             + Cut(call'.p, IF call'.stage = "domain" THEN call'.dom ELSE call'.dom + 1)
    <3>1. CASE Moves(call', c) /\ call.dom + 1 < num_log_domains(call.p)
      <4>1. call'.stage = "domain" /\ call'.p = call.p /\ call'.dom = call.dom + 1
            /\ call'.d_lower = call.d_lower + size
        BY <1>9, <3>1 DEF Moves
      <4> QED BY <1>5, <1>6, <4>1
    <3>2. CASE Moves(call', c) /\ ~(call.dom + 1 < num_log_domains(call.p)) /\ call'.p < Limit
      <4>1. call'.stage = "domain" /\ call'.p = call.p + 1 /\ call'.dom = 0
            /\ call'.d_lower = CardAt(call'.p).lower
        BY <1>9, <3>2 DEF Moves
      <4>2. call'.p \in 0..(Limit - 1) /\ call'.p \in 0..(NumActive - 1)
        BY <1>2, <1>4, <3>2, <4>1, LimitIs DEF Called
      <4>3. Cut(call'.p, 0) = 0 /\ CardAt(call'.p).lower \in Nat
        BY <1>2, <4>2, CutIs, CardIs
      <4> QED BY <4>1, <4>3
    <3>3. CASE Stays(call', c) /\ call'.stage # "domain"
      <4>1. call'.p = call.p /\ call'.dom = call.dom /\ call'.d_lower = call.d_lower + size
        BY <1>9, <3>3 DEF Stays
      <4> QED BY <1>5, <1>6, <3>3, <4>1
    <3> QED BY <1>13, <3>1, <3>2, <3>3
  <2>2. ASSUME NEW q \in 0..(Limit - 1), NEW e \in 0..(num_log_domains(q) - 1),
               OnFirst(q) + e < call.idx + 1
        PROVE  /\ log_domains'[OnFirst(q) + e + 1] = [phys |-> q, mask |-> DomainMask(q, e)]
               /\ Cut(q, e) < Cut(q, e + 1)
    <3>1. OnFirst(q) \in Nat /\ e \in Nat /\ call.idx \in Nat
      BY <1>2, <1>4, OnFirstIs
    <3>2. CASE OnFirst(q) + e < call.idx
      <4>1. OnFirst(q) + e < Len(app_init_log_doms_IDs)
        BY <1>7, <3>2
      <4>2. log_domains[OnFirst(q) + e + 1] = [phys |-> q, mask |-> DomainMask(q, e)]
            /\ Cut(q, e) < Cut(q, e + 1)
        BY <1>1, <1>2, <4>1 DEF DomainsOK
      <4>3. OnFirst(q) + e + 1 \in 1..call.idx
        BY <3>1, <3>2
      <4> QED BY <1>15, <4>2, <4>3
    <3>3. CASE OnFirst(q) + e = call.idx
      <4>1. OnFirst(call.p) + call.dom = call.idx
        BY <1>2 DEF InRange
      <4>2. q = call.p /\ e = call.dom
        BY <1>2, <1>4, <3>3, <4>1, OnFirstUnique
      <4>3. log_domains'[OnFirst(q) + e + 1] = [phys |-> q, mask |-> DomainMask(q, e)]
        BY <1>8, <1>15, <3>3, <4>2
      <4> QED BY <1>5, <4>2, <4>3
    <3> QED BY <2>2, <3>1, <3>2, <3>3
  <2>3. call'.first = call.first
    BY <1>13 DEF Keeps
  <2>4. /\ Limit' = Limit
        /\ \A q : num_log_domains(q)' = num_log_domains(q) /\ OnFirst(q)' = OnFirst(q)
        /\ \A q : CardAt(q)' = CardAt(q)
        /\ \A q, e : Cut(q, e)' = Cut(q, e) /\ DomainMask(q, e)' = DomainMask(q, e)
    BY <1>3, <1>13, SameCall
  <2>5. (call.p < Limit =>
         call.d_lower = CardAt(call.p).lower
           + Cut(call.p, IF call.stage = "domain" THEN call.dom ELSE call.dom + 1))'
    <3>1. CardAt(call.p)' = CardAt(call'.p)
      BY <1>3 DEF CardAt
    <3>2. (Cut(call.p, IF call.stage = "domain" THEN call.dom ELSE call.dom + 1))'
            = Cut(call'.p, IF call'.stage = "domain" THEN call'.dom ELSE call'.dom + 1)
      BY <2>4
    <3> QED BY <2>1, <2>4, <3>1, <3>2
  <2>6. (\A q \in 0..(Limit - 1) : \A e \in 0..(num_log_domains(q) - 1) :
         OnFirst(q) + e < Len(app_init_log_doms_IDs) =>
           /\ log_domains[OnFirst(q) + e + 1] = [phys |-> q, mask |-> DomainMask(q, e)]
           /\ Cut(q, e) < Cut(q, e + 1))'
    BY <1>14, <2>2, <2>4
  <2> QED BY <2>5, <2>6 DEF DomainsOK
<1>19. ASSUME ~call_failed' PROVE StreamsOK'
  BY <1>2, <1>3, <1>17, <1>19 DEF AIInv
<1> QED BY <1>16, <1>17, <1>18, <1>19 DEF AIInv

\* A later call takes the domain that is there.
LEMMA ReuseDomainInv ==
  ASSUME AIInv, ReuseDomain
  PROVE  AIInv'
<1> DEFINE size == Size(log_domains[call.idx + 1].mask)
<1>1. InDomains /\ ~call.first /\ UNCHANGED <<libVars, log_streams, app_init_next_log_str_ID, call_failed>>
  BY DEF ReuseDomain
<1>2. /\ Called /\ InRange(call) /\ call # Idle /\ CallOK /\ DomainsOK /\ LibOK
      /\ call.idx \in 0..(NumLogDomains - 1) /\ call.stage = "domain" /\ IsCall(call)
  BY <1>1, InDomainsIs DEF Called
<1>3. NumLogDomains \in Nat /\ Len(app_init_log_doms_IDs) = NumLogDomains
  BY <1>1, <1>2, LimitIs DEF CallOK, Called
<1>4. /\ call.idx + 1 \in 1..Len(app_init_log_doms_IDs) /\ call.idx \in Nat
      /\ call.idx + 1 \in DOMAIN app_init_log_doms_IDs /\ call.idx + 1 \in DOMAIN log_domains
  <2>1. call.idx + 1 \in 1..Len(app_init_log_doms_IDs) /\ call.idx \in Nat
    BY <1>2, <1>3
  <2> QED BY <1>2, <2>1 DEF LibOK
<1>5. app_init_log_doms_IDs[call.idx + 1] = call.idx + 1 /\ size \in Nat \ {0}
  BY <1>2, <1>4 DEF LibOK, IsBlock
<1>6. call' = Entered(call, size, call.d_lower)
  BY <1>5 DEF ReuseDomain, Entered, Size
<1>7. StreamsOf(call.idx) \in Nat /\ call.d_lower \in Nat
  BY <1>2, UptoFacts DEF IsCall
<1>8. /\ IsCall(call') /\ Keeps(call', call) /\ call'.str_base = call.str_base
      /\ \/ StreamsOf(call.idx) = 0 /\ Moves(call', call)
         \/ call'.stage = "refused" /\ Stays(call', call)
         \/ /\ call'.stage = "place" /\ Stays(call', call)
            /\ StreamsOf(call.idx) > 0 /\ StreamsOf(call.idx) <= size
            /\ call'.dsize = size /\ call'.place = 0 /\ call'.lstr = 0
  BY <1>2, <1>5, <1>6, <1>7, EnteredIs
<1>9. /\ UNCHANGED <<initialized, phys_domains, log_streams, app_init_next_log_str_ID>>
      /\ UNCHANGED <<log_domains, app_init_log_doms_IDs, call_failed>>
  BY <1>1 DEF libVars
<1> HIDE DEF size
<1>10. CallOK' /\ (StreamsOK => StreamsOK') /\ call' # Idle
  <2>1. \/ /\ call'.stage = "domain" /\ call'.idx = call.idx + 1 /\ StreamsOf(call.idx) = 0
           /\ InRange(call') \/ AtEnd(call')
        \/ call'.stage = "refused" /\ call'.idx = call.idx /\ call'.p = call.p /\ call'.dom = call.dom
        \/ /\ call'.stage = "place" /\ call'.idx = call.idx /\ call'.p = call.p /\ call'.dom = call.dom
           /\ StreamsOf(call.idx) > 0 /\ StreamsOf(call.idx) <= size
           /\ call'.dsize = size /\ call'.place = 0 /\ call'.lstr = 0
    BY <1>8 DEF Moves, Stays
  <2>2. size = Size(log_domains'[call.idx + 1].mask)
    BY <1>9 DEF size
  <2>3. Len(app_init_log_doms_IDs') = IF call.first THEN call.idx + 1 ELSE NumLogDomains
    BY <1>1, <1>3, <1>9
  <2>4. \A d \in 1..call.idx : log_domains'[d] = log_domains[d]
    BY <1>9
  <2> QED BY <1>2, <1>5, <1>8, <1>9, <2>1, <2>2, <2>3, <2>4, EnterInv
<1>11. DomainsOK'
  BY <1>1, <1>8 DEF DomainsOK, Keeps
<1>12. LibOK'
  BY <1>2, <1>9 DEF LibOK
<1> QED BY <1>2, <1>9, <1>10, <1>11, <1>12 DEF AIInv

\* A call that returns has been everywhere,
LEMMA ReturningIs ==
  ASSUME AIInv, Returning
  PROVE  /\ Called /\ call # Idle /\ CallOK /\ DomainsOK /\ LibOK /\ call.idx = NumLogDomains
         /\ NumLogDomains \in Nat /\ AtEnd(call) /\ call.stage = "domain"
         /\ Upto(NumLogDomains) = call.tot_places
<1>1. call # Idle /\ call.stage = "domain" /\ call.idx = NumLogDomains
  BY DEF Returning, Idle
<1>2. CallOK /\ DomainsOK /\ LibOK
  BY <1>1 DEF AIInv
<1>3. Called
  BY <1>2 DEF CallOK, LibOK, Called
<1>4. NumLogDomains \in Nat
  BY <1>3, LimitIs DEF Called
<1>5. AtEnd(call)
  <2>1. InRange(call) => call.idx \in 0..(NumLogDomains - 1)
    BY <1>3, InRangeIs DEF Called
  <2> QED BY <1>1, <1>2, <1>4, <2>1 DEF CallOK
<1>6. Upto(NumLogDomains) = call.tot_places
  BY <1>2 DEF CallOK, TotalOf, Upto, NumLogDomains
<1> QED BY <1>1, <1>2, <1>3, <1>4, <1>5, <1>6

\* and, unless one has failed, made all its streams and used all its ids.
LEMMA AllCreated ==
  ASSUME AIInv, Returning, ~call_failed
  PROVE  /\ DOMAIN log_streams = 0..(call.start + call.tot_places * call.over - 1)
         /\ app_init_next_log_str_ID = call.start + call.tot_places * call.over
         /\ DOMAIN log_streams = 0..(app_init_next_log_str_ID - 1)
         /\ call.tot_places * call.over \in Nat
<1>1. /\ Called /\ call # Idle /\ call.idx = NumLogDomains /\ call.stage = "domain"
      /\ Upto(NumLogDomains) = call.tot_places
  BY ReturningIs
<1>2. StreamsOK
  BY <1>1 DEF AIInv
<1> DEFINE t == call.tot_places
           o == call.over
<1>3. call.start \in Nat /\ t \in Nat \ {0} /\ o \in Nat \ {0}
  BY <1>1 DEF Called, IsCall
<1>4. NextPlace = t /\ NextInPlace = 0
  BY <1>1, <1>3 DEF NextPlace, NextInPlace, AtPlace
<1>5. t * o \in Nat
  BY <1>3
<1>6. app_init_next_log_str_ID = call.start + t * o
  BY <1>2, <1>3, <1>4, <1>5 DEF StreamsOK
<1>7. ASSUME NEW s \in Nat, s >= call.start
      PROVE  Created(s) <=> s < call.start + t * o
  <2>1. /\ PlaceOf(s) \in Nat /\ PlaceOf(s) < t /\ InPlace(s) \in Nat
        /\ s = call.start + InPlace(s) * t + PlaceOf(s)
    BY <1>1, <1>7, PlaceIs
  <2>2. Created(s) <=> InPlace(s) < o
    BY <1>4, <2>1 DEF Created
  <2> DEFINE i == InPlace(s)
             r == PlaceOf(s)
  <2> HIDE DEF i, r, t, o
  <2>3. i < o <=> call.start + i * t + r < call.start + t * o
    <3>1. i \in Nat /\ r \in Nat /\ r < t /\ t \in Nat /\ o \in Nat
      BY <1>3, <2>1 DEF i, r
    <3>2. i < o => (i + 1) * t <= o * t
      BY <3>1, TimesMonotone
    <3>3. o <= i => o * t <= i * t
      BY <3>1, TimesMonotone
    <3>4. (i + 1) * t = i * t + t /\ o * t = t * o
      BY <3>1
    <3> DEFINE x == i * t
               y == t * o
    <3>5. x \in Nat /\ y \in Nat
      BY <3>1
    <3>6. (i < o => x + t <= y) /\ (o <= i => y <= x)
      BY <3>2, <3>3, <3>4
    <3> HIDE DEF x, y
    <3>7. i < o <=> call.start + x + r < call.start + y
      BY <1>3, <3>1, <3>5, <3>6
    <3> QED BY <3>7 DEF x, y
  <2> QED BY <2>1, <2>2, <2>3 DEF i, r
<1> DEFINE z == t * o
<1>8. z \in Nat /\ \A s \in Nat : s >= call.start => (Created(s) <=> s < call.start + z)
  BY <1>5, <1>7
<1> HIDE DEF z
<1>9. DOMAIN log_streams = 0..(call.start + z - 1)
  BY <1>2, <1>3, <1>8 DEF StreamsOK
<1>10. DOMAIN log_streams = 0..(app_init_next_log_str_ID - 1)
  <2>1. app_init_next_log_str_ID = call.start + z
    BY <1>6 DEF z
  <2> HIDE DEF t, o
  <2> QED BY <1>3, <1>8, <1>9, <2>1
<1> QED BY <1>5, <1>6, <1>9, <1>10 DEF z

\* After a call that returns, the next one has its ids to itself.
LEMMA ReturnInv ==
  ASSUME AIInv, Return
  PROVE  AIInv'
<1>1. /\ Returning /\ call' = Idle
      /\ UNCHANGED <<libVars, log_streams, app_init_next_log_str_ID, call_failed>>
  BY DEF Return, Returning
<1>2. LibOK'
  BY <1>1 DEF AIInv, LibOK, libVars
<1>3. ~call_failed => DOMAIN log_streams = 0..(app_init_next_log_str_ID - 1)
  BY <1>1, AllCreated
<1> QED BY <1>1, <1>2, <1>3 DEF AIInv

-----------------------------------------------------------------------------
(* A stream is created.                                                    *)

\* The id of the stream at hand stands for its place and its number there.
LEMMA ThisStream ==
  ASSUME AIInv, AtPlace
  PROVE  /\ NextPlace = Upto(call.idx) + call.place /\ Upto(call.idx) \in Nat
         /\ call.place \in Nat /\ call.lstr \in Nat /\ call.over \in Nat /\ call.lstr < call.over
         /\ NextPlace \in Nat /\ NextPlace < Upto(call.idx + 1) /\ NextInPlace = call.lstr
         /\ StreamID \in Nat /\ StreamID >= call.start
         /\ PlaceOf(StreamID) = NextPlace /\ InPlace(StreamID) = call.lstr
<1>1. /\ Called /\ InRange(call) /\ call # Idle /\ CallOK /\ IsCall(call)
      /\ call.idx \in 0..(NumLogDomains - 1) /\ call.stage = "place"
  BY AtPlaceIs DEF Called
<1>2. NumLogDomains \in Nat
  BY <1>1, LimitIs DEF Called
<1>3. /\ Upto(call.idx) \in Nat /\ StreamsOf(call.idx) \in Nat /\ Upto(NumLogDomains) \in Nat
      /\ Upto(call.idx + 1) = Upto(call.idx) + StreamsOf(call.idx)
      /\ Upto(call.idx + 1) <= Upto(NumLogDomains)
  <2>1. call.idx \in 0..NumLogDomains /\ call.idx + 1 \in 0..NumLogDomains
        /\ NumLogDomains \in 0..NumLogDomains /\ call.idx + 1 <= NumLogDomains
    BY <1>1, <1>2
  <2> QED BY <1>1, <2>1, UptoFacts
<1>4. Upto(NumLogDomains) = call.tot_places
  BY <1>1 DEF CallOK, TotalOf, Upto, NumLogDomains
<1>5. /\ call.place \in Nat /\ call.lstr \in Nat /\ call.over \in Nat /\ call.start \in Nat
      /\ call.tot_places \in Nat \ {0} /\ call.str_base = call.start + Upto(call.idx)
      /\ call.lstr < call.over /\ call.place < StreamsOf(call.idx)
  BY <1>1 DEF IsCall, CallOK, AtPlace
<1>6. /\ NextPlace = Upto(call.idx) + call.place /\ NextPlace \in Nat
      /\ NextPlace < Upto(call.idx + 1) /\ NextPlace \in 0..(call.tot_places - 1)
  BY <1>3, <1>4, <1>5 DEF NextPlace
<1> DEFINE x == call.lstr * call.tot_places
           n == x + NextPlace
<1>7. x \in Nat
  BY <1>5
<1>8. n \div call.tot_places = call.lstr /\ n % call.tot_places = NextPlace
  BY <1>5, <1>6, DivisionUnique
<1> HIDE DEF x
<1>9. StreamID = call.start + n
  BY <1>3, <1>5, <1>6, <1>7 DEF StreamID, x
<1>10. StreamID \in Nat /\ StreamID >= call.start /\ StreamID - call.start = n
  BY <1>5, <1>6, <1>7, <1>9
<1>11. PlaceOf(StreamID) = NextPlace /\ InPlace(StreamID) = call.lstr
  BY <1>8, <1>10 DEF PlaceOf, InPlace
<1> QED BY <1>3, <1>5, <1>6, <1>10, <1>11 DEF NextInPlace

\* Two ids for the same place and number are the same.
LEMMA SameStream ==
  ASSUME Called, NEW s \in Nat, NEW t \in Nat, s >= call.start, t >= call.start,
         PlaceOf(s) = PlaceOf(t), InPlace(s) = InPlace(t)
  PROVE  s = t
<1>1. s = call.start + InPlace(s) * call.tot_places + PlaceOf(s)
  BY PlaceIs
<1>2. t = call.start + InPlace(t) * call.tot_places + PlaceOf(t)
  BY PlaceIs
<1> QED BY <1>1, <1>2

\* No stream of this or of an earlier call has the id of the stream at hand.
LEMMA StreamIsNew ==
  ASSUME AIInv, AtPlace, ~call_failed
  PROVE  StreamID \notin DOMAIN log_streams
<1>1. StreamsOK /\ Called
  BY AtPlaceIs DEF AIInv
<1>2. ~Created(StreamID)
  BY ThisStream DEF Created
<1>3. ~(StreamID < call.start)
  BY <1>1, ThisStream DEF Called, IsCall
<1> QED BY <1>1, <1>2, <1>3 DEF StreamsOK

\* The ids of streams after a step that moves the loops past a stream.
LEMMA CreatedNext ==
  ASSUME AIInv, AtPlace, StreamsOK, Keeps(call', call), phys_domains' = phys_domains,
         \/ NextPlace' = NextPlace /\ NextInPlace' = call.lstr + 1 /\ call.lstr + 1 < call.over
         \/ NextPlace' = NextPlace + 1 /\ NextInPlace' = 0 /\ call.lstr + 1 = call.over,
         app_init_next_log_str_ID' = app_init_next_log_str_ID + 1,
         DOMAIN log_streams' = DOMAIN log_streams \cup {StreamID}
  PROVE  /\ DOMAIN log_streams' = {s \in Nat : s < call'.start \/ Created(s)'}
         /\ app_init_next_log_str_ID' = call'.start + NextPlace' * call'.over + NextInPlace'
<1>1. Called /\ IsCall(call)
  BY AtPlaceIs DEF Called
<1>2. call'.start = call.start /\ call'.over = call.over /\ call.start \in Nat
  BY <1>1 DEF Keeps, IsCall
<1>3. \A s : PlaceOf(s)' = PlaceOf(s) /\ InPlace(s)' = InPlace(s)
  BY SameCall
<1>4. /\ NextPlace \in Nat /\ NextInPlace = call.lstr /\ call.lstr \in Nat /\ call.over \in Nat
      /\ call.lstr < call.over /\ StreamID \in Nat /\ StreamID >= call.start
      /\ PlaceOf(StreamID) = NextPlace /\ InPlace(StreamID) = call.lstr
  BY ThisStream
<1>5. ASSUME NEW s \in Nat, s >= call.start
      PROVE  Created(s)' <=> Created(s) \/ s = StreamID
  <2>1. PlaceOf(s) \in Nat /\ InPlace(s) \in Nat
    BY <1>1, <1>5, PlaceIs
  <2>2. s = StreamID <=> PlaceOf(s) = NextPlace /\ InPlace(s) = call.lstr
    BY <1>1, <1>4, <1>5, SameStream
  <2>3. Created(s)' <=> /\ InPlace(s) < call.over
                        /\ PlaceOf(s) < NextPlace' \/ (PlaceOf(s) = NextPlace' /\ InPlace(s) < NextInPlace')
    BY <1>2, <1>3 DEF Created
  <2>4. Created(s) <=> /\ InPlace(s) < call.over
                       /\ PlaceOf(s) < NextPlace \/ (PlaceOf(s) = NextPlace /\ InPlace(s) < call.lstr)
    BY <1>4 DEF Created
  <2> QED BY <1>4, <2>1, <2>2, <2>3, <2>4
<1>6. DOMAIN log_streams' = {s \in Nat : s < call'.start \/ Created(s)'}
  BY <1>2, <1>4, <1>5 DEF StreamsOK
<1>7. app_init_next_log_str_ID' = call'.start + NextPlace' * call'.over + NextInPlace'
  <2> DEFINE x == NextPlace * call.over
  <2>1. x \in Nat /\ (NextPlace + 1) * call.over = x + call.over
    BY <1>4
  <2>2. app_init_next_log_str_ID = call.start + x + call.lstr
    BY <1>4 DEF StreamsOK
  <2>3. CASE NextPlace' = NextPlace /\ NextInPlace' = call.lstr + 1
    <3>1. NextPlace' * call'.over = x
      BY <1>2, <2>3
    <3> HIDE DEF x
    <3>2. app_init_next_log_str_ID' = call.start + x + NextInPlace'
      BY <1>2, <1>4, <2>1, <2>2, <2>3
    <3> QED BY <1>2, <3>1, <3>2
  <2>4. CASE NextPlace' = NextPlace + 1 /\ NextInPlace' = 0 /\ call.lstr + 1 = call.over
    <3>1. NextPlace' * call'.over = x + call.over
      BY <1>2, <2>1, <2>4
    <3> HIDE DEF x
    <3> QED BY <1>2, <1>4, <2>1, <2>2, <2>4, <3>1
  <2> QED BY <2>3, <2>4
<1> QED BY <1>6, <1>7

\* A call with another stream of a place is still a call.
LEMMA OtherStream ==
  ASSUME NEW c, IsCall(c), NEW x \in Nat, NEW d, d = [c EXCEPT !.lstr = x]
  PROVE  /\ IsCall(d) /\ Keeps(d, c) /\ d.stage = c.stage /\ Stays(d, c)
         /\ d.str_base = c.str_base /\ d.place = c.place /\ d.p_lower = c.p_lower
         /\ d.dsize = c.dsize /\ d.lstr = x
  BY DEF IsCall, Keeps, Stays

\* A call with another base of ids is still a call.
LEMMA OtherBase ==
  ASSUME NEW c, IsCall(c), NEW x \in Nat, NEW d, d = [c EXCEPT !.str_base = x]
  PROVE  IsCall(d) /\ Keeps(d, c) /\ d.stage = c.stage /\ Stays(d, c) /\ d.str_base = x
  BY DEF IsCall, Keeps, Stays

\* After a stream comes another of its place, or one of the next place, or the
\* next domain.
LEMMA AfterStreamIs ==
  ASSUME AIInv, AtPlace, PlaceSize \in Nat, NEW d, d = AfterStream
  PROVE  /\ IsCall(d) /\ Keeps(d, call)
         /\ \/ /\ call.lstr + 1 < call.over /\ d.stage = "place" /\ Stays(d, call)
               /\ d.str_base = call.str_base /\ d.place = call.place
               /\ d.p_lower = call.p_lower /\ d.dsize = call.dsize /\ d.lstr = call.lstr + 1
            \/ /\ call.lstr + 1 = call.over /\ call.place + 1 < StreamsOf(call.idx)
               /\ d.stage = "place" /\ Stays(d, call)
               /\ d.str_base = call.str_base /\ d.place = call.place + 1
               /\ d.p_lower = call.p_lower + PlaceSize /\ d.dsize = call.dsize /\ d.lstr = 0
            \/ /\ call.lstr + 1 = call.over /\ call.place + 1 = StreamsOf(call.idx)
               /\ d.str_base = call.str_base + StreamsOf(call.idx) /\ Moves(d, call)
<1>1. /\ Called /\ InRange(call) /\ CallOK /\ IsCall(call) /\ call.stage = "place"
      /\ call.idx \in 0..(NumLogDomains - 1)
  BY AtPlaceIs DEF Called
<1>2. /\ call.lstr \in Nat /\ call.over \in Nat /\ call.place \in Nat /\ call.str_base \in Nat
      /\ call.p_lower \in Nat
  BY <1>1 DEF IsCall
<1>3. StreamsOf(call.idx) \in Nat /\ call.place < StreamsOf(call.idx) /\ call.lstr < call.over
  BY <1>1, UptoFacts DEF CallOK, AtPlace
<1>4. CASE call.lstr + 1 < call.over
  <2>1. d = [call EXCEPT !.lstr = call.lstr + 1]
    BY <1>4 DEF AfterStream
  <2>2. call.lstr + 1 \in Nat
    BY <1>2
  <2> QED BY <1>1, <1>4, <2>1, <2>2, OtherStream
<1>5. CASE ~(call.lstr + 1 < call.over) /\ call.place + 1 < StreamsOf(call.idx)
  <2> DEFINE y == call.place + 1
             z == call.p_lower + PlaceSize
  <2>1. d = [call EXCEPT !.lstr = 0, !.place = y, !.p_lower = z]
    BY <1>5 DEF AfterStream
  <2>2. z \in Nat /\ y \in Nat
    BY <1>2
  <2>3. call.lstr + 1 = call.over
    BY <1>2, <1>3, <1>5
  <2> HIDE DEF y, z
  <2>4. /\ IsCall(d) /\ Keeps(d, call) /\ d.stage = call.stage /\ Stays(d, call)
        /\ d.str_base = call.str_base /\ d.place = y /\ d.p_lower = z
        /\ d.dsize = call.dsize /\ d.lstr = 0
    <3>1. IsCall(call)
      BY <1>1
    <3> QED BY <2>1, <2>2, <3>1 DEF IsCall, Keeps, Stays
  <2> QED BY <1>1, <1>5, <2>3, <2>4 DEF y, z
<1>6. CASE ~(call.lstr + 1 < call.over) /\ ~(call.place + 1 < StreamsOf(call.idx))
  <2> DEFINE c == [call EXCEPT !.str_base = call.str_base + StreamsOf(call.idx)]
  <2>1. d = NextDomain(c)
    BY <1>6 DEF AfterStream
  <2>2. call.str_base + StreamsOf(call.idx) \in Nat
    BY <1>2, <1>3
  <2>3. /\ IsCall(c) /\ Keeps(c, call) /\ Stays(c, call)
        /\ c.str_base = call.str_base + StreamsOf(call.idx)
    BY <1>1, <2>2, OtherBase
  <2> HIDE DEF c
  <2>4. InRange(c)
    BY <1>1, <2>3 DEF InRange, Stays
  <2>5. IsCall(d) /\ Keeps(d, c) /\ d.str_base = c.str_base /\ Moves(d, c)
    BY <1>1, <2>1, <2>3, <2>4, NextDomainIs
  <2>6. Moves(d, call)
    BY <2>3, <2>5 DEF Moves, Stays
  <2>7. Keeps(d, call)
    BY <2>3, <2>5 DEF Keeps
  <2>8. call.lstr + 1 = call.over /\ call.place + 1 = StreamsOf(call.idx)
    BY <1>2, <1>3, <1>6
  <2> QED BY <2>3, <2>5, <2>6, <2>7, <2>8
<1> QED BY <1>4, <1>5, <1>6

\* The place at hand and its domain.
LEMMA ThisPlace ==
  ASSUME AIInv, AtPlace
  PROVE  /\ StreamsOf(call.idx) \in Nat \ {0} /\ PlaceSize \in Nat \ {0}
         /\ call.place \in Nat /\ call.p_lower \in Nat /\ Base \in Int
         /\ Even(call.dsize, StreamsOf(call.idx), call.place) \in Nat
         /\ Even(call.dsize, StreamsOf(call.idx), call.place + 1)
              = Even(call.dsize, StreamsOf(call.idx), call.place) + PlaceSize
         /\ PlaceMask = PlaceIn(Base, call.dsize, StreamsOf(call.idx), call.place)
         /\ ThisDomain = call.idx + 1 /\ call.idx + 1 \in DOMAIN log_domains
         /\ PlaceMask \subseteq Mask(call.idx + 1) =>
              /\ Base \in Mask(call.idx + 1)
              /\ call.place + 1 = StreamsOf(call.idx) => Base = Low(Mask(call.idx + 1))
<1> DEFINE k == StreamsOf(call.idx)
           n == call.dsize
           pl == call.place
           d == call.idx + 1
<1>1. /\ Called /\ CallOK /\ LibOK /\ IsCall(call) /\ call.stage = "place"
      /\ call.idx \in 0..(NumLogDomains - 1) /\ call.p_lower \in Nat /\ pl \in Nat /\ n \in Nat
  BY AtPlaceIs DEF Called, IsCall
<1>2. k \in Nat /\ pl < k /\ k <= n /\ n = Size(Mask(d)) /\ (pl > 0 => Base \in Mask(d))
  BY <1>1, UptoFacts DEF CallOK, Mask
<1>3. k \in Nat \ {0} /\ n \in Nat \ {0}
  BY <1>1, <1>2
<1>4. d \in 1..Len(app_init_log_doms_IDs) /\ d \in DOMAIN log_domains /\ ThisDomain = d
  <2>1. NumLogDomains \in Nat
    BY <1>1, LimitIs DEF Called
  <2>2. Len(app_init_log_doms_IDs) = IF ~call.first THEN NumLogDomains ELSE d
    BY <1>1 DEF CallOK
  <2>3. d \in 1..Len(app_init_log_doms_IDs)
    BY <1>1, <2>1, <2>2
  <2> QED BY <1>1, <2>3 DEF LibOK, ThisDomain
<1>5. Low(Mask(d)) \in Nat /\ Mask(d) = Low(Mask(d))..(Low(Mask(d)) + n - 1)
  BY <1>1, <1>2, <1>4 DEF LibOK, Mask, IsBlock, Block
<1>6. PlaceSize = (n \div k) + IF pl < n % k THEN 1 ELSE 0
  BY DEF PlaceSize
<1>7. Base = call.p_lower - Even(n, k, pl) /\ PlaceMask = call.p_lower..(call.p_lower + PlaceSize - 1)
  BY DEF Base, PlaceMask
<1>8. PlaceMask = PlaceIn(Base, n, k, pl) <=>
        PlaceMask = (Base + Even(n, k, pl))..(Base + Even(n, k, pl + 1) - 1)
  BY DEF PlaceIn
<1> HIDE DEF k, n, pl, d
<1>9. n \div k \in Nat \ {0}
  BY <1>2, <1>3, Shares
<1>10. PlaceSize \in Nat \ {0}
  BY <1>6, <1>9
<1>11. /\ Even(n, k, 0) = 0 /\ Even(n, k, k) = n /\ Even(n, k, pl) \in Nat
       /\ Even(n, k, pl + 1) = Even(n, k, pl) + PlaceSize
  <2>1. Even(n, k, pl + 1) = Even(n, k, pl) + (n \div k) + IF pl < n % k THEN 1 ELSE 0
    BY <1>1, <1>3, EvenShares
  <2>2. Even(n, k, 0) = 0 /\ Even(n, k, k) = n /\ Even(n, k, pl) \in Nat
    BY <1>1, <1>3, EvenShares
  <2> QED BY <1>6, <1>9, <2>1, <2>2
<1>12. /\ Base \in Int /\ PlaceMask = (Base + Even(n, k, pl))..(Base + Even(n, k, pl + 1) - 1)
       /\ Base + Even(n, k, pl) = call.p_lower
  BY <1>1, <1>7, <1>10, <1>11
<1>13. ASSUME PlaceMask \subseteq Mask(d)
       PROVE  Base \in Mask(d) /\ (pl + 1 = k => Base = Low(Mask(d)))
  <2>1. Base \in Mask(d)
    <3>1. CASE pl = 0
      <4>1. Base \in PlaceMask
        BY <1>1, <1>7, <1>10, <1>11, <1>12, <3>1
      <4> QED BY <1>13, <4>1
    <3>2. CASE pl > 0
      BY <1>2, <3>2
    <3> QED BY <1>1, <3>1, <3>2
  <2>2. ASSUME pl + 1 = k PROVE Base = Low(Mask(d))
    <3>1. Base + n - 1 \in PlaceMask
      BY <1>1, <1>3, <1>10, <1>11, <1>12, <2>2
    <3>2. Base + n - 1 \in Mask(d)
      BY <1>13, <3>1
    <3> DEFINE low == Low(Mask(d))
    <3> HIDE DEF low
    <3>3. low \in Nat /\ Base \in low..(low + n - 1) /\ Base + n - 1 \in low..(low + n - 1)
      BY <1>5, <2>1, <3>2 DEF low
    <3> QED BY <1>3, <1>12, <3>3 DEF low
  <2> QED BY <2>1, <2>2
<1> QED BY <1>1, <1>3, <1>4, <1>8, <1>10, <1>11, <1>12, <1>13 DEF k, n, pl, d

\* A stream is created in its place, with the threads of its place.
LEMMA CreateStreamInv ==
  ASSUME AIInv, CreateStream
  PROVE  AIInv'
<1> DEFINE k == StreamsOf(call.idx)
           D == call.idx + 1
<1>1. /\ AtPlace /\ PlaceMask \subseteq Mask(D) /\ call' = AfterStream
      /\ log_streams' = [s \in DOMAIN log_streams \cup {StreamID} |->
           IF s = StreamID THEN [dom |-> D, mask |-> PlaceMask] ELSE log_streams[s]]
      /\ app_init_next_log_str_ID' = app_init_next_log_str_ID + 1
      /\ UNCHANGED <<libVars, call_failed>>
  BY ThisPlace DEF CreateStream, CanCreate, Mask
<1>2. /\ Called /\ InRange(call) /\ call # Idle /\ CallOK /\ DomainsOK /\ LibOK
      /\ call.idx \in 0..(NumLogDomains - 1) /\ call.stage = "place" /\ IsCall(call)
      /\ NumLogDomains \in Nat
  BY <1>1, AtPlaceIs, LimitIs DEF Called
<1>3. /\ k \in Nat \ {0} /\ PlaceSize \in Nat \ {0}
      /\ call.place \in Nat /\ call.p_lower \in Nat /\ Base \in Int
      /\ Even(call.dsize, k, call.place) \in Nat
      /\ Even(call.dsize, k, call.place + 1) = Even(call.dsize, k, call.place) + PlaceSize
      /\ PlaceMask = PlaceIn(Base, call.dsize, k, call.place)
      /\ D \in DOMAIN log_domains
      /\ Base \in Mask(D)
      /\ call.place + 1 = k => Base = Low(Mask(D))
  BY <1>1, ThisPlace
<1>4. /\ IsCall(call') /\ Keeps(call', call)
      /\ \/ /\ call.lstr + 1 < call.over /\ call'.stage = "place" /\ Stays(call', call)
            /\ call'.str_base = call.str_base /\ call'.place = call.place
            /\ call'.p_lower = call.p_lower /\ call'.dsize = call.dsize /\ call'.lstr = call.lstr + 1
         \/ /\ call.lstr + 1 = call.over /\ call.place + 1 < k
            /\ call'.stage = "place" /\ Stays(call', call)
            /\ call'.str_base = call.str_base /\ call'.place = call.place + 1
            /\ call'.p_lower = call.p_lower + PlaceSize /\ call'.dsize = call.dsize /\ call'.lstr = 0
         \/ /\ call.lstr + 1 = call.over /\ call.place + 1 = k
            /\ call'.str_base = call.str_base + k /\ Moves(call', call)
  BY <1>1, <1>3, AfterStreamIs
<1>5. UNCHANGED <<initialized, phys_domains, log_domains, app_init_log_doms_IDs>>
  BY <1>1 DEF libVars
<1>6. /\ NumLogDomains' = NumLogDomains /\ Limit' = Limit
      /\ \A q : num_log_domains(q)' = num_log_domains(q) /\ OnFirst(q)' = OnFirst(q)
      /\ \A q : CardAt(q)' = CardAt(q)
      /\ \A q, e : Cut(q, e)' = Cut(q, e) /\ DomainMask(q, e)' = DomainMask(q, e)
      /\ \A i : Upto(i)' = Upto(i) /\ StreamsOf(i)' = StreamsOf(i)
      /\ \A s : PlaceOf(s)' = PlaceOf(s) /\ InPlace(s)' = InPlace(s)
      /\ \A c : InRange(c)' = InRange(c) /\ AtEnd(c)' = AtEnd(c)
  BY <1>4, <1>5, SameCall
<1>7. /\ call'.streams = call.streams /\ call'.over = call.over
      /\ call'.tot_places = call.tot_places /\ call'.start = call.start /\ call'.first = call.first
  BY <1>4 DEF Keeps
<1> HIDE DEF k
<1>8. \/ /\ call'.stage = "place" /\ call'.idx = call.idx /\ call'.p = call.p
         /\ call'.dom = call.dom /\ call'.d_lower = call.d_lower /\ call'.str_base = call.str_base
         /\ call'.dsize = call.dsize
      \/ /\ call'.stage = "domain" /\ call'.idx = call.idx + 1 /\ call'.str_base = call.str_base + k
         /\ InRange(call') \/ AtEnd(call')
  BY <1>4 DEF Stays, Moves
<1>9. LibOK'
  BY <1>1, <1>2, <1>5 DEF LibOK
<1>10. call' # Idle
  <2>1. call'.stage # "idle"
    BY <1>8
  <2> QED BY <2>1 DEF Idle
<1>11. Upto(call.idx) \in Nat /\ Upto(call.idx + 1) = Upto(call.idx) + k
  <2>1. call.idx \in 0..NumLogDomains
    BY <1>2
  <2> QED BY <1>2, <2>1, UptoFacts DEF k
<1>12. call'.stage = "place" => Base' = Base
  <2> SUFFICES ASSUME call'.stage = "place" PROVE Base' = Base
    OBVIOUS
  <2>1. Base' = call'.p_lower - Even(call'.dsize, k, call'.place)
    BY <1>6, <1>8 DEF Base, k
  <2>2. Base = call.p_lower - Even(call.dsize, k, call.place)
    BY DEF Base, k
  <2>3. \/ call'.place = call.place /\ call'.p_lower = call.p_lower
        \/ call'.place = call.place + 1 /\ call'.p_lower = call.p_lower + PlaceSize
    BY <1>4 DEF Moves
  <2>4. call'.dsize = call.dsize
    BY <1>8
  <2> QED BY <1>3, <2>1, <2>2, <2>3, <2>4
<1>13. CallOK'
  <2>1. (InRange(call) \/ (call.stage = "domain" /\ AtEnd(call)))'
    <3>1. InRange(call)' = InRange(call') /\ AtEnd(call)' = AtEnd(call')
      BY <1>6 DEF InRange, AtEnd
    <3>2. InRange(call') \/ (call'.stage = "domain" /\ AtEnd(call'))
      BY <1>2, <1>8 DEF InRange
    <3> QED BY <3>1, <3>2
  <2>2. (Len(app_init_log_doms_IDs) =
         IF ~call.first THEN NumLogDomains
         ELSE IF call.stage = "domain" THEN call.idx ELSE call.idx + 1)'
    BY <1>2, <1>5, <1>6, <1>7, <1>8 DEF CallOK
  <2>3. (call.str_base = call.start + Upto(call.idx))'
    <3>1. Upto(call.idx)' = Upto(call'.idx)
      BY <1>7 DEF Upto
    <3>2. call.str_base = call.start + Upto(call.idx) /\ call.start \in Nat
      BY <1>2 DEF CallOK, IsCall
    <3> QED BY <1>3, <1>7, <1>8, <1>11, <3>1, <3>2
  <2>4. AtPlace' =>
       /\ (call.place < StreamsOf(call.idx))' /\ call'.lstr < call'.over
       /\ call'.dsize = Size(log_domains'[call'.idx + 1].mask)
       /\ (StreamsOf(call.idx) <= call.dsize)'
       /\ (call.place > 0 => Base \in Mask(call.idx + 1))'
    <3> SUFFICES ASSUME call'.stage = "place"
                 PROVE  /\ (call.place < StreamsOf(call.idx))' /\ call'.lstr < call'.over
                        /\ call'.dsize = Size(log_domains'[call'.idx + 1].mask)
                        /\ (StreamsOf(call.idx) <= call.dsize)'
                        /\ (Base \in Mask(call.idx + 1))'
      BY DEF AtPlace
    <3>1. StreamsOf(call.idx)' = k /\ call'.idx = call.idx /\ call'.dsize = call.dsize
      BY <1>7, <1>8 DEF StreamsOf, k
    <3>2. /\ call.place < k /\ call.lstr < call.over /\ call.over \in Nat \ {0}
          /\ call.dsize = Size(log_domains[call.idx + 1].mask) /\ k <= call.dsize
      BY <1>1, <1>2 DEF CallOK, IsCall, k
    <3>3. call'.place < k /\ call'.lstr < call'.over
      BY <1>4, <1>7, <3>2 DEF Moves
    <3>4. (Base \in Mask(call.idx + 1))'
      <4>1. Base' = Base /\ Base \in log_domains[call.idx + 1].mask
        BY <1>3, <1>12 DEF Mask
      <4>2. log_domains'[call'.idx + 1].mask = log_domains[call.idx + 1].mask
        BY <1>5, <3>1
      <4> QED BY <4>1, <4>2 DEF Mask
    <3> QED BY <1>5, <3>1, <3>2, <3>3, <3>4
  <2>5. call'.tot_places = TotalOf(call'.streams) /\ initialized'
    BY <1>2, <1>5, <1>7 DEF CallOK
  <2> QED BY <1>4, <2>1, <2>2, <2>3, <2>4, <2>5 DEF CallOK
<1>14. DomainsOK'
  <2> SUFFICES ASSUME call.first PROVE DomainsOK'
    BY <1>7 DEF DomainsOK
  <2>1. call'.p < Limit =>
          call'.d_lower = CardAt(call'.p).lower
             + Cut(call'.p, IF call'.stage = "domain" THEN call'.dom ELSE call'.dom + 1)
    <3>1. call.p < Limit /\ call.d_lower = CardAt(call.p).lower + Cut(call.p, call.dom + 1)
      BY <1>2 DEF DomainsOK, InRange
    <3>2. CASE Moves(call', call) /\ call.dom + 1 < num_log_domains(call.p)
      <4>1. call'.stage = "domain" /\ call'.p = call.p /\ call'.dom = call.dom + 1
            /\ call'.d_lower = call.d_lower
        BY <3>2 DEF Moves
      <4> QED BY <3>1, <4>1
    <3>3. CASE Moves(call', call) /\ ~(call.dom + 1 < num_log_domains(call.p)) /\ call'.p < Limit
      <4>1. call'.stage = "domain" /\ call'.p = call.p + 1 /\ call'.dom = 0
            /\ call'.d_lower = CardAt(call'.p).lower
        BY <3>3 DEF Moves
      <4>0. call.p \in Nat /\ Limit \in Nat /\ NumActive \in Nat /\ Limit <= NumActive
        BY <1>2, LimitIs DEF Called, IsCall
      <4>2. call'.p \in 0..(Limit - 1) /\ call'.p \in 0..(NumActive - 1)
        BY <3>3, <4>0, <4>1
      <4>3. Cut(call'.p, 0) = 0 /\ CardAt(call'.p).lower \in Nat
        BY <1>2, <4>2, CutIs, CardIs
      <4> QED BY <4>1, <4>3
    <3>4. CASE call'.stage = "place"
      <4>1. call'.p = call.p /\ call'.dom = call.dom /\ call'.d_lower = call.d_lower
        BY <1>8, <3>4
      <4> QED BY <3>1, <3>4, <4>1
    <3> QED BY <1>4, <3>2, <3>3, <3>4
  <2>2. (call.p < Limit =>
         call.d_lower = CardAt(call.p).lower
           + Cut(call.p, IF call.stage = "domain" THEN call.dom ELSE call.dom + 1))'
    <3>1. CardAt(call.p)' = CardAt(call'.p)
      BY <1>5 DEF CardAt
    <3>2. (Cut(call.p, IF call.stage = "domain" THEN call.dom ELSE call.dom + 1))'
            = Cut(call'.p, IF call'.stage = "domain" THEN call'.dom ELSE call'.dom + 1)
      BY <1>6
    <3> QED BY <1>6, <2>1, <3>1, <3>2
  <2>3. (\A q \in 0..(Limit - 1) : \A e \in 0..(num_log_domains(q) - 1) :
         OnFirst(q) + e < Len(app_init_log_doms_IDs) =>
           /\ log_domains[OnFirst(q) + e + 1] = [phys |-> q, mask |-> DomainMask(q, e)]
           /\ Cut(q, e) < Cut(q, e + 1))'
    <3>1. \A q \in 0..(Limit - 1) : \A e \in 0..(num_log_domains(q) - 1) :
             OnFirst(q) + e < Len(app_init_log_doms_IDs) =>
               /\ log_domains[OnFirst(q) + e + 1] = [phys |-> q, mask |-> DomainMask(q, e)]
               /\ Cut(q, e) < Cut(q, e + 1)
      BY <1>2 DEF DomainsOK
    <3> QED BY <1>5, <1>6, <3>1
  <2> QED BY <2>2, <2>3 DEF DomainsOK
<1>15. ASSUME ~call_failed PROVE StreamsOK'
  <2>1. StreamsOK
    BY <1>2, <1>15 DEF AIInv
  <2>2. /\ NextPlace = Upto(call.idx) + call.place /\ NextPlace \in Nat
        /\ NextPlace < Upto(call.idx + 1) /\ NextInPlace = call.lstr
        /\ StreamID \in Nat /\ PlaceOf(StreamID) = NextPlace
        /\ StreamID >= call.start /\ InPlace(StreamID) = call.lstr /\ call.lstr \in Nat
    BY <1>1, ThisStream
  <2>3. \/ NextPlace' = NextPlace /\ NextInPlace' = call.lstr + 1 /\ call.lstr + 1 < call.over
        \/ NextPlace' = NextPlace + 1 /\ NextInPlace' = 0 /\ call.lstr + 1 = call.over
    <3>1. Upto(call.idx)' = Upto(call'.idx)
      BY <1>7 DEF Upto
    <3>2. NextPlace' = Upto(call'.idx) + IF call'.stage = "place" THEN call'.place ELSE 0
      BY <3>1 DEF NextPlace, AtPlace
    <3>3. NextInPlace' = IF call'.stage = "place" THEN call'.lstr ELSE 0
      BY DEF NextInPlace, AtPlace
    <3>4. CASE call'.stage = "place"
      BY <1>3, <1>4, <1>8, <1>11, <2>2, <3>2, <3>3, <3>4 DEF Moves
    <3>5. CASE call'.stage # "place"
      <4>1. call'.idx = call.idx + 1 /\ call.lstr + 1 = call.over /\ call.place + 1 = k
        BY <1>4, <1>8, <3>5
      <4> QED BY <1>3, <1>11, <2>2, <3>2, <3>3, <3>5, <4>1
    <3> QED BY <3>4, <3>5
  <2>4. DOMAIN log_streams' = DOMAIN log_streams \cup {StreamID}
    BY <1>1
  <2>5. /\ DOMAIN log_streams' = {s \in Nat : s < call'.start \/ Created(s)'}
        /\ app_init_next_log_str_ID' = call'.start + NextPlace' * call'.over + NextInPlace'
    BY <1>1, <1>4, <1>5, <2>1, <2>3, <2>4, CreatedNext
  <2>6. ASSUME NEW s \in DOMAIN log_streams', s >= call.start, NEW d \in 1..NumLogDomains,
               Upto(d - 1) <= PlaceOf(s), PlaceOf(s) < Upto(d), s # StreamID
        PROVE  /\ d <= call.idx + 1
               /\ log_streams'[s].dom = d
               /\ IF d <= call.idx
                  THEN /\ call.streams[d] <= Size(Mask(d))
                       /\ log_streams'[s].mask =
                            PlaceIn(Low(Mask(d)), Size(Mask(d)), call.streams[d], PlaceOf(s) - Upto(d - 1))
                  ELSE log_streams'[s].mask =
                         PlaceIn(Base, call.dsize, k, PlaceOf(s) - Upto(d - 1))
    <3>1. s \in DOMAIN log_streams /\ log_streams'[s] = log_streams[s]
      BY <1>1, <2>4, <2>6
    <3>2. call.start \in Nat
      BY <1>2 DEF IsCall
    <3>3. s \in Nat /\ Created(s)
      BY <2>1, <2>6, <3>1, <3>2 DEF StreamsOK
    <3>4. PlaceOf(s) \in Nat /\ PlaceOf(s) <= NextPlace
      <4>1. PlaceOf(s) \in Nat
        BY <1>2, <2>6, <3>3, PlaceIs
      <4> QED BY <2>2, <3>3, <4>1 DEF Created
    <3>5. d <= call.idx + 1
      <4>1. d - 1 \in 0..NumLogDomains /\ call.idx + 1 \in 0..NumLogDomains
        BY <1>2
      <4>2. call.idx + 1 <= d - 1 => Upto(call.idx + 1) <= Upto(d - 1)
        BY <1>2, <4>1, UptoFacts
      <4>3. Upto(d - 1) \in Nat /\ Upto(call.idx + 1) \in Nat
        BY <1>2, <4>1, UptoFacts
      <4> QED BY <1>2, <2>2, <2>6, <3>4, <4>2, <4>3
    <3> QED BY <2>1, <2>6, <3>1, <3>5 DEF StreamsOK, k
  <2>7. ASSUME NEW d \in 1..NumLogDomains, Upto(d - 1) <= NextPlace, NextPlace < Upto(d)
        PROVE  d = call.idx + 1 /\ NextPlace - Upto(d - 1) = call.place
    <3>1. d - 1 \in 0..NumLogDomains /\ d \in 0..NumLogDomains
          /\ call.idx + 1 \in 0..NumLogDomains /\ call.idx \in 0..NumLogDomains
      BY <1>2
    <3>2. call.idx + 1 <= d - 1 => Upto(call.idx + 1) <= Upto(d - 1)
      BY <1>2, <3>1, UptoFacts
    <3>3. d <= call.idx => Upto(d) <= Upto(call.idx)
      BY <1>2, <3>1, UptoFacts
    <3>4. Upto(d - 1) \in Nat /\ Upto(d) \in Nat /\ Upto(call.idx) \in Nat /\ Upto(call.idx + 1) \in Nat
      BY <1>2, <3>1, UptoFacts
    <3>5. d = call.idx + 1
      BY <1>2, <1>3, <2>2, <2>7, <3>2, <3>3, <3>4
    <3>6. d - 1 = call.idx
      BY <1>2, <3>5
    <3> QED BY <1>3, <2>2, <3>4, <3>5, <3>6
  \* What is so of every stream there now, with the loops where they were.
  <2>8. ASSUME NEW s \in DOMAIN log_streams', s >= call.start, NEW d \in 1..NumLogDomains,
               Upto(d - 1) <= PlaceOf(s), PlaceOf(s) < Upto(d)
        PROVE  /\ d <= call.idx + 1
               /\ log_streams'[s].dom = d
               /\ IF d <= call.idx
                  THEN /\ call.streams[d] <= Size(Mask(d))
                       /\ log_streams'[s].mask =
                            PlaceIn(Low(Mask(d)), Size(Mask(d)), call.streams[d], PlaceOf(s) - Upto(d - 1))
                  ELSE log_streams'[s].mask =
                         PlaceIn(Base, call.dsize, k, PlaceOf(s) - Upto(d - 1))
    <3>1. CASE s = StreamID
      <4>1. d = call.idx + 1 /\ PlaceOf(s) - Upto(d - 1) = call.place
        BY <2>2, <2>7, <2>8, <3>1
      <4>2. log_streams'[s] = [dom |-> D, mask |-> PlaceMask]
        BY <1>1, <2>4, <3>1
      <4>3. ~(d <= call.idx)
        BY <1>2, <4>1
      <4> QED BY <1>2, <1>3, <4>1, <4>2, <4>3
    <3>2. CASE s # StreamID
      BY <2>6, <2>8, <3>2
    <3> QED BY <3>1, <3>2
  <2>9. ASSUME NEW s \in DOMAIN log_streams', s >= call.start, NEW d \in 1..NumLogDomains,
               Upto(d - 1) <= PlaceOf(s), PlaceOf(s) < Upto(d)
        PROVE  /\ log_streams'[s].dom = d
               /\ IF d <= call'.idx
                  THEN /\ call.streams[d] <= Size(Mask(d))
                       /\ log_streams'[s].mask =
                            PlaceIn(Low(Mask(d)), Size(Mask(d)), call.streams[d], PlaceOf(s) - Upto(d - 1))
                  ELSE log_streams'[s].mask =
                         PlaceIn(Base', call'.dsize, k, PlaceOf(s) - Upto(d - 1))
    <3>1. CASE call'.stage = "place"
      <4>1. call'.idx = call.idx /\ call'.dsize = call.dsize /\ Base' = Base
        BY <1>8, <1>12, <3>1
      <4> QED BY <2>8, <2>9, <4>1
    <3>2. CASE call'.stage # "place"
      <4>1. call'.idx = call.idx + 1 /\ Base = Low(Mask(D))
        BY <1>3, <1>4, <1>8, <3>2
      <4>2. d <= call'.idx
        BY <2>8, <2>9, <4>1
      <4>3. CASE d <= call.idx
        BY <2>8, <2>9, <4>2, <4>3
      <4>4. CASE ~(d <= call.idx)
        <5>1. d = D
          BY <1>2, <2>8, <2>9, <4>4
        <5>2. call.streams[d] = k /\ call.dsize = Size(Mask(d)) /\ k <= call.dsize
          BY <1>1, <1>2, <5>1 DEF CallOK, k, StreamsOf, Mask
        <5> QED BY <2>8, <2>9, <4>1, <4>2, <4>4, <5>1, <5>2
      <4> QED BY <4>3, <4>4
    <3> QED BY <3>1, <3>2
  <2>10. ASSUME NEW s \in DOMAIN log_streams', s >= call'.start, NEW d \in (1..NumLogDomains)',
                (Upto(d - 1) <= PlaceOf(s))', (PlaceOf(s) < Upto(d))'
         PROVE  /\ log_streams'[s].dom = d
                /\ IF d <= call'.idx
                   THEN /\ call'.streams[d] <= Size(Mask(d)')
                        /\ log_streams'[s].mask =
                             (PlaceIn(Low(Mask(d)), Size(Mask(d)), call.streams[d], PlaceOf(s) - Upto(d - 1)))'
                   ELSE log_streams'[s].mask =
                          (PlaceIn(Base, call.dsize, StreamsOf(call.idx), PlaceOf(s) - Upto(d - 1)))'
    <3>1. d \in 1..NumLogDomains /\ Upto(d - 1) <= PlaceOf(s) /\ PlaceOf(s) < Upto(d) /\ s >= call.start
      BY <1>6, <1>7, <2>10
    <3>2. Mask(d)' = Mask(d)
      BY <1>5 DEF Mask
    <3>3. call'.stage = "place" => StreamsOf(call.idx)' = k
      BY <1>7, <1>8 DEF StreamsOf, k
    <3>4. call'.stage # "place" => d <= call'.idx
      BY <1>8, <2>8, <2>10, <3>1
    <3> QED BY <1>6, <1>7, <2>9, <2>10, <3>1, <3>2, <3>3, <3>4
  <2> QED BY <2>5, <2>10 DEF StreamsOK
<1>16. ASSUME ~call_failed' PROVE StreamsOK'
  BY <1>1, <1>15, <1>16
<1> QED BY <1>9, <1>10, <1>13, <1>14, <1>16 DEF AIInv

-----------------------------------------------------------------------------
(* All steps.                                                              *)

\* A step that changes nothing keeps the invariant.
LEMMA StutterInv ==
  ASSUME AIInv, UNCHANGED aiVars
  PROVE  AIInv'
<1>1. UNCHANGED <<initialized, phys_domains, log_domains, app_init_log_doms_IDs, log_streams,
                  app_init_next_log_str_ID, call, call_failed>>
  BY DEF aiVars, libVars
<1>2. LibOK' = LibOK /\ (call = Idle)' = (call = Idle) /\ (AtPlace' <=> AtPlace)
  BY <1>1 DEF LibOK, AtPlace
<1>3. Keeps(call', call)
  BY <1>1 DEF Keeps
<1>4. /\ NumLogDomains' = NumLogDomains /\ Limit' = Limit
      /\ \A q : num_log_domains(q)' = num_log_domains(q) /\ OnFirst(q)' = OnFirst(q)
      /\ \A q : CardAt(q)' = CardAt(q)
      /\ \A q, e : Cut(q, e)' = Cut(q, e) /\ DomainMask(q, e)' = DomainMask(q, e)
      /\ \A i : Upto(i)' = Upto(i) /\ StreamsOf(i)' = StreamsOf(i)
      /\ \A s : PlaceOf(s)' = PlaceOf(s) /\ InPlace(s)' = InPlace(s)
      /\ \A c : InRange(c)' = InRange(c) /\ AtEnd(c)' = AtEnd(c)
  BY <1>1, <1>3, SameCall
<1>5. NextPlace' = NextPlace /\ NextInPlace' = NextInPlace /\ Base' = Base
  BY <1>1, <1>2, <1>4 DEF NextPlace, NextInPlace, Base
<1>6. \A s : Created(s)' = Created(s)
  BY <1>1, <1>4, <1>5 DEF Created
<1>7. CallOK => CallOK'
  BY <1>1, <1>2, <1>4, <1>5 DEF CallOK, Mask
<1>8. DomainsOK => DomainsOK'
  BY <1>1, <1>4 DEF DomainsOK
<1>9. StreamsOK => StreamsOK'
  BY <1>1, <1>4, <1>5, <1>6 DEF StreamsOK, Mask
<1> QED BY <1>1, <1>2, <1>7, <1>8, <1>9 DEF AIInv

\* Both exported functions ask for a sequence of domains that is not empty.
LEMMA RequestsAre ==
  /\ \A streams \in Requests : streams \in Seq(Nat) \ {<<>>}
  /\ \A n \in 1..MaxPlaces : [card \in 1..NumEngines |-> n] \in Seq(Nat) \ {<<>>}
  /\ \A over \in 1..MaxOver : over \in Nat \ {0}
<1>1. MaxLogDomains \in Nat /\ MaxPlaces \in Nat /\ MaxOver \in Nat
  BY BoundsAssumption
<1>2. ASSUME NEW n \in Nat \ {0}, NEW s, s = [i \in 1..n |-> s[i]], \A i \in 1..n : s[i] \in Nat
      PROVE  s \in Seq(Nat) \ {<<>>}
  <2>1. [i \in 1..n |-> s[i]] \in Seq(Nat)
    BY <1>2
  <2>2. s \in Seq(Nat)
    BY <1>2, <2>1, Zenon
  <2>3. DOMAIN s = 1..n /\ 1 \in 1..n
    BY <1>2
  <2>4. s # <<>>
    BY <2>3, NothingYet
  <2> QED BY <2>2, <2>4
<1>3. ASSUME NEW streams \in Requests PROVE streams \in Seq(Nat) \ {<<>>}
  <2>1. PICK n \in 1..MaxLogDomains : streams \in [1..n -> 0..MaxPlaces]
    BY DEF Requests
  <2>2. /\ n \in Nat \ {0} /\ streams = [i \in 1..n |-> streams[i]]
        /\ \A i \in 1..n : streams[i] \in Nat
    BY <1>1, <2>1
  <2> QED BY <1>2, <2>2
<1>4. ASSUME NEW n \in 1..MaxPlaces PROVE [card \in 1..NumEngines |-> n] \in Seq(Nat) \ {<<>>}
  <2> DEFINE s == [card \in 1..NumEngines |-> n]
  <2>1. s = [i \in 1..NumEngines |-> s[i]] /\ \A i \in 1..NumEngines : s[i] \in Nat
    BY <1>1
  <2> HIDE DEF s
  <2>2. s \in Seq(Nat) \ {<<>>}
    BY <1>2, <2>1, EnginesAssumption
  <2> QED BY <2>2 DEF s
<1>5. \A over \in 1..MaxOver : over \in Nat \ {0}
  BY <1>1
<1> QED BY <1>3, <1>4, <1>5

\* Every step keeps the invariant.
LEMMA AppInitStep ==
  ASSUME AIInv, [AINext]_aiVars
  PROVE  AIInv'
<1>1. CASE LibInit
  BY <1>1, LibInitInv
<1>2. CASE Fini
  BY <1>2, FiniInv
<1>3. ASSUME NEW streams \in Requests, NEW over \in 1..MaxOver, app_init_domains(streams, over)
      PROVE  AIInv'
  BY <1>3, RequestsAre, StartInv
<1>4. ASSUME NEW streams \in 1..MaxPlaces, NEW over \in 1..MaxOver, app_init(streams, over)
      PROVE  AIInv'
  BY <1>4, RequestsAre, StartInv DEF app_init
<1>5. CASE CreateDomain
  BY <1>5, CreateDomainInv
<1>6. CASE ReuseDomain
  BY <1>6, ReuseDomainInv
<1>7. CASE DomainFails
  BY <1>7, DomainFailsInv
<1>8. CASE CreateStream
  BY <1>8, CreateStreamInv
<1>9. CASE StreamFails
  BY <1>9, StreamFailsInv
<1>10. CASE Return
  BY <1>10, ReturnInv
<1>11. CASE UNCHANGED aiVars
  BY <1>11, StutterInv
<1> QED BY <1>1, <1>2, <1>3, <1>4, <1>5, <1>6, <1>7, <1>8, <1>9, <1>10, <1>11 DEF AINext

-----------------------------------------------------------------------------
(* What the invariant says of the domains of a call that returns.          *)

\* The logical domains on a card are a run of ids.
LEMMA DomainsOn ==
  ASSUME AIInv, Returning, call.first
  PROVE  /\ DOMAIN log_domains = 1..NumLogDomains
         /\ \A q \in 0..(Limit - 1) : \A e \in 0..(num_log_domains(q) - 1) :
              /\ OnFirst(q) + e + 1 \in DOMAIN log_domains
              /\ log_domains[OnFirst(q) + e + 1] = [phys |-> q, mask |-> DomainMask(q, e)]
         /\ \A d \in DOMAIN log_domains :
              \E q \in 0..(Limit - 1) : \E e \in 0..(num_log_domains(q) - 1) : d = OnFirst(q) + e + 1
<1>1. /\ Called /\ DomainsOK /\ CallOK /\ LibOK /\ AtEnd(call) /\ call.idx = NumLogDomains
      /\ call.stage = "domain" /\ NumLogDomains \in Nat
  BY ReturningIs
<1>2. Len(app_init_log_doms_IDs) = NumLogDomains /\ DOMAIN log_domains = 1..NumLogDomains
  BY <1>1 DEF CallOK, LibOK
<1>3. ASSUME NEW q \in 0..(Limit - 1), NEW e \in 0..(num_log_domains(q) - 1)
      PROVE  /\ OnFirst(q) + e + 1 \in DOMAIN log_domains
             /\ log_domains[OnFirst(q) + e + 1] = [phys |-> q, mask |-> DomainMask(q, e)]
  <2>1. Limit \in Nat /\ q \in Nat
    BY <1>1, LimitIs DEF Called
  <2>2. num_log_domains(q) \in Nat /\ OnFirst(q) \in Nat
        /\ OnFirst(q + 1) = OnFirst(q) + num_log_domains(q)
    BY <1>1, <2>1, NumIs, OnFirstIs
  <2>3. q + 1 \in 0..Limit /\ Limit \in 0..Limit /\ q + 1 <= Limit
    BY <2>1
  <2>4. OnFirst(q + 1) <= NumLogDomains
    BY <1>1, <2>3, OnFirstIs
  <2>5. OnFirst(q) + e < NumLogDomains /\ e \in Nat
    BY <1>1, <2>2, <2>4
  <2>6. OnFirst(q) + e + 1 \in 1..NumLogDomains
    BY <1>1, <2>2, <2>5
  <2> QED BY <1>1, <1>2, <2>5, <2>6 DEF DomainsOK
<1>4. ASSUME NEW d \in DOMAIN log_domains
      PROVE  \E q \in 0..(Limit - 1) : \E e \in 0..(num_log_domains(q) - 1) : d = OnFirst(q) + e + 1
  <2>1. d - 1 \in 0..(NumLogDomains - 1) /\ d \in Nat
    BY <1>1, <1>2
  <2>9. PICK q \in 0..(Limit - 1) : \E e \in 0..(num_log_domains(q) - 1) : d - 1 = OnFirst(q) + e
    BY <1>1, <2>1, OnFirstReaches
  <2>2. PICK e \in 0..(num_log_domains(q) - 1) : d - 1 = OnFirst(q) + e
    BY <2>9
  <2>3. Limit \in Nat /\ q \in Nat
    BY <1>1, LimitIs DEF Called
  <2>4. num_log_domains(q) \in Nat /\ OnFirst(q) \in Nat
    BY <1>1, <2>3, NumIs, OnFirstIs
  <2>5. d = OnFirst(q) + e + 1
    BY <2>1, <2>2, <2>4
  <2> QED BY <2>5
<1> QED BY <1>2, <1>3, <1>4

\* The masks on a card are one after the other,
LEMMA MasksApart ==
  ASSUME Called, NEW q \in 0..(Limit - 1), NEW e \in 0..(num_log_domains(q) - 1),
         NEW f \in 0..(num_log_domains(q) - 1), e < f,
         \A g \in 0..(num_log_domains(q) - 1) : Cut(q, g) < Cut(q, g + 1)
  PROVE  DomainMask(q, e) \cap DomainMask(q, f) = {}
<1> DEFINE n == num_log_domains(q)
           cut == [g \in 0..n |-> Cut(q, g)]
<1>1. n \in Nat /\ CardAt(q).lower \in Nat /\ \A g \in 0..n : Cut(q, g) \in Nat
  <2>1. q \in Nat /\ q \in 0..(NumActive - 1)
    BY LimitIs DEF Called
  <2> QED BY <2>1, NumIs, CardIs, CutIs
<1>2. \A g \in 0..(n - 1) : cut[g] <= cut[g + 1]
  <2> SUFFICES ASSUME NEW g \in 0..(n - 1) PROVE cut[g] <= cut[g + 1]
    OBVIOUS
  <2>1. g \in 0..n /\ g + 1 \in 0..n
    BY <1>1
  <2> QED BY <1>1, <2>1
<1>3. \A g \in 0..n : cut[g] \in Nat
  BY <1>1
<1>4. e + 1 \in 0..n /\ f \in 0..n /\ e + 1 <= f /\ e \in 0..n /\ f + 1 \in 0..n
  BY <1>1
<1>5. cut[e + 1] = Cut(q, e + 1) /\ cut[f] = Cut(q, f)
  BY <1>4
<1> HIDE DEF cut
<1>6. cut[e + 1] <= cut[f]
  <2> HIDE DEF n
  <2> QED BY <1>1, <1>2, <1>3, <1>4, ClimbMonotone
<1>7. Cut(q, e) \in Nat /\ Cut(q, e + 1) \in Nat /\ Cut(q, f) \in Nat /\ Cut(q, f + 1) \in Nat
      /\ Cut(q, e + 1) <= Cut(q, f)
  BY <1>1, <1>4, <1>5, <1>6
<1> QED BY <1>1, <1>7 DEF DomainMask

\* and cover its threads.
LEMMA MasksCover ==
  ASSUME Called, NEW q \in 0..(Limit - 1), NEW x
  PROVE  x \in CardAt(q).lower..(CardAt(q).lower + CardAt(q).count - 1)
           <=> \E e \in 0..(num_log_domains(q) - 1) : x \in DomainMask(q, e)
<1> DEFINE n == num_log_domains(q)
           low == CardAt(q).lower
           cnt == CardAt(q).count
           cut == [g \in 0..n |-> Cut(q, g)]
<1>1. n \in Nat \ {0} /\ low \in Nat /\ cnt \in Nat /\ \A g \in 0..n : Cut(q, g) \in Nat
      /\ Cut(q, 0) = 0 /\ Cut(q, n) = cnt
  <2>1. q \in Nat /\ q \in 0..(NumActive - 1)
    BY LimitIs DEF Called
  <2> QED BY <2>1, NumIs, CardIs, CutIs
<1>2. \A g \in 0..(n - 1) : Cut(q, g) <= Cut(q, g + 1)
  <2> SUFFICES ASSUME NEW g \in 0..(n - 1) PROVE Cut(q, g) <= Cut(q, g + 1)
    OBVIOUS
  <2>1. Cut(q, g + 1) = Cut(q, g) + DomainSize(q, g) /\ DomainSize(q, g) \in Nat /\ g \in 0..n
    BY <1>1, CutIs
  <2>2. Cut(q, g) \in Nat
    BY <1>1, <2>1
  <2> QED BY <2>1, <2>2
<1>3. \A g \in 0..n : cut[g] = Cut(q, g) /\ cut[g] \in Nat
  BY <1>1
<1>4. \A e \in 0..(n - 1) : DomainMask(q, e) = (low + Cut(q, e))..(low + Cut(q, e + 1) - 1)
  BY DEF DomainMask
<1> HIDE DEF cut, n, low, cnt
<1>5. ASSUME x \in low..(low + cnt - 1) PROVE \E e \in 0..(n - 1) : x \in DomainMask(q, e)
  <2>1. x - low \in Nat /\ x - low < cut[n] /\ cut[0] = 0
    BY <1>1, <1>3, <1>5
  <2>2. PICK e \in 0..(n - 1) : cut[e] <= x - low /\ x - low < cut[e + 1]
    BY <1>1, <1>3, <2>1, ClimbReaches
  <2>3. e \in 0..n /\ e + 1 \in 0..n
    BY <1>1
  <2>4. Cut(q, e) \in Nat /\ Cut(q, e + 1) \in Nat /\ Cut(q, e) <= x - low /\ x - low < Cut(q, e + 1)
    BY <1>1, <1>3, <2>2, <2>3
  <2>5. x \in (low + Cut(q, e))..(low + Cut(q, e + 1) - 1)
    BY <1>1, <1>5, <2>4
  <2> QED BY <1>4, <2>5
<1>6. ASSUME NEW e \in 0..(n - 1), x \in DomainMask(q, e) PROVE x \in low..(low + cnt - 1)
  <2>1. e \in 0..n /\ e + 1 \in 0..n /\ n \in 0..n /\ e + 1 <= n
    BY <1>1
  <2>2. \A g \in 0..(n - 1) : cut[g] <= cut[g + 1]
    <3> SUFFICES ASSUME NEW g \in 0..(n - 1) PROVE cut[g] <= cut[g + 1]
      OBVIOUS
    <3>1. g \in 0..n /\ g + 1 \in 0..n
      BY <1>1
    <3> QED BY <1>2, <1>3, <3>1
  <2>3. cut[e + 1] <= cut[n]
    BY <1>1, <1>3, <2>1, <2>2, ClimbMonotone
  <2>4. Cut(q, e + 1) <= cnt /\ Cut(q, e) \in Nat /\ Cut(q, e + 1) \in Nat
    BY <1>1, <1>3, <2>1, <2>3
  <2>5. x \in (low + Cut(q, e))..(low + Cut(q, e + 1) - 1)
    BY <1>4, <1>6
  <2> QED BY <1>1, <2>4, <2>5
<1> QED BY <1>5, <1>6 DEF n, low, cnt

Id(q, e) == OnFirst(q) + e + 1

\* The logical domain of a card and a number there.
LEMMA DomainAt ==
  ASSUME AIInv, Returning, call.first,
         NEW q \in 0..(Limit - 1), NEW e \in 0..(num_log_domains(q) - 1)
  PROVE  /\ Id(q, e) \in DOMAIN log_domains
         /\ log_domains[Id(q, e)].phys = q /\ log_domains[Id(q, e)].mask = DomainMask(q, e)
<1>1. /\ OnFirst(q) + e + 1 \in DOMAIN log_domains
      /\ log_domains[OnFirst(q) + e + 1] = [phys |-> q, mask |-> DomainMask(q, e)]
  BY DomainsOn
<1>2. Id(q, e) \in DOMAIN log_domains /\ log_domains[Id(q, e)] = [phys |-> q, mask |-> DomainMask(q, e)]
  BY <1>1, Zenon DEF Id
<1> QED BY <1>2

\* Every logical domain is one of a card.
LEMMA DomainFrom ==
  ASSUME AIInv, Returning, call.first, NEW d \in DOMAIN log_domains
  PROVE  \E q \in 0..(Limit - 1) : \E e \in 0..(num_log_domains(q) - 1) : d = Id(q, e)
  BY DomainsOn, Zenon DEF Id

OnCard(q) == {d \in DOMAIN log_domains : log_domains[d].phys = q}

\* A card has its share of the domains.
LEMMA OnCardIs ==
  ASSUME AIInv, Returning, call.first, NEW q \in 0..(Limit - 1)
  PROVE  /\ \A d : d \in OnCard(q) <=> \E e \in 0..(num_log_domains(q) - 1) : d = Id(q, e)
         /\ Cardinality(OnCard(q)) = num_log_domains(q)
<1>1. Called /\ Limit \in Nat /\ q \in Nat
  BY ReturningIs, LimitIs DEF Called
<1>2. num_log_domains(q) \in Nat \ {0} /\ OnFirst(q) \in Nat
  BY <1>1, NumIs, OnFirstIs
<1>4. ASSUME NEW d
      PROVE  d \in OnCard(q) <=> \E e \in 0..(num_log_domains(q) - 1) : d = Id(q, e)
  <2>1. ASSUME d \in OnCard(q)
        PROVE  \E e \in 0..(num_log_domains(q) - 1) : d = Id(q, e)
    <3>1. d \in DOMAIN log_domains /\ log_domains[d].phys = q
      BY <2>1 DEF OnCard
    <3>2. PICK r \in 0..(Limit - 1) : \E e \in 0..(num_log_domains(r) - 1) : d = Id(r, e)
      BY <3>1, DomainFrom
    <3>3. PICK e \in 0..(num_log_domains(r) - 1) : d = Id(r, e)
      BY <3>2
    <3>4. log_domains[Id(r, e)].phys = r
      BY DomainAt
    <3>5. r = q
      BY <3>1, <3>3, <3>4
    <3> QED BY <3>2, <3>5
  <2>2. ASSUME NEW e \in 0..(num_log_domains(q) - 1), d = Id(q, e)
        PROVE  d \in OnCard(q)
    BY <2>2, DomainAt DEF OnCard
  <2> QED BY <2>1, <2>2
<1> DEFINE a == OnFirst(q) + 1
           b == OnFirst(q) + num_log_domains(q)
<1>5. OnCard(q) = a..b
  <2>1. \A d \in a..b : d - a \in 0..(num_log_domains(q) - 1) /\ d = Id(q, d - a)
    BY <1>2 DEF Id
  <2>2. \A d \in a..b : d \in OnCard(q)
    BY <1>4, <2>1
  <2>3. \A e \in 0..(num_log_domains(q) - 1) : Id(q, e) \in a..b
    BY <1>2 DEF Id
  <2>4. \A d \in OnCard(q) : d \in a..b
    BY <1>4, <2>3
  <2> QED BY <2>2, <2>4
<1>6. Cardinality(a..b) = num_log_domains(q)
  <2>1. a \in Int /\ b \in Int /\ ~(a > b) /\ b - a + 1 = num_log_domains(q)
    BY <1>2
  <2> HIDE DEF a, b
  <2>2. Cardinality(a..b) = IF a > b THEN 0 ELSE b - a + 1
    BY <2>1, FS_Interval
  <2> QED BY <2>1, <2>2
<1> QED BY <1>4, <1>5, <1>6

\* The domains of a first call are a partition of the threads of each card.
LEMMA PartitionHolds ==
  ASSUME AIInv
  PROVE  DomainsPartition
<1> SUFFICES ASSUME Returning, call.first
             PROVE  DomainsPartition
  BY DEF DomainsPartition
<1>1. Called /\ Limit \in Nat \ {0} /\ DomainsOK /\ CallOK /\ call.stage = "domain"
      /\ NumLogDomains \in Nat
  BY ReturningIs, LimitIs DEF Called
<1>3. ASSUME NEW d \in DOMAIN log_domains PROVE log_domains[d].phys \in 0..(Limit - 1)
  <2>1. PICK q \in 0..(Limit - 1) : \E e \in 0..(num_log_domains(q) - 1) : d = Id(q, e)
    BY DomainFrom
  <2>2. PICK e \in 0..(num_log_domains(q) - 1) : d = Id(q, e)
    BY <2>1
  <2>3. log_domains[Id(q, e)].phys = q
    BY DomainAt
  <2> QED BY <2>2, <2>3
<1>4. ASSUME NEW q \in 0..(Limit - 1), NEW r \in 0..(Limit - 1)
      PROVE  Cardinality(OnCard(q)) - Cardinality(OnCard(r)) \in {-1, 0, 1}
  <2>1. q \in Nat /\ r \in Nat
    BY <1>1
  <2> DEFINE a == NumLogDomains \div Limit
             m == NumLogDomains % Limit
  <2>2. a \in Nat /\ m \in Nat
    BY <1>1, Division
  <2>3. /\ num_log_domains(q) = a + (IF q < m THEN 1 ELSE 0)
        /\ num_log_domains(r) = a + (IF r < m THEN 1 ELSE 0)
    BY <1>1, <2>1, NumIs
  <2>4. /\ Cardinality(OnCard(q)) = num_log_domains(q)
        /\ Cardinality(OnCard(r)) = num_log_domains(r)
    BY OnCardIs
  <2> HIDE DEF a, m
  <2> QED BY <2>2, <2>3, <2>4
<1>5. ASSUME NEW q \in 0..(Limit - 1)
      PROVE  \A g \in 0..(num_log_domains(q) - 1) : Cut(q, g) < Cut(q, g + 1)
  <2> SUFFICES ASSUME NEW g \in 0..(num_log_domains(q) - 1) PROVE Cut(q, g) < Cut(q, g + 1)
    OBVIOUS
  <2>1. q \in Nat /\ OnFirst(q) \in Nat /\ num_log_domains(q) \in Nat
    BY <1>1, OnFirstIs, NumIs
  <2>2. OnFirst(q) + g + 1 \in 1..NumLogDomains
    BY DomainAt, DomainsOn DEF Id
  <2>3. Len(app_init_log_doms_IDs) = NumLogDomains
    BY <1>1, ReturningIs DEF CallOK
  <2>4. OnFirst(q) + g < Len(app_init_log_doms_IDs)
    BY <1>1, <2>1, <2>2, <2>3
  <2> QED BY <1>1, <2>4 DEF DomainsOK
<1>6. ASSUME NEW q \in 0..(Limit - 1)
      PROVE  UNION {log_domains[d].mask : d \in OnCard(q)}
               = CardAt(q).lower..(CardAt(q).lower + CardAt(q).count - 1)
  <2>1. \A d : d \in OnCard(q) <=> \E e \in 0..(num_log_domains(q) - 1) : d = Id(q, e)
    BY OnCardIs
  <2>2. \A x : x \in UNION {log_domains[d].mask : d \in OnCard(q)}
                 <=> \E e \in 0..(num_log_domains(q) - 1) : x \in DomainMask(q, e)
    <3>1. \A e \in 0..(num_log_domains(q) - 1) :
            log_domains[Id(q, e)].mask = DomainMask(q, e)
      BY DomainAt
    <3> QED BY <2>1, <3>1
  <2>3. \A x : x \in CardAt(q).lower..(CardAt(q).lower + CardAt(q).count - 1)
                 <=> \E e \in 0..(num_log_domains(q) - 1) : x \in DomainMask(q, e)
    BY <1>1, MasksCover
  <2> QED BY <2>2, <2>3, Zenon
<1>7. ASSUME NEW q \in 0..(Limit - 1), NEW c \in OnCard(q), NEW d \in OnCard(q), c # d
      PROVE  log_domains[c].mask \cap log_domains[d].mask = {}
  <2>1. PICK e \in 0..(num_log_domains(q) - 1) : c = Id(q, e)
    BY OnCardIs
  <2>2. PICK f \in 0..(num_log_domains(q) - 1) : d = Id(q, f)
    BY OnCardIs
  <2>3. log_domains[c].mask = DomainMask(q, e) /\ log_domains[d].mask = DomainMask(q, f)
    BY <2>1, <2>2, DomainAt
  <2>4. e # f
    BY <1>7, <2>1, <2>2
  <2>5. CASE e < f
    <3>1. DomainMask(q, e) \cap DomainMask(q, f) = {}
      BY <1>1, <1>5, <2>5, MasksApart
    <3> QED BY <2>3, <3>1
  <2>6. CASE f < e
    <3>1. DomainMask(q, f) \cap DomainMask(q, e) = {}
      BY <1>1, <1>5, <2>6, MasksApart
    <3> QED BY <2>3, <3>1
  <2> QED BY <2>4, <2>5, <2>6
<1> QED BY <1>3, <1>4, <1>6, <1>7 DEF DomainsPartition, OnCard, Limit

-----------------------------------------------------------------------------
(* What the invariant says of the streams of a call that returns.          *)

\* Even shares climb.
LEMMA EvenClimbs ==
  ASSUME NEW n \in Nat, NEW k \in Nat \ {0}, NEW a \in 0..k, NEW b \in 0..k, a <= b
  PROVE  Even(n, k, a) \in Nat /\ Even(n, k, b) \in Nat /\ Even(n, k, a) <= Even(n, k, b)
<1> DEFINE f == [j \in 0..k |-> Even(n, k, j)]
<1>1. /\ \A j \in Nat : Even(n, k, j) \in Nat
      /\ \A j \in Nat : Even(n, k, j + 1) = Even(n, k, j) + (n \div k) + IF j < n % k THEN 1 ELSE 0
      /\ n \div k \in Nat
  BY EvenShares, Division
<1>2. \A j \in 0..k : f[j] = Even(n, k, j) /\ f[j] \in Nat
  BY <1>1
<1>3. \A j \in 0..(k - 1) : f[j] <= f[j + 1]
  <2> SUFFICES ASSUME NEW j \in 0..(k - 1) PROVE f[j] <= f[j + 1]
    OBVIOUS
  <2>1. j \in Nat /\ j \in 0..k /\ j + 1 \in 0..k
    OBVIOUS
  <2>2. f[j] = Even(n, k, j) /\ f[j + 1] = Even(n, k, j + 1) /\ Even(n, k, j) \in Nat
    BY <1>1, <2>1
  <2> DEFINE x == n \div k
             y == IF j < n % k THEN 1 ELSE 0
  <2>3. Even(n, k, j + 1) = Even(n, k, j) + x + y /\ x \in Nat /\ y \in Nat
    BY <1>1, <2>1
  <2> HIDE DEF f, x, y
  <2> QED BY <2>2, <2>3
<1> HIDE DEF f
<1>4. f[a] <= f[b]
  BY <1>2, <1>3, ClimbMonotone
<1> QED BY <1>2, <1>4

\* The places in a domain are apart,
LEMMA PlacesApart ==
  ASSUME NEW low \in Nat, NEW n \in Nat, NEW k \in Nat \ {0},
         NEW i \in 0..(k - 1), NEW j \in 0..(k - 1), i < j
  PROVE  PlaceIn(low, n, k, i) \cap PlaceIn(low, n, k, j) = {}
<1>1. i + 1 \in 0..k /\ j \in 0..k /\ i + 1 <= j /\ i \in 0..k /\ j + 1 \in 0..k
  OBVIOUS
<1>2. Even(n, k, i + 1) <= Even(n, k, j) /\ Even(n, k, i + 1) \in Nat /\ Even(n, k, j) \in Nat
  BY <1>1, EvenClimbs
<1>3. Even(n, k, i) \in Nat /\ Even(n, k, j + 1) \in Nat
  <2>1. i \in Nat /\ j + 1 \in Nat
    OBVIOUS
  <2>2. \A m \in Nat : Even(n, k, m) \in Nat
    BY EvenShares
  <2> QED BY <2>1, <2>2
<1> QED BY <1>2, <1>3 DEF PlaceIn

\* of sizes that differ by one at most,
LEMMA PlaceCount ==
  ASSUME NEW low \in Nat, NEW n \in Nat, NEW k \in Nat \ {0}, NEW j \in 0..(k - 1)
  PROVE  Cardinality(PlaceIn(low, n, k, j)) = (n \div k) + (IF j < n % k THEN 1 ELSE 0)
<1> DEFINE size == (n \div k) + (IF j < n % k THEN 1 ELSE 0)
           a == low + Even(n, k, j)
           b == low + Even(n, k, j + 1) - 1
<1>1. n \div k \in Nat /\ n % k \in Nat /\ j \in Nat
  BY Division
<1>2. size \in Nat
  BY <1>1
<1>3. Even(n, k, j + 1) = Even(n, k, j) + size /\ Even(n, k, j) \in Nat
  <2> DEFINE x == n \div k
             y == IF j < n % k THEN 1 ELSE 0
  <2>1. Even(n, k, j + 1) = Even(n, k, j) + x + y /\ Even(n, k, j) \in Nat
    BY <1>1, EvenShares
  <2>2. x \in Nat /\ y \in Nat
    BY <1>1
  <2>3. size = x + y
    OBVIOUS
  <2> HIDE DEF x, y, size
  <2> QED BY <2>1, <2>2, <2>3
<1> HIDE DEF size
<1>4. a \in Int /\ b \in Int /\ (a > b <=> size = 0) /\ b - a + 1 = size
  BY <1>2, <1>3
<1> HIDE DEF a, b
<1>5. Cardinality(a..b) = IF a > b THEN 0 ELSE b - a + 1
  BY <1>4, FS_Interval
<1> QED BY <1>4, <1>5 DEF PlaceIn, a, b, size

\* and cover it.
LEMMA PlacesCover ==
  ASSUME NEW low \in Nat, NEW n \in Nat, NEW k \in Nat \ {0}, NEW x
  PROVE  x \in low..(low + n - 1) <=> \E j \in 0..(k - 1) : x \in PlaceIn(low, n, k, j)
<1> DEFINE f == [j \in 0..k |-> Even(n, k, j)]
<1>1. /\ \A j \in 0..k : f[j] = Even(n, k, j) /\ f[j] \in Nat
      /\ Even(n, k, 0) = 0 /\ Even(n, k, k) = n
  <2>1. \A j \in Nat : Even(n, k, j) \in Nat
    BY EvenShares
  <2>2. Even(n, k, 0) = 0 /\ Even(n, k, k) = n
    BY EvenShares
  <2> QED BY <2>1, <2>2
<1> HIDE DEF f
<1>2. ASSUME x \in low..(low + n - 1) PROVE \E j \in 0..(k - 1) : x \in PlaceIn(low, n, k, j)
  <2>1. x - low \in Nat /\ x - low < f[k] /\ f[0] = 0
    BY <1>1, <1>2
  <2>2. PICK j \in 0..(k - 1) : f[j] <= x - low /\ x - low < f[j + 1]
    BY <1>1, <2>1, ClimbReaches
  <2>3. j \in 0..k /\ j + 1 \in 0..k
    OBVIOUS
  <2>4. Even(n, k, j) \in Nat /\ Even(n, k, j + 1) \in Nat
        /\ Even(n, k, j) <= x - low /\ x - low < Even(n, k, j + 1)
    BY <1>1, <2>2, <2>3
  <2>5. x \in (low + Even(n, k, j))..(low + Even(n, k, j + 1) - 1)
    BY <1>2, <2>4
  <2> QED BY <2>5 DEF PlaceIn
<1>3. ASSUME NEW j \in 0..(k - 1), x \in PlaceIn(low, n, k, j) PROVE x \in low..(low + n - 1)
  <2>1. j \in 0..k /\ j + 1 \in 0..k /\ k \in 0..k /\ j + 1 <= k
    OBVIOUS
  <2>2. Even(n, k, j) \in Nat /\ Even(n, k, j + 1) \in Nat /\ Even(n, k, j + 1) <= n
    BY <1>1, <2>1, EvenClimbs
  <2>3. x \in (low + Even(n, k, j))..(low + Even(n, k, j + 1) - 1)
    BY <1>3 DEF PlaceIn
  <2> QED BY <2>2, <2>3
<1> QED BY <1>2, <1>3

\* The domain of a place is the one whose places it is among.
LEMMA DomainOfIs ==
  ASSUME Called, NEW r \in Nat, r < Upto(NumLogDomains)
  PROVE  /\ DomainOf(r) \in 1..NumLogDomains
         /\ Upto(DomainOf(r) - 1) <= r /\ r < Upto(DomainOf(r))
         /\ \A d \in 1..NumLogDomains : Upto(d - 1) <= r /\ r < Upto(d) => d = DomainOf(r)
<1> DEFINE n == NumLogDomains
           f == StreamsUpto(call.streams)
<1>1. /\ n \in Nat /\ Upto(0) = 0 /\ \A i \in 0..n : Upto(i) \in Nat
      /\ \A a, b \in 0..n : a <= b => Upto(a) <= Upto(b)
  BY LimitIs, UptoFacts DEF Called
<1>2. \A i : Upto(i) = f[i]
  BY DEF Upto
<1>3. DomainOf(r) = CHOOSE x \in {i \in 1..n : f[i] > r} : \A y \in {i \in 1..n : f[i] > r} : x <= y
  BY DEF DomainOf, Min
<1> HIDE DEF n, f
<1>4. PICK j \in 0..(n - 1) : f[j] <= r /\ r < f[j + 1]
  <2>1. \A i \in 0..n : f[i] \in Nat
    BY <1>1, <1>2
  <2>2. f[0] = 0 /\ r < f[n]
    BY <1>1, <1>2 DEF n
  <2> QED BY <1>1, <2>1, <2>2, ClimbReaches
<1>5. ASSUME NEW d \in 1..n, Upto(d - 1) <= r, r < Upto(d) PROVE d = DomainOf(r)
  <2>1. d \in {i \in 1..n : f[i] > r}
    <3>1. Upto(d) \in Nat
      BY <1>1
    <3> QED BY <1>2, <1>5, <3>1
  <2>2. ASSUME NEW y \in 1..n, f[y] > r PROVE d <= y
    <3>1. SUFFICES ASSUME ~(d <= y) PROVE FALSE
      OBVIOUS
    <3>2. y \in 0..n /\ d - 1 \in 0..n /\ y <= d - 1
      BY <1>1, <3>1
    <3>3. Upto(y) <= Upto(d - 1) /\ Upto(y) \in Nat /\ Upto(d - 1) \in Nat
      BY <1>1, <3>2
    <3> QED BY <1>2, <1>5, <2>2, <3>3
  <2> DEFINE S == {i \in 1..n : f[i] > r}
             c == CHOOSE x \in S : \A y \in S : x <= y
  <2>3. d \in S /\ \A y \in S : d <= y
    BY <2>1, <2>2
  <2>4. c = DomainOf(r)
    BY <1>3
  <2>5. \A y \in S : y \in Nat
    OBVIOUS
  <2> HIDE DEF S
  <2>6. c \in S /\ \A y \in S : c <= y
    BY <2>3
  <2> HIDE DEF c
  <2>7. d <= c /\ c <= d /\ d \in Nat /\ c \in Nat
    BY <2>3, <2>5, <2>6
  <2> QED BY <2>4, <2>7
<1>6. j + 1 \in 1..n /\ (j + 1) - 1 = j /\ Upto(j) <= r /\ r < Upto(j + 1)
  BY <1>1, <1>2, <1>4
<1>7. j + 1 = DomainOf(r)
  BY <1>5, <1>6
<1> QED BY <1>5, <1>6, <1>7 DEF n

\* The stream with an id of the call is in the domain of its place, and has the
\* mask of it.
LEMMA NewStreamIs ==
  ASSUME AIInv, Returning, ~call_failed, NEW s \in NewIDs, NEW d, d = DomainOf(PlaceOf(s)),
         NEW j, j = PlaceOf(s) - Upto(d - 1)
  PROVE  /\ PlaceOf(s) \in Nat /\ d \in 1..NumLogDomains /\ s \in DOMAIN log_streams
         /\ Upto(d - 1) \in Nat
         /\ log_streams[s].dom = d /\ app_init_log_doms_IDs[d] = d
         /\ call.streams[d] \in Nat \ {0} /\ j \in 0..(call.streams[d] - 1)
         /\ call.streams[d] <= Size(Mask(d)) /\ IsBlock(Mask(d))
         /\ log_streams[s].mask = PlaceIn(Low(Mask(d)), Size(Mask(d)), call.streams[d], j)
<1>1. /\ Called /\ call # Idle /\ CallOK /\ LibOK /\ call.idx = NumLogDomains
      /\ NumLogDomains \in Nat /\ call.stage = "domain" /\ Upto(NumLogDomains) = call.tot_places
  BY ReturningIs
<1>2. /\ DOMAIN log_streams = 0..(call.start + call.tot_places * call.over - 1)
      /\ call.tot_places * call.over \in Nat
  BY AllCreated
<1>3. call.start \in Nat
  BY <1>1 DEF Called, IsCall
<1>4. s \in Nat /\ s >= call.start /\ s \in DOMAIN log_streams
  BY <1>2, <1>3 DEF NewIDs
<1>5. PlaceOf(s) \in Nat /\ PlaceOf(s) < Upto(NumLogDomains)
  BY <1>1, <1>4, PlaceIs
<1>6. /\ d \in 1..NumLogDomains /\ Upto(d - 1) <= PlaceOf(s) /\ PlaceOf(s) < Upto(d)
  BY <1>1, <1>5, DomainOfIs
<1>7. /\ Upto(d - 1) \in Nat /\ Upto(d) = Upto(d - 1) + call.streams[d] /\ call.streams[d] \in Nat
  <2>1. d - 1 \in 0..(NumLogDomains - 1) /\ d - 1 \in 0..NumLogDomains /\ (d - 1) + 1 = d
    BY <1>1, <1>6
  <2>2. /\ Upto((d - 1) + 1) = Upto(d - 1) + StreamsOf(d - 1) /\ StreamsOf(d - 1) \in Nat
        /\ StreamsOf(d - 1) = call.streams[(d - 1) + 1] /\ Upto(d - 1) \in Nat
    BY <1>1, <2>1, UptoFacts
  <2> QED BY <2>1, <2>2
<1>8. call.streams[d] \in Nat \ {0} /\ j \in 0..(call.streams[d] - 1)
  BY <1>5, <1>6, <1>7
<1>9. /\ log_streams[s].dom = d /\ call.streams[d] <= Size(Mask(d))
      /\ log_streams[s].mask = PlaceIn(Low(Mask(d)), Size(Mask(d)), call.streams[d], j)
  <2>1. StreamsOK
    BY <1>1 DEF AIInv
  <2>2. d <= call.idx
    BY <1>1, <1>6
  <2> QED BY <1>4, <1>6, <2>1, <2>2 DEF StreamsOK
<1>10. Len(app_init_log_doms_IDs) = NumLogDomains
  BY <1>1 DEF CallOK
<1>11. app_init_log_doms_IDs[d] = d /\ d \in DOMAIN log_domains
  BY <1>1, <1>6, <1>10 DEF LibOK
<1>12. IsBlock(Mask(d))
  BY <1>1, <1>11 DEF LibOK, Mask
<1> QED BY <1>4, <1>5, <1>6, <1>7, <1>8, <1>9, <1>11, <1>12

\* Every place has a stream: the first one there.
LEMMA PlaceHasStream ==
  ASSUME Called, NEW r \in 0..(call.tot_places - 1)
  PROVE  call.start + r \in NewIDs /\ PlaceOf(call.start + r) = r
<1> DEFINE t == call.tot_places
<1>1. call.start \in Nat /\ t \in Nat \ {0} /\ call.over \in Nat \ {0} /\ r \in Nat
  BY DEF Called, IsCall
<1>2. t * call.over \in Nat /\ t <= t * call.over
  <2>1. 1 * t <= call.over * t
    BY <1>1, TimesMonotone
  <2>2. 1 * t = t /\ call.over * t = t * call.over
    BY <1>1
  <2> QED BY <1>1, <2>1, <2>2
<1>3. call.start + r \in NewIDs
  <2> DEFINE z == t * call.over
  <2>1. NewIDs = call.start..(call.start + z - 1)
    BY DEF NewIDs
  <2>2. z \in Nat /\ t <= z /\ r < t
    BY <1>1, <1>2
  <2> HIDE DEF z, t
  <2> QED BY <1>1, <2>1, <2>2
<1>4. PlaceOf(call.start + r) = r
  <2>1. (0 * t + r) % t = r
    BY <1>1, DivisionUnique
  <2>2. 0 * t + r = r /\ (call.start + r) - call.start = r
    BY <1>1
  <2> QED BY <2>1, <2>2 DEF PlaceOf
<1> QED BY <1>3, <1>4

\* The streams of a call that returns are those asked for, and share out the
\* threads of each domain.
LEMMA StreamsHold ==
  ASSUME AIInv
  PROVE  StreamsPartition
<1> SUFFICES ASSUME Returning, ~call_failed
             PROVE  StreamsPartition
  BY DEF StreamsPartition
<1>1. /\ Called /\ NumLogDomains \in Nat /\ Upto(NumLogDomains) = call.tot_places
  BY ReturningIs
<1>2. call.start \in Nat /\ call.tot_places \in Nat \ {0} /\ call.over \in Nat \ {0}
  BY <1>1 DEF Called, IsCall
<1> DEFINE z == call.tot_places * call.over
<1>3. /\ DOMAIN log_streams = 0..(call.start + z - 1)
      /\ app_init_next_log_str_ID = call.start + z
      /\ NewIDs = call.start..(call.start + z - 1) /\ z \in Nat
  BY AllCreated DEF NewIDs
<1> HIDE DEF z
<1>4. {s \in DOMAIN log_streams : s >= call.start} = NewIDs
  BY <1>2, <1>3
<1>5. app_init_next_log_str_ID = call.start + Cardinality(NewIDs)
  <2> DEFINE a == call.start
             b == call.start + z - 1
  <2>1. a \in Int /\ b \in Int /\ (a > b <=> z = 0) /\ b - a + 1 = z /\ NewIDs = a..b
    BY <1>2, <1>3
  <2> HIDE DEF a, b
  <2>2. Cardinality(NewIDs) = IF a > b THEN 0 ELSE b - a + 1
    BY <2>1, FS_Interval
  <2>3. Cardinality(NewIDs) = z
    BY <2>1, <2>2
  <2> QED BY <1>3, <2>3
<1>6. ASSUME NEW s \in NewIDs
      PROVE  log_streams[s].dom = app_init_log_doms_IDs[DomainOf(PlaceOf(s))]
  BY NewStreamIs
<1>7. ASSUME NEW s \in NewIDs, NEW t \in NewIDs
      PROVE  /\ IF PlaceOf(s) = PlaceOf(t) THEN log_streams[s].mask = log_streams[t].mask
                ELSE log_streams[s].mask \cap log_streams[t].mask = {}
                       \/ log_streams[s].dom # log_streams[t].dom
             /\ log_streams[s].dom = log_streams[t].dom =>
                  Cardinality(log_streams[s].mask) - Cardinality(log_streams[t].mask) \in {-1, 0, 1}
  <2> DEFINE c == DomainOf(PlaceOf(s))
             d == DomainOf(PlaceOf(t))
             i == PlaceOf(s) - Upto(c - 1)
             j == PlaceOf(t) - Upto(d - 1)
  <2>1. /\ PlaceOf(s) \in Nat /\ Upto(c - 1) \in Nat /\ log_streams[s].dom = c
        /\ call.streams[c] \in Nat \ {0} /\ i \in 0..(call.streams[c] - 1) /\ IsBlock(Mask(c))
        /\ log_streams[s].mask = PlaceIn(Low(Mask(c)), Size(Mask(c)), call.streams[c], i)
    BY NewStreamIs
  <2>2. /\ PlaceOf(t) \in Nat /\ Upto(d - 1) \in Nat /\ log_streams[t].dom = d
        /\ call.streams[d] \in Nat \ {0} /\ j \in 0..(call.streams[d] - 1) /\ IsBlock(Mask(d))
        /\ log_streams[t].mask = PlaceIn(Low(Mask(d)), Size(Mask(d)), call.streams[d], j)
    BY NewStreamIs
  <2>3. PlaceOf(s) = PlaceOf(t) => log_streams[s].mask = log_streams[t].mask
    BY <2>1, <2>2
  <2>4. CASE c = d
    <3> DEFINE low == Low(Mask(c))
               n == Size(Mask(c))
               k == call.streams[c]
    <3>1. low \in Nat /\ n \in Nat /\ k \in Nat \ {0} /\ i \in 0..(k - 1) /\ j \in 0..(k - 1)
      BY <2>1, <2>2, <2>4 DEF IsBlock
    <3>2. log_streams[s].mask = PlaceIn(low, n, k, i) /\ log_streams[t].mask = PlaceIn(low, n, k, j)
      BY <2>1, <2>2, <2>4
    <3>3. PlaceOf(s) # PlaceOf(t) => i # j
      BY <2>1, <2>2, <2>4
    <3> HIDE DEF low, n, k, i, j, c, d
    <3>4. i < j => PlaceIn(low, n, k, i) \cap PlaceIn(low, n, k, j) = {}
      BY <3>1, PlacesApart
    <3>5. j < i => PlaceIn(low, n, k, j) \cap PlaceIn(low, n, k, i) = {}
      BY <3>1, PlacesApart
    <3>6. i # j => log_streams[s].mask \cap log_streams[t].mask = {}
      <4>1. i # j => i < j \/ j < i
        BY <3>1
      <4> QED BY <3>2, <3>4, <3>5, <4>1
    <3> DEFINE q == n \div k
               m == n % k
    <3>7. q \in Nat /\ m \in Nat
      BY <3>1, Division
    <3>8. /\ Cardinality(log_streams[s].mask) = q + (IF i < m THEN 1 ELSE 0)
          /\ Cardinality(log_streams[t].mask) = q + (IF j < m THEN 1 ELSE 0)
      <4>1. Cardinality(PlaceIn(low, n, k, i)) = q + (IF i < m THEN 1 ELSE 0)
        BY <3>1, PlaceCount
      <4>2. Cardinality(PlaceIn(low, n, k, j)) = q + (IF j < m THEN 1 ELSE 0)
        BY <3>1, PlaceCount
      <4> HIDE DEF q, m
      <4> QED BY <3>2, <4>1, <4>2
    <3> HIDE DEF q, m
    <3>9. Cardinality(log_streams[s].mask) - Cardinality(log_streams[t].mask) \in {-1, 0, 1}
      BY <3>7, <3>8
    <3> QED BY <2>3, <3>3, <3>6, <3>9
  <2>5. CASE c # d
    <3>1. log_streams[s].dom # log_streams[t].dom
      BY <2>1, <2>2, <2>5
    <3> QED BY <2>3, <3>1
  <2> QED BY <2>4, <2>5
<1>8. ASSUME NEW d \in 1..NumLogDomains, call.streams[d] # 0
      PROVE  log_domains[app_init_log_doms_IDs[d]].mask =
               UNION {log_streams[s].mask : s \in {t \in NewIDs : DomainOf(PlaceOf(t)) = d}}
  <2> DEFINE low == Low(Mask(d))
             n == Size(Mask(d))
             k == call.streams[d]
             Of == {t \in NewIDs : DomainOf(PlaceOf(t)) = d}
  <2>1. /\ Upto(d - 1) \in Nat /\ Upto(d) = Upto(d - 1) + k /\ k \in Nat \ {0}
        /\ Upto(d) <= call.tot_places
    <3>1. d - 1 \in 0..(NumLogDomains - 1) /\ d - 1 \in 0..NumLogDomains /\ (d - 1) + 1 = d
          /\ d \in 0..NumLogDomains /\ NumLogDomains \in 0..NumLogDomains /\ d <= NumLogDomains
      BY <1>1
    <3>2. /\ Upto((d - 1) + 1) = Upto(d - 1) + StreamsOf(d - 1) /\ StreamsOf(d - 1) \in Nat
          /\ StreamsOf(d - 1) = call.streams[(d - 1) + 1] /\ Upto(d - 1) \in Nat
          /\ Upto(d) <= Upto(NumLogDomains)
      BY <1>1, <3>1, UptoFacts
    <3> QED BY <1>1, <1>8, <3>1, <3>2
  <2>2. /\ log_domains[app_init_log_doms_IDs[d]].mask = Mask(d)
        /\ low \in Nat /\ n \in Nat /\ Mask(d) = low..(low + n - 1)
    <3>1. LibOK /\ Len(app_init_log_doms_IDs) = NumLogDomains
      BY ReturningIs DEF CallOK
    <3>2. app_init_log_doms_IDs[d] = d /\ d \in DOMAIN log_domains
      BY <3>1 DEF LibOK
    <3> QED BY <3>1, <3>2 DEF LibOK, Mask, IsBlock, Block
  <2> HIDE DEF low, n, k
  <2>3. ASSUME NEW s \in Of
        PROVE  \E j \in 0..(k - 1) : log_streams[s].mask = PlaceIn(low, n, k, j)
    BY <2>3, NewStreamIs DEF low, n, k
  <2>4. ASSUME NEW j \in 0..(k - 1)
        PROVE  \E s \in Of : log_streams[s].mask = PlaceIn(low, n, k, j)
    <3> DEFINE r == Upto(d - 1) + j
               s == call.start + r
    <3>1. r \in 0..(call.tot_places - 1) /\ Upto(d - 1) <= r /\ r < Upto(d) /\ r - Upto(d - 1) = j
          /\ r \in Nat /\ r < Upto(NumLogDomains)
      BY <1>1, <1>2, <2>1
    <3> HIDE DEF r
    <3>2. s \in NewIDs /\ PlaceOf(s) = r
      BY <1>1, <3>1, PlaceHasStream
    <3>3. d = DomainOf(r)
      BY <1>1, <3>1, DomainOfIs
    <3> HIDE DEF s
    <3>4. log_streams[s].mask = PlaceIn(low, n, k, j)
      BY <3>1, <3>2, <3>3, NewStreamIs DEF low, n, k
    <3> QED BY <3>2, <3>3, <3>4
  <2>5. \A x : x \in Mask(d) <=> \E j \in 0..(k - 1) : x \in PlaceIn(low, n, k, j)
    BY <2>1, <2>2, PlacesCover
  <2>6. \A x : x \in UNION {log_streams[s].mask : s \in Of} <=> \E s \in Of : x \in log_streams[s].mask
    OBVIOUS
  <2> HIDE DEF Of
  <2>7. Mask(d) = UNION {log_streams[s].mask : s \in Of}
    <3>1. ASSUME NEW x \in Mask(d) PROVE \E s \in Of : x \in log_streams[s].mask
      <4>1. PICK j \in 0..(k - 1) : x \in PlaceIn(low, n, k, j)
        BY <2>5
      <4> QED BY <2>4, <4>1
    <3>2. ASSUME NEW s \in Of, NEW x \in log_streams[s].mask PROVE x \in Mask(d)
      <4>1. PICK j \in 0..(k - 1) : log_streams[s].mask = PlaceIn(low, n, k, j)
        BY <2>3
      <4> QED BY <2>5, <3>2, <4>1
    <3> QED BY <2>6, <3>1, <3>2
  <2> QED BY <2>2, <2>7 DEF Of
<1> QED BY <1>4, <1>5, <1>6, <1>7, <1>8 DEF StreamsPartition

-----------------------------------------------------------------------------
(* The theorems.                                                           *)

\* Whatever is asked for and whatever fails, the loops of a call are where their
\* counters say, the domains they have made cover the cards up to there, and the
\* streams they have made are those before the one at hand.
THEOREM AppInitInvariant == AISpec => []AIInv
<1>1. AIInit => AIInv
  BY InitInv
<1>2. AIInv /\ [AINext]_aiVars => AIInv'
  BY AppInitStep
<1> QED BY <1>1, <1>2, PTL DEF AISpec

\* As long as no call has failed, app_init never asks StreamCreate for an id that a
\* stream of this or an earlier call has, for any cards, domains and places.
THEOREM FreshIDs == AISpec => []FreshStreamIDs
<1>1. AIInv => FreshStreamIDs
  BY StreamIsNew DEF FreshStreamIDs
<1> QED BY <1>1, AppInitInvariant, PTL

\* The logical domains that app_init_domains makes share out all threads of every
\* card it uses, without overlap, and their numbers differ by one at most.
THEOREM DomainsShared == AISpec => []DomainsPartition
<1>1. AIInv => DomainsPartition
  BY PartitionHolds
<1> QED BY <1>1, AppInitInvariant, PTL

\* A call that returns before any has failed has made the streams it was asked for,
\* and no others, each in its domain; places share out the threads of each domain.
THEOREM StreamsShared == AISpec => []StreamsPartition
<1>1. AIInv => StreamsPartition
  BY StreamsHold
<1> QED BY <1>1, AppInitInvariant, PTL

-----------------------------------------------------------------------------
(* Recursion: the functions defined by it are what their equations say.    *)

\* There is a function that compiles the first commands, however many they are:
\* the least number of commands without one would have one.
LEMMA CompiledExists ==
  ASSUME NEW p, NEW n \in Nat
  PROVE  \E f : f = [i \in 0..n |->
                      IF i = 0 THEN <<>>
                      ELSE Append(f[i - 1], CompileNext(p, f[i - 1]))]
<1> DEFINE Grow(i, earlier) == Append(earlier, CompileNext(p, earlier))
           first == <<>>
           Solves(f, k) == f = [i \in 0..k |-> IF i = 0 THEN first ELSE Grow(i, f[i - 1])]
           Bad == {k \in Nat : ~\E f : Solves(f, k)}
<1> HIDE DEF Grow, first
<1>1. ASSUME Bad # {} PROVE FALSE
  <2>1. PICK k \in Bad : \A j \in Bad : k <= j
    <3>1. Bad \in SUBSET Nat
      OBVIOUS
    <3> HIDE DEF Bad
    <3> QED BY <1>1, <3>1, Least
  <2>2. k # 0
    <3>1. Solves([i \in 0..0 |-> first], 0)
      OBVIOUS
    <3> QED BY <2>1, <3>1
  <2>3. k - 1 \in Nat /\ k - 1 \notin Bad
    <3>1. k \in Nat
      BY <2>1
    <3>2. k - 1 \in Nat /\ ~(k <= k - 1)
      BY <2>2, <3>1
    <3> HIDE DEF Bad
    <3> QED BY <2>1, <3>2
  <2>4. PICK f : Solves(f, k - 1)
    BY <2>3
  <2> DEFINE g == [i \in 0..k |-> IF i = k THEN Grow(k, f[k - 1]) ELSE f[i]]
  <2>5. \A i \in 0..(k - 1) : f[i] = IF i = 0 THEN first ELSE Grow(i, f[i - 1])
    BY <2>4
  <2>6. \A i \in 0..k : g[i] = IF i = 0 THEN first ELSE Grow(i, g[i - 1])
    <3> SUFFICES ASSUME NEW i \in 0..k
                 PROVE  g[i] = IF i = 0 THEN first ELSE Grow(i, g[i - 1])
      OBVIOUS
    <3>1. CASE i = k
      BY <2>1, <2>2, <3>1
    <3>2. CASE i # k
      <4>1. i \in 0..(k - 1) /\ g[i] = f[i]
            /\ (i # 0 => i - 1 \in 0..k /\ i - 1 # k /\ g[i - 1] = f[i - 1])
        BY <2>1, <3>2
      <4> QED BY <2>5, <4>1
    <3> QED BY <3>1, <3>2
  <2>7. Solves(g, k)
    BY <2>6
  <2> QED BY <2>1, <2>7
<1>2. \E f : Solves(f, n)
  BY <1>1
<1> QED BY <1>2 DEF Grow, first

\* So CompiledUpto is what its equation says.
LEMMA CompiledIs ==
  ASSUME NEW p, Len(p.commands) \in Nat
  PROVE  LET f == CompiledUpto(p)
         IN /\ f[0] = <<>>
            /\ \A i \in 1..Len(p.commands) :
                 f[i] = Append(f[i - 1], CompileNext(p, f[i - 1]))
<1> DEFINE n == Len(p.commands)
           f == CompiledUpto(p)
<1>1. \E g : g = [i \in 0..n |->
                   IF i = 0 THEN <<>>
                   ELSE Append(g[i - 1], CompileNext(p, g[i - 1]))]
  BY CompiledExists
<1>2. f = [i \in 0..n |->
            IF i = 0 THEN <<>>
            ELSE Append(f[i - 1], CompileNext(p, f[i - 1]))]
  BY <1>1 DEF CompiledUpto
<1>3. n \in Nat
  OBVIOUS
<1> HIDE DEF f, n
<1>4. f[0] = <<>>
  BY <1>2, <1>3
<1>5. ASSUME NEW i \in 1..n
      PROVE  f[i] = Append(f[i - 1], CompileNext(p, f[i - 1]))
  <2>1. i \in 0..n /\ i # 0
    BY <1>3
  <2> QED BY <1>2, <2>1
<1> QED BY <1>4, <1>5 DEF f, n

\* There is one that lists what precedes the first commands.
LEMMA PrecedingExists ==
  ASSUME NEW p, NEW n \in Nat
  PROVE  \E f : f = [i \in 0..n |->
                      IF i = 0 THEN <<>>
                      ELSE Append(f[i - 1], WithPast(f[i - 1], Awaited(p, i)))]
<1> DEFINE Grow(i, earlier) == Append(earlier, WithPast(earlier, Awaited(p, i)))
           first == <<>>
           Solves(f, k) == f = [i \in 0..k |-> IF i = 0 THEN first ELSE Grow(i, f[i - 1])]
           Bad == {k \in Nat : ~\E f : Solves(f, k)}
<1> HIDE DEF Grow, first
<1>1. ASSUME Bad # {} PROVE FALSE
  <2>1. PICK k \in Bad : \A j \in Bad : k <= j
    <3>1. Bad \in SUBSET Nat
      OBVIOUS
    <3> HIDE DEF Bad
    <3> QED BY <1>1, <3>1, Least
  <2>2. k # 0
    <3>1. Solves([i \in 0..0 |-> first], 0)
      OBVIOUS
    <3> QED BY <2>1, <3>1
  <2>3. k - 1 \in Nat /\ k - 1 \notin Bad
    <3>1. k \in Nat
      BY <2>1
    <3>2. k - 1 \in Nat /\ ~(k <= k - 1)
      BY <2>2, <3>1
    <3> HIDE DEF Bad
    <3> QED BY <2>1, <3>2
  <2>4. PICK f : Solves(f, k - 1)
    BY <2>3
  <2> DEFINE g == [i \in 0..k |-> IF i = k THEN Grow(k, f[k - 1]) ELSE f[i]]
  <2>5. \A i \in 0..(k - 1) : f[i] = IF i = 0 THEN first ELSE Grow(i, f[i - 1])
    BY <2>4
  <2>6. \A i \in 0..k : g[i] = IF i = 0 THEN first ELSE Grow(i, g[i - 1])
    <3> SUFFICES ASSUME NEW i \in 0..k
                 PROVE  g[i] = IF i = 0 THEN first ELSE Grow(i, g[i - 1])
      OBVIOUS
    <3>1. CASE i = k
      BY <2>1, <2>2, <3>1
    <3>2. CASE i # k
      <4>1. i \in 0..(k - 1) /\ g[i] = f[i]
            /\ (i # 0 => i - 1 \in 0..k /\ i - 1 # k /\ g[i - 1] = f[i - 1])
        BY <2>1, <3>2
      <4> QED BY <2>5, <4>1
    <3> QED BY <3>1, <3>2
  <2>7. Solves(g, k)
    BY <2>6
  <2> QED BY <2>1, <2>7
<1>2. \E f : Solves(f, n)
  BY <1>1
<1> QED BY <1>2 DEF Grow, first

\* So PrecedingUpto is what its equation says.
LEMMA PrecedingUptoIs ==
  ASSUME NEW p, Len(p.commands) \in Nat
  PROVE  LET f == PrecedingUpto(p)
         IN /\ f[0] = <<>>
            /\ \A i \in 1..Len(p.commands) :
                 f[i] = Append(f[i - 1], WithPast(f[i - 1], Awaited(p, i)))
<1> DEFINE n == Len(p.commands)
           f == PrecedingUpto(p)
<1>1. \E g : g = [i \in 0..n |->
                   IF i = 0 THEN <<>>
                   ELSE Append(g[i - 1], WithPast(g[i - 1], Awaited(p, i)))]
  BY PrecedingExists
<1>2. f = [i \in 0..n |->
            IF i = 0 THEN <<>>
            ELSE Append(f[i - 1], WithPast(f[i - 1], Awaited(p, i)))]
  BY <1>1 DEF PrecedingUpto
<1>3. n \in Nat
  OBVIOUS
<1> HIDE DEF f, n
<1>4. f[0] = <<>>
  BY <1>2, <1>3
<1>5. ASSUME NEW i \in 1..n
      PROVE  f[i] = Append(f[i - 1], WithPast(f[i - 1], Awaited(p, i)))
  <2>1. i \in 0..n /\ i # 0
    BY <1>3
  <2> QED BY <1>2, <2>1
<1> QED BY <1>4, <1>5 DEF f, n

\* There is one that lists the memories before and after the first commands.
LEMMA RunExists ==
  ASSUME NEW p, NEW n \in Nat
  PROVE  \E f : f = [i \in 0..n |->
                      IF i = 0 THEN <<InitialMemory(p)>>
                      ELSE Append(f[i - 1], SequentiallyNext(p.commands[i], f[i - 1][i]))]
<1> DEFINE Grow(i, earlier) == Append(earlier, SequentiallyNext(p.commands[i], earlier[i]))
           first == <<InitialMemory(p)>>
           Solves(f, k) == f = [i \in 0..k |-> IF i = 0 THEN first ELSE Grow(i, f[i - 1])]
           Bad == {k \in Nat : ~\E f : Solves(f, k)}
<1> HIDE DEF Grow, first
<1>1. ASSUME Bad # {} PROVE FALSE
  <2>1. PICK k \in Bad : \A j \in Bad : k <= j
    <3>1. Bad \in SUBSET Nat
      OBVIOUS
    <3> HIDE DEF Bad
    <3> QED BY <1>1, <3>1, Least
  <2>2. k # 0
    <3>1. Solves([i \in 0..0 |-> first], 0)
      OBVIOUS
    <3> QED BY <2>1, <3>1
  <2>3. k - 1 \in Nat /\ k - 1 \notin Bad
    <3>1. k \in Nat
      BY <2>1
    <3>2. k - 1 \in Nat /\ ~(k <= k - 1)
      BY <2>2, <3>1
    <3> HIDE DEF Bad
    <3> QED BY <2>1, <3>2
  <2>4. PICK f : Solves(f, k - 1)
    BY <2>3
  <2> DEFINE g == [i \in 0..k |-> IF i = k THEN Grow(k, f[k - 1]) ELSE f[i]]
  <2>5. \A i \in 0..(k - 1) : f[i] = IF i = 0 THEN first ELSE Grow(i, f[i - 1])
    BY <2>4
  <2>6. \A i \in 0..k : g[i] = IF i = 0 THEN first ELSE Grow(i, g[i - 1])
    <3> SUFFICES ASSUME NEW i \in 0..k
                 PROVE  g[i] = IF i = 0 THEN first ELSE Grow(i, g[i - 1])
      OBVIOUS
    <3>1. CASE i = k
      BY <2>1, <2>2, <3>1
    <3>2. CASE i # k
      <4>1. i \in 0..(k - 1) /\ g[i] = f[i]
            /\ (i # 0 => i - 1 \in 0..k /\ i - 1 # k /\ g[i - 1] = f[i - 1])
        BY <2>1, <3>2
      <4> QED BY <2>5, <4>1
    <3> QED BY <3>1, <3>2
  <2>7. Solves(g, k)
    BY <2>6
  <2> QED BY <2>1, <2>7
<1>2. \E f : Solves(f, n)
  BY <1>1
<1> QED BY <1>2 DEF Grow, first

\* So SequentialRunUpto is what its equation says.
LEMMA RunIs ==
  ASSUME NEW p, Len(p.commands) \in Nat
  PROVE  LET f == SequentialRunUpto(p)
         IN /\ f[0] = <<InitialMemory(p)>>
            /\ \A i \in 1..Len(p.commands) :
                 f[i] = Append(f[i - 1], SequentiallyNext(p.commands[i], f[i - 1][i]))
<1> DEFINE n == Len(p.commands)
           f == SequentialRunUpto(p)
<1>1. \E g : g = [i \in 0..n |->
                   IF i = 0 THEN <<InitialMemory(p)>>
                   ELSE Append(g[i - 1], SequentiallyNext(p.commands[i], g[i - 1][i]))]
  BY RunExists
<1>2. f = [i \in 0..n |->
            IF i = 0 THEN <<InitialMemory(p)>>
            ELSE Append(f[i - 1], SequentiallyNext(p.commands[i], f[i - 1][i]))]
  BY <1>1 DEF SequentialRunUpto
<1>3. n \in Nat
  OBVIOUS
<1> HIDE DEF f, n
<1>4. f[0] = <<InitialMemory(p)>>
  BY <1>2, <1>3
<1>5. ASSUME NEW i \in 1..n
      PROVE  f[i] = Append(f[i - 1], SequentiallyNext(p.commands[i], f[i - 1][i]))
  <2>1. i \in 0..n /\ i # 0
    BY <1>3
  <2> QED BY <1>2, <2>1
<1> QED BY <1>4, <1>5 DEF f, n

\* A sequence that grows by one element at a time keeps those it has.
Grows(f, n, base, x) == f[0] = base /\ \A i \in 1..n : f[i] = Append(f[i - 1], x[i])

Grown(f, n, S, base, x) ==
  \A i \in 0..n :
    /\ f[i] \in Seq(S) /\ Len(f[i]) = Len(base) + i
    /\ \A j \in 1..Len(base) : f[i][j] = base[j]
    /\ \A j \in 1..i : f[i][Len(base) + j] = x[j]

LEMMA Growing ==
  ASSUME NEW n \in Nat, NEW S, NEW x \in [1..n -> S], NEW base \in Seq(S), NEW f,
         Grows(f, n, base, x)
  PROVE  Grown(f, n, S, base, x)
<1> USE DEF Grows
<1> DEFINE Good(i) ==  /\ f[i] \in Seq(S) /\ Len(f[i]) = Len(base) + i
                       /\ \A j \in 1..Len(base) : f[i][j] = base[j]
                       /\ \A j \in 1..i : f[i][Len(base) + j] = x[j]
           Bad == {i \in 0..n : ~Good(i)}
<1>1. Len(base) \in Nat
  OBVIOUS
<1>2. Good(0)
  BY <1>1
<1>3. ASSUME Bad # {} PROVE FALSE
  <2>1. PICK i \in Bad : \A k \in Bad : i <= k
    <3>1. Bad \in SUBSET Nat
      OBVIOUS
    <3> HIDE DEF Bad
    <3> QED BY <1>3, <3>1, Least
  <2>2. i # 0
    BY <1>2, <2>1
  <2>3. i \in 1..n /\ i - 1 \in 0..n /\ ~(i <= i - 1)
    BY <2>1, <2>2
  <2>4. Good(i - 1)
    BY <2>1, <2>3
  <2> DEFINE s == f[i - 1]
  <2>5. f[i] = Append(s, x[i]) /\ x[i] \in S
    BY <2>3
  <2>6. s \in Seq(S) /\ Len(s) = Len(base) + (i - 1)
    BY <2>4
  <2>7. /\ f[i] \in Seq(S) /\ Len(f[i]) = Len(base) + i
        /\ \A j \in 1..Len(s) : f[i][j] = s[j]
        /\ f[i][Len(s) + 1] = x[i]
    <3> HIDE DEF s
    <3>1. /\ Append(s, x[i]) \in Seq(S) /\ Len(Append(s, x[i])) = Len(s) + 1
          /\ \A j \in 1..Len(s) : Append(s, x[i])[j] = s[j]
          /\ Append(s, x[i])[Len(s) + 1] = x[i]
      BY <2>5, <2>6
    <3> QED BY <1>1, <2>3, <2>5, <2>6, <3>1
  <2>8. \A j \in 1..Len(base) : f[i][j] = base[j]
    <3>1. \A j \in 1..Len(base) : j \in 1..Len(s) /\ s[j] = base[j]
      BY <1>1, <2>3, <2>4, <2>6
    <3> QED BY <2>7, <3>1
  <2>9. ASSUME NEW j \in 1..i PROVE f[i][Len(base) + j] = x[j]
    <3>1. CASE j = i
      <4>1. Len(base) + j = Len(s) + 1
        BY <1>1, <2>3, <2>6, <3>1
      <4> QED BY <2>7, <3>1, <4>1
    <3>2. CASE j # i
      <4>1. j \in 1..(i - 1) /\ Len(base) + j \in 1..Len(s)
        BY <1>1, <2>3, <2>6, <3>2
      <4> QED BY <2>4, <2>7, <4>1
    <3> QED BY <3>1, <3>2
  <2> QED BY <2>1, <2>7, <2>8, <2>9
<1> QED BY <1>3 DEF Grown

\* The commands of a compiled text: each is compiled from the text and those before.
LEMMA CompiledCommands ==
  ASSUME NEW p, Len(p.commands) \in Nat
  PROVE  LET C == Compile(p).commands
             n == Len(p.commands)
         IN /\ Len(C) = n /\ DOMAIN C = 1..n
            /\ \A i \in 1..n :
                 \E earlier : /\ C[i] = CompileNext(p, earlier) /\ Len(earlier) = i - 1
                              /\ \A j \in 1..(i - 1) : earlier[j] = C[j]
<1> DEFINE n == Len(p.commands)
           f == CompiledUpto(p)
           x == [i \in 1..n |-> CompileNext(p, f[i - 1])]
           S == {x[i] : i \in 1..n}
<1>1. f[0] = <<>> /\ \A i \in 1..n : f[i] = Append(f[i - 1], x[i])
  BY CompiledIs
<1>2. x \in [1..n -> S] /\ <<>> \in Seq(S) /\ Len(<<>>) = 0 /\ n \in Nat
  OBVIOUS
<1>3. \A i \in 1..n : x[i] = CompileNext(p, f[i - 1])
  OBVIOUS
<1>4. Compile(p).commands = f[n]
  BY DEF Compile
<1> DEFINE base == <<>>
<1> HIDE DEF f, x, S, n
<1>5. \A i \in 0..n :
           /\ f[i] \in Seq(S) /\ Len(f[i]) = 0 + i
           /\ \A j \in 1..i : f[i][0 + j] = x[j]
  <2>1. base \in Seq(S) /\ Len(base) = 0 /\ f[0] = base
    BY <1>1, <1>2
  <2> HIDE DEF base
  <2>2. Grows(f, n, base, x)
    BY <1>1, <2>1 DEF Grows
  <2>3. n \in Nat /\ x \in [1..n -> S] /\ base \in Seq(S)
    BY <1>2, <2>1
  <2>4. Grown(f, n, S, base, x)
    BY <2>2, <2>3, Growing
  <2> QED BY <2>1, <2>4 DEF Grown
<1>6. f[n] \in Seq(S) /\ Len(f[n]) = n /\ \A j \in 1..n : f[n][j] = x[j]
  BY <1>2, <1>5
<1>7. DOMAIN f[n] = 1..n
  BY <1>6
<1>8. ASSUME NEW i \in 1..n
      PROVE  /\ f[n][i] = CompileNext(p, f[i - 1]) /\ Len(f[i - 1]) = i - 1
             /\ \A j \in 1..(i - 1) : f[i - 1][j] = f[n][j]
  <2>1. i - 1 \in 0..n /\ 0 + (i - 1) = i - 1 /\ \A j \in 1..(i - 1) : 0 + j = j /\ j \in 1..n
    BY <1>2
  <2> QED BY <1>3, <1>5, <1>6, <2>1
<1>9. \A i \in 1..n :
        \E earlier : /\ f[n][i] = CompileNext(p, earlier) /\ Len(earlier) = i - 1
                     /\ \A j \in 1..(i - 1) : earlier[j] = f[n][j]
  BY <1>8
<1> QED BY <1>4, <1>6, <1>7, <1>9 DEF n

-----------------------------------------------------------------------------
(* Compiled texts.                                                         *)

\* A command waits for earlier actions only, and says what memory it is about.
WellFormed(p) ==
  LET n == Len(p.commands) IN
    /\ n \in Nat /\ DOMAIN p.commands = 1 .. n
    /\ \A i \in 1 .. n :
         LET c == p.commands[i] IN
           /\ \A j \in c.before : j \in 1 .. i - 1 /\ p.commands[j].kind = "action"
           /\ Executes(c) =>
                /\ c.writes = {c.operands[j] : j \in Written(c.f, Len(c.operands))} \cup c.returned
                /\ c.touches = Range(c.operands) \cup c.returned
                /\ c.touches \subseteq Locations(p)
                /\ c.writes \subseteq c.touches
    /\ \A t \in DOMAIN p.expected : <<Source, t>> \in Locations(p)

\* A set of numbers up to a bound has a greatest one.
LEMMA Greatest ==
  ASSUME NEW n \in Nat, NEW S \in SUBSET (0..n), S # {}
  PROVE  \E m \in S : \A k \in S : k <= m
<1>1. \A k \in S : k \in Nat /\ n - k \in Nat
  OBVIOUS
<1> DEFINE T == {n - k : k \in S}
<1>2. T \in SUBSET Nat /\ T # {}
  BY <1>1
<1>3. PICK t \in T : \A u \in T : t <= u
  <2> HIDE DEF T
  <2> QED BY <1>2, Least
<1>4. PICK m \in S : t = n - m
  OBVIOUS
<1>5. \A k \in S : n - m <= n - k
  BY <1>3, <1>4
<1> HIDE DEF T
<1>6. \A k \in S : k <= m
  BY <1>1, <1>5
<1> QED BY <1>6

\* An event that a command waits for stands for an earlier action.
LEMMA SignalledIs ==
  ASSUME NEW p, Sane(p), NEW i \in 1..Len(p.commands), NEW e, e # NoEvent
  PROVE  Signalled(p.commands, i, e) \subseteq {j \in 1..(i - 1) : Enqueues(p.commands[j])}
<1> DEFINE setters == {j \in 1..(i - 1) : p.commands[j].event = e}
           last == CHOOSE j \in setters : \A k \in setters : k <= j
<1>1. Len(p.commands) \in Nat /\ DOMAIN p.commands = 1..Len(p.commands)
  BY DEF Sane
<1>2. ASSUME NEW j \in setters PROVE Enqueues(p.commands[j])
  <2>1. j \in 1..(i - 1) /\ j \in DOMAIN p.commands /\ p.commands[j].event # NoEvent
    BY <1>1
  <2> QED BY <2>1 DEF Sane
<1>3. ASSUME setters # {} PROVE last \in setters
  <2>1. setters \in SUBSET (0..i) /\ i \in Nat
    BY <1>1
  <2>2. \E m \in setters : \A k \in setters : k <= m
    <3> HIDE DEF setters
    <3> QED BY <1>3, <2>1, Greatest
  <2> HIDE DEF setters
  <2> QED BY <2>2
<1>4. Signalled(p.commands, i, e) = IF setters = {} THEN {} ELSE {last}
  BY DEF Signalled
<1>5. \A j \in setters : j \in 1..(i - 1)
  OBVIOUS
<1> HIDE DEF setters, last
<1> QED BY <1>2, <1>3, <1>4, <1>5

\* So are all that a command waits for directly.
LEMMA DirectlyIs ==
  ASSUME NEW p, Sane(p), NEW i \in 1..Len(p.commands)
  PROVE  /\ Named(p, i) \subseteq {j \in 1..(i - 1) : Enqueues(p.commands[j])}
         /\ Directly(p, i) \subseteq {j \in 1..(i - 1) : Enqueues(p.commands[j])}
<1> DEFINE c == p.commands[i]
           earlier == {j \in 1..(i - 1) : Enqueues(p.commands[j])}
<1>1. i \in DOMAIN p.commands
  BY DEF Sane
<1>2. NoEvent \notin c.events
  BY <1>1 DEF Sane
<1>3. Named(p, i) \subseteq earlier
  <2>1. ASSUME NEW e \in c.events PROVE Signalled(p.commands, i, e) \subseteq earlier
    BY <1>2, <2>1, SignalledIs
  <2> QED BY <2>1 DEF Named
<1>4. Enqueues(c) \/ c.op \in {"event wait", "sync", "thread sync", "task"}
  BY <1>1 DEF Sane, Enqueues
<1>5. CASE Enqueues(c)
  <2>1. Directly(p, i) = Named(p, i) \cup
          {j \in earlier : p.commands[j].stream = c.stream /\
                          Promise!MustFollow(ActionRecord(p, p.commands[j]), ActionRecord(p, c))}
    BY <1>5 DEF Directly, Enqueues, Transfers
  <2> HIDE DEF c
  <2> QED BY <1>3, <2>1
<1>6. CASE c.op = "event wait"
  BY <1>3, <1>6 DEF Directly, Enqueues, Transfers
<1>7. CASE c.op = "sync"
  BY <1>3, <1>7 DEF Directly, Enqueues, Transfers
<1>8. CASE c.op = "thread sync"
  BY <1>3, <1>8 DEF Directly, Enqueues, Transfers
<1>9. CASE c.op = "task"
  BY <1>3, <1>9 DEF Directly, Enqueues, Transfers
<1> QED BY <1>3, <1>4, <1>5, <1>6, <1>7, <1>8, <1>9

\* What a command waits for, whatever stands between it and the actions that work.
LEMMA BeforeIs ==
  ASSUME NEW p, Sane(p), NEW i \in 1..Len(p.commands)
  PROVE  LET C == Compile(p).commands
             c == p.commands[i]
         IN /\ C[i].before =
                 UNION {IF Works(p, j) THEN {j} ELSE C[j].before : j \in Directly(p, i)}
            /\ C[i].kind = IF Works(p, i) THEN "action"
                           ELSE IF c.op = "task" THEN "task"
                           ELSE IF Enqueues(c) THEN "passes" ELSE "waits"
            /\ C[i].f = c.f
            /\ C[i].operands = Operands(c, p.place)
            /\ C[i].returned = {<<Source, t>> : t \in Range(c.return)}
            /\ C[i].writes = {C[i].operands[j] : j \in Written(c.f, Len(C[i].operands))}
                               \cup C[i].returned
            /\ C[i].touches = Range(C[i].operands) \cup C[i].returned
<1> DEFINE C == Compile(p).commands
<1>1. Len(p.commands) \in Nat
  BY DEF Sane
<1>2. PICK earlier : /\ C[i] = CompileNext(p, earlier) /\ Len(earlier) = i - 1
                     /\ \A j \in 1..(i - 1) : earlier[j] = C[j]
  BY <1>1, CompiledCommands
<1>3. Len(earlier) + 1 = i
  BY <1>1, <1>2
<1>4. Directly(p, i) \subseteq 1..(i - 1)
  BY DirectlyIs
<1> HIDE DEF C
<1>5. UNION {IF Works(p, j) THEN {j} ELSE earlier[j].before : j \in Directly(p, i)}
        = UNION {IF Works(p, j) THEN {j} ELSE C[j].before : j \in Directly(p, i)}
  BY <1>2, <1>4
<1> DEFINE c == p.commands[i]
           operands == Operands(c, p.place)
           returned == {<<Source, t>> : t \in Range(c.return)}
           kind == IF Works(p, i) THEN "action"
                   ELSE IF c.op = "task" THEN "task"
                   ELSE IF Enqueues(c) THEN "passes" ELSE "waits"
           before == UNION {IF Works(p, j) THEN {j} ELSE C[j].before : j \in Directly(p, i)}
           writes == {operands[j] : j \in Written(c.f, Len(operands))} \cup returned
<1>6. CompileNext(p, earlier) =
        [kind |-> kind, f |-> c.f, operands |-> operands, before |-> before,
         returned |-> returned, writes |-> writes, touches |-> Range(operands) \cup returned]
  BY <1>3, <1>5 DEF CompileNext
<1>7. /\ C[i].before = before /\ C[i].kind = kind /\ C[i].f = c.f /\ C[i].operands = operands
      /\ C[i].returned = returned /\ C[i].writes = writes
      /\ C[i].touches = Range(operands) \cup returned
  <2> HIDE DEF kind, c, operands, before, returned, writes
  <2> QED BY <1>2, <1>6
<1>8. writes = {C[i].operands[j] : j \in Written(c.f, Len(C[i].operands))} \cup C[i].returned
  BY <1>7
<1>9. C[i].touches = Range(C[i].operands) \cup C[i].returned
  BY <1>7
<1> QED BY <1>7, <1>8, <1>9 DEF C

\* Only actions that work are waited for.
LEMMA WaitsForWork ==
  ASSUME NEW p, Sane(p), NEW i \in 1..Len(p.commands), NEW j \in Compile(p).commands[i].before
  PROVE  j \in 1..(i - 1) /\ Works(p, j)
<1> DEFINE n == Len(p.commands)
           C == Compile(p).commands
           Bad == {k \in 1..n : ~\A b \in C[k].before : b \in 1..(k - 1) /\ Works(p, b)}
<1>1. n \in Nat
  BY DEF Sane
<1>2. ASSUME Bad # {} PROVE FALSE
  <2>1. PICK k \in Bad : \A m \in Bad : k <= m
    <3>1. Bad \in SUBSET Nat
      BY <1>1
    <3> HIDE DEF Bad
    <3> QED BY <1>2, <3>1, Least
  <2>2. k \in 1..n
    BY <2>1
  <2>3. PICK b \in C[k].before : ~(b \in 1..(k - 1) /\ Works(p, b))
    BY <2>1
  <2>4. C[k].before = UNION {IF Works(p, m) THEN {m} ELSE C[m].before : m \in Directly(p, k)}
    BY <2>2, BeforeIs
  <2>5. PICK m \in Directly(p, k) : b \in IF Works(p, m) THEN {m} ELSE C[m].before
    <3> HIDE DEF C
    <3> QED BY <2>3, <2>4
  <2>6. m \in 1..(k - 1)
    BY <2>2, <2>5, DirectlyIs
  <2>7. m \in 1..n /\ ~(k <= m)
    BY <1>1, <2>2, <2>6
  <2>8. CASE Works(p, m)
    BY <2>3, <2>5, <2>6, <2>8
  <2>9. CASE ~Works(p, m)
    <3>1. b \in C[m].before
      BY <2>5, <2>9
    <3>2. b \in 1..(m - 1) /\ Works(p, b)
      BY <2>1, <2>7, <3>1
    <3>3. b \in 1..(k - 1)
      BY <1>1, <2>2, <2>6, <3>2
    <3> QED BY <2>3, <3>2, <3>3
  <2> QED BY <2>8, <2>9
<1> QED BY <1>2

\* What a command touches is in the memory of the program, and a kernel writes
\* operands that it has.
LEMMA OperandsAre ==
  ASSUME NEW p, Sane(p), NEW i \in 1..Len(p.commands),
         \/ p.commands[i].op \in Transfers \cup {"compute"}
         \/ p.commands[i].op = "task"
  PROVE  LET c == p.commands[i]
             operands == Operands(c, p.place)
         IN /\ Range(operands) \subseteq (Range(p.place) \cup {Source}) \X DOMAIN p.bufferOf
            /\ Written(c.f, Len(operands)) \subseteq DOMAIN operands
<1> DEFINE c == p.commands[i]
           operands == Operands(c, p.place)
           memory == (Range(p.place) \cup {Source}) \X DOMAIN p.bufferOf
<1>1. /\ c.tiles \in Seq(DOMAIN p.bufferOf)
      /\ Enqueues(c) \/ c.op = "sync" => c.stream \in DOMAIN p.place
      /\ c.op \in Transfers => c.f = "move" /\ Len(c.tiles) = 2
      /\ c.op \in {"compute", "task"} => Written(c.f, Len(c.tiles)) \subseteq DOMAIN c.tiles
  BY DEF Sane
<1>2. c.op \in Transfers \cup {"compute"} => p.place[c.stream] \in Range(p.place)
  BY <1>1 DEF Enqueues, Range
<1>3. \A j \in DOMAIN c.tiles : c.tiles[j] \in DOMAIN p.bufferOf
  BY <1>1
<1>4. CASE c.op \in {"compute", "task"}
  <2> DEFINE at == IF c.op = "compute" THEN p.place[c.stream] ELSE Source
  <2>1. operands = [j \in DOMAIN c.tiles |-> <<at, c.tiles[j]>>]
    BY <1>4 DEF Operands
  <2>2. at \in Range(p.place) \cup {Source}
    BY <1>2, <1>4
  <2> HIDE DEF operands, at
  <2>3. DOMAIN operands = DOMAIN c.tiles
    BY <2>1
  <2>4. Len(operands) = Len(c.tiles)
    <3>1. Len(c.tiles) \in Nat /\ DOMAIN c.tiles = 1..Len(c.tiles)
      BY <1>1
    <3>2. \A j \in 1..Len(c.tiles) : operands[j] \in memory
      BY <1>3, <2>1, <2>2, <3>1
    <3> HIDE DEF memory
    <3>3. operands \in [1..Len(c.tiles) -> memory]
      BY <2>1, <3>1, <3>2
    <3>4. operands \in Seq(memory)
      BY <3>1, <3>3
    <3> QED BY <2>3, <3>1, <3>4
  <2>5. \A j \in DOMAIN operands : operands[j] \in memory
    BY <1>3, <2>1, <2>2
  <2> QED BY <1>1, <1>4, <2>3, <2>4, <2>5 DEF Range, operands
<1>5. CASE c.op \in Transfers
  <2>1. c.f = "move" /\ 1 \in DOMAIN c.tiles /\ 2 \in DOMAIN c.tiles
    BY <1>1, <1>5
  <2>2. \E a, b \in memory : operands = <<a, b>>
    <3>1. c.op = "SRC_TO_SINK" \/ c.op = "SINK_TO_SRC"
      BY <1>5 DEF Transfers
    <3>2. operands = IF c.op = "SRC_TO_SINK"
                     THEN <<<<p.place[c.stream], c.tiles[1]>>, <<Source, c.tiles[2]>>>>
                     ELSE <<<<Source, c.tiles[1]>>, <<p.place[c.stream], c.tiles[2]>>>>
      BY <3>1 DEF Operands
    <3> QED BY <1>2, <1>3, <1>5, <2>1, <3>2
  <2>3. \A k : Written("move", k) = {1}
    BY DEF Written, OnlyReads
  <2>4. Written(c.f, Len(operands)) = {1}
    BY <2>1, <2>3
  <2> QED BY <2>2, <2>4 DEF Range
<1> QED BY <1>4, <1>5

\* A sane text is compiled to a program whose commands wait for earlier work and
\* say what memory they are about.
LEMMA CompiledIsWellFormed ==
  ASSUME NEW p, Sane(p)
  PROVE  WellFormed(Compile(p))
<1> DEFINE n == Len(p.commands)
           C == Compile(p).commands
           places == Range(p.place) \cup {Source}
<1>1. /\ n \in Nat /\ DOMAIN p.commands = 1..n /\ DOMAIN p.expected \subseteq DOMAIN p.bufferOf
  BY DEF Sane
<1>2. Len(C) = n /\ DOMAIN C = 1..n
  BY <1>1, CompiledCommands
<1>3. /\ Compile(p).places = places
      /\ Compile(p).expected = p.expected
      /\ Compile(p).tiles = DOMAIN p.bufferOf
      /\ Locations(Compile(p)) = places \X DOMAIN p.bufferOf
  BY DEF Compile, Locations
<1>4. ASSUME NEW i \in 1..n, NEW j \in C[i].before
      PROVE  j \in 1..(i - 1) /\ C[j].kind = "action"
  <2>1. j \in 1..(i - 1) /\ Works(p, j)
    BY WaitsForWork
  <2>2. j \in 1..n
    BY <1>1, <2>1
  <2> QED BY <2>1, <2>2, BeforeIs
<1>5. ASSUME NEW i \in 1..n, Executes(C[i])
      PROVE  /\ C[i].writes = {C[i].operands[j] : j \in Written(C[i].f, Len(C[i].operands))}
                                \cup C[i].returned
             /\ C[i].touches = Range(C[i].operands) \cup C[i].returned
             /\ C[i].touches \subseteq Locations(Compile(p))
             /\ C[i].writes \subseteq C[i].touches
  <2> DEFINE c == p.commands[i]
             operands == Operands(c, p.place)
  <2>1. C[i].kind \in {"action", "task"}
    BY <1>5 DEF Executes
  <2>2. c.op \in Transfers \cup {"compute"} \/ c.op = "task"
    BY <2>1, BeforeIs DEF Works
  <2>3. /\ Range(operands) \subseteq places \X DOMAIN p.bufferOf
        /\ Written(c.f, Len(operands)) \subseteq DOMAIN operands
    BY <2>2, OperandsAre
  <2>4. C[i].returned \subseteq places \X DOMAIN p.bufferOf
    <3>1. i \in DOMAIN p.commands
      BY <1>1
    <3>2. c.return \in Seq(DOMAIN p.bufferOf)
      BY <3>1 DEF Sane
    <3>3. Range(c.return) \subseteq DOMAIN p.bufferOf
      BY <3>2 DEF Range
    <3>4. C[i].returned = {<<Source, t>> : t \in Range(c.return)}
      BY BeforeIs
    <3> QED BY <3>3, <3>4
  <2>5. /\ C[i].f = c.f /\ C[i].operands = operands
        /\ C[i].writes = {C[i].operands[j] : j \in Written(C[i].f, Len(C[i].operands))}
                           \cup C[i].returned
        /\ C[i].touches = Range(C[i].operands) \cup C[i].returned
    <3>1. /\ C[i].f = c.f /\ C[i].operands = operands
          /\ C[i].writes = {C[i].operands[j] : j \in Written(c.f, Len(C[i].operands))}
                             \cup C[i].returned
          /\ C[i].touches = Range(C[i].operands) \cup C[i].returned
      BY BeforeIs, Zenon
    <3> HIDE DEF c, operands, C
    <3> QED BY <3>1
  <2>6. \A j \in DOMAIN operands : operands[j] \in Range(operands)
    BY DEF Range
  <2> HIDE DEF c, operands, C, places
  <2> QED BY <1>3, <2>3, <2>4, <2>5, <2>6
<1>6. \A t \in DOMAIN p.expected : <<Source, t>> \in Locations(Compile(p))
  BY <1>1, <1>3
<1> QED BY <1>1, <1>2, <1>4, <1>5, <1>6, <1>3 DEF WellFormed

\* What precedes a command is what its own waits and the host's say, and what
\* preceded that.
LEMMA PrecedingIs ==
  ASSUME NEW p, WellFormed(p)
  PROVE  \A i \in 1..Len(p.commands) :
           Preceding(p)[i] = WithPast(Preceding(p), Awaited(p, i))
<1> DEFINE n == Len(p.commands)
           f == PrecedingUpto(p)
           x == [i \in 1..n |-> WithPast(f[i - 1], Awaited(p, i))]
           S == {x[i] : i \in 1..n}
<1>1. n \in Nat
  BY DEF WellFormed
<1>2. f[0] = <<>> /\ \A i \in 1..n : f[i] = Append(f[i - 1], x[i])
  BY <1>1, PrecedingUptoIs
<1>3. x \in [1..n -> S] /\ <<>> \in Seq(S) /\ Len(<<>>) = 0
  OBVIOUS
<1>4. \A i \in 1..n : x[i] = WithPast(f[i - 1], Awaited(p, i))
  OBVIOUS
<1>5. Preceding(p) = f[n]
  BY DEF Preceding
<1> HIDE DEF f, x, S, n
<1>6. \A i \in 0..n : \A j \in 1..i : f[i][0 + j] = x[j]
  <2> DEFINE base == <<>>
  <2>1. base \in Seq(S) /\ Len(base) = 0 /\ f[0] = base
    BY <1>2, <1>3
  <2> HIDE DEF base
  <2>2. Grows(f, n, base, x)
    BY <1>2, <2>1 DEF Grows
  <2>3. n \in Nat /\ x \in [1..n -> S] /\ base \in Seq(S)
    BY <1>1, <1>3, <2>1
  <2>4. Grown(f, n, S, base, x)
    BY <2>2, <2>3, Growing
  <2> QED BY <2>1, <2>4 DEF Grown
<1> SUFFICES ASSUME NEW i \in 1..n PROVE f[n][i] = WithPast(f[n], Awaited(p, i))
  BY <1>5 DEF n
<1>7. Awaited(p, i) \subseteq 1..(i - 1)
  <2>1. \A k \in 1..n : \A j \in p.commands[k].before : j \in 1..(k - 1)
    BY DEF WellFormed, n
  <2>2. \A k \in 1..(i - 1) : k \in 1..n /\ 1..(k - 1) \subseteq 1..(i - 1)
    BY <1>1
  <2> QED BY <2>1, <2>2 DEF Awaited, HostKnows
<1>8. i - 1 \in 0..n /\ n \in 0..n /\ \A j \in 1..(i - 1) : 0 + j = j /\ j \in 1..n
  BY <1>1
<1>9. \A j \in 1..(i - 1) : f[i - 1][j] = f[n][j]
  BY <1>6, <1>8
<1>10. f[n][i] = WithPast(f[i - 1], Awaited(p, i))
  BY <1>1, <1>4, <1>6, <1>8
<1> QED BY <1>7, <1>9, <1>10 DEF WithPast

\* The sequential run goes from one memory to the next as its commands say.
LEMMA SequentialRunIs ==
  ASSUME NEW p, Len(p.commands) \in Nat
  PROVE  /\ SequentialRun(p)[1] = InitialMemory(p)
         /\ \A i \in 1..Len(p.commands) :
              SequentialRun(p)[i + 1] = SequentiallyNext(p.commands[i], SequentialRun(p)[i])
<1> DEFINE n == Len(p.commands)
           f == SequentialRunUpto(p)
           first == InitialMemory(p)
           x == [i \in 1..n |-> SequentiallyNext(p.commands[i], f[i - 1][i])]
           S == {x[i] : i \in 1..n} \cup {first}
<1>1. n \in Nat
  OBVIOUS
<1>2. f[0] = <<first>> /\ \A i \in 1..n : f[i] = Append(f[i - 1], x[i])
  BY <1>1, RunIs
<1>3. x \in [1..n -> S] /\ <<first>> \in Seq(S) /\ Len(<<first>>) = 1 /\ <<first>>[1] = first
  OBVIOUS
<1>4. \A i \in 1..n : x[i] = SequentiallyNext(p.commands[i], f[i - 1][i])
  OBVIOUS
<1>5. SequentialRun(p) = f[n]
  BY DEF SequentialRun
<1> HIDE DEF f, x, S, n, first
<1>6. \A i \in 0..n : /\ \A j \in 1..1 : f[i][j] = <<first>>[j]
                      /\ \A j \in 1..i : f[i][1 + j] = x[j]
  <2> DEFINE base == <<first>>
  <2>1. base \in Seq(S) /\ Len(base) = 1 /\ f[0] = base
    BY <1>2, <1>3
  <2> HIDE DEF base
  <2>2. Grows(f, n, base, x)
    BY <1>2, <2>1 DEF Grows
  <2>3. n \in Nat /\ x \in [1..n -> S] /\ base \in Seq(S)
    BY <1>1, <1>3, <2>1
  <2>4. Grown(f, n, S, base, x)
    BY <2>2, <2>3, Growing
  <2>5. \A i \in 0..n : /\ \A j \in 1..1 : f[i][j] = base[j]
                        /\ \A j \in 1..i : f[i][1 + j] = x[j]
    BY <2>1, <2>4 DEF Grown
  <2> QED BY <2>5 DEF base
<1>7. \A i \in 0..n : f[i][1] = first
  BY <1>3, <1>6
<1>8. ASSUME NEW i \in 1..n PROVE f[n][i + 1] = SequentiallyNext(p.commands[i], f[n][i])
  <2>1. i - 1 \in 0..n /\ n \in 0..n /\ 1 + i = i + 1
    BY <1>1
  <2>2. f[n][i + 1] = SequentiallyNext(p.commands[i], f[i - 1][i])
    BY <1>4, <1>6, <2>1
  <2>3. f[i - 1][i] = f[n][i]
    <3>1. CASE i = 1
      BY <1>7, <2>1, <3>1
    <3>2. CASE i # 1
      <4>1. i - 1 \in 1..n /\ i - 1 \in 1..(i - 1) /\ 1 + (i - 1) = i
        BY <1>1, <3>2
      <4> QED BY <1>6, <2>1, <4>1
    <3> QED BY <3>1, <3>2
  <2> QED BY <2>2, <2>3
<1> QED BY <1>1, <1>5, <1>7, <1>8 DEF n, first

-----------------------------------------------------------------------------
(* The client: what the library knows of the program that runs.            *)

AllSane == \A n \in DOMAIN Texts : Sane(Texts[n])

\* The text has how many commands, which of them the host has enqueued, and what it
\* told the library of each.
Lines == Len(text.commands)
Asked == {i \in 1..Lines : i < pc /\ Enqueues(text.commands[i])}
Told(i) == [ActionRecord(text, text.commands[i]) EXCEPT !.events = Named(text, i)]
Before(i) == {j \in 1..(i - 1) : Enqueues(text.commands[j])
                                 /\ text.commands[j].stream = text.commands[i].stream}

\* The library knows what the host has asked for, and what does no work of its own
\* has passed on what held it back.
ClientInv ==
  /\ chosen \in DOMAIN Texts
  /\ pc \in 1..(Lines + 1)
  /\ DOMAIN action = AllEvents /\ DOMAIN prior = AllEvents
  /\ Library!Enqueued = Asked
  /\ \A i \in Asked : action[i] = Told(i) /\ prior[i] = Before(i)
  /\ signalled \subseteq Asked
  /\ done = {i \in signalled : Works(text, i)}
  /\ \A i \in signalled : Works(text, i) \/ Commands[i].before \subseteq done

\* What is known of the text that runs.
LEMMA ChosenText ==
  ASSUME AllSane, chosen \in DOMAIN Texts
  PROVE  /\ Sane(text) /\ program = Compile(text)
         /\ Lines \in Nat /\ DOMAIN text.commands = 1..Lines
         /\ Len(Commands) = Lines /\ DOMAIN Commands = 1..Lines
         /\ 1..Lines \subseteq AllEvents
<1>1. program = Compile(Texts[chosen])
  BY DEF program, Programs, Compiled
<1>2. text = Texts[chosen]
  BY <1>1 DEF text, Compile
<1>3. Sane(text) /\ program = Compile(text)
  BY <1>1, <1>2 DEF AllSane
<1>4. Lines \in Nat /\ DOMAIN text.commands = 1..Lines
  BY <1>3 DEF Sane, Lines
<1>5. Len(Commands) = Lines /\ DOMAIN Commands = 1..Lines
  BY <1>3, <1>4, CompiledCommands DEF Commands, Lines
<1>6. 1..Lines \subseteq AllEvents
  BY <1>2, <1>4 DEF AllEvents, Range
<1> QED BY <1>3, <1>4, <1>5, <1>6

\* What the library is told of an action: its stream, and that it leaves a trace
\* there unless it moves nothing.
LEMMA RecordIs ==
  ASSUME NEW p, NEW c, Enqueues(c)
  PROVE  LET a == ActionRecord(p, c)
         IN /\ a = [op |-> a.op, stream |-> c.stream, in |-> a.in, out |-> a.out,
                    ins |-> a.ins, outs |-> a.outs, events |-> {}]
            /\ a.out = "NONE" <=> Elided(c, p.place)
<1> DEFINE bufs == {<<o[1], p.bufferOf[o[2]]>> : o \in Range(Operands(c, p.place))}
           named == {<<p.place[c.stream], p.bufferOf[t]>> : t \in Range(c.tiles)}
           all == {<<p.place[c.stream], p.bufferOf[t]>> : t \in DOMAIN p.bufferOf}
           written == {<<Operands(c, p.place)[1][1], p.bufferOf[Operands(c, p.place)[1][2]]>>}
           Record(op, in, out, ins, outs) ==
             [op |-> op, stream |-> c.stream, in |-> in, out |-> out,
              ins |-> ins, outs |-> outs, events |-> {}]
<1>1. CASE c.op = "compute"
  <2>1. ~Elided(c, p.place)
    BY <1>1 DEF Elided, Transfers
  <2>2. ActionRecord(p, c) = Record("compute", "IS_COMPUTE", "IS_COMPUTE", bufs, bufs)
    BY <1>1, <2>1, Zenon DEF ActionRecord, Transfers
  <2> HIDE DEF bufs
  <2> QED BY <2>1, <2>2
<1>2. CASE c.op \in Transfers /\ Elided(c, p.place)
  <2>1. ActionRecord(p, c) = Record("elided", "IS_XFER", "NONE", bufs, {})
    BY <1>2, Zenon DEF ActionRecord, Transfers
  <2> HIDE DEF bufs
  <2> QED BY <1>2, <2>1
<1>3. CASE c.op \in Transfers /\ ~Elided(c, p.place)
  <2>1. ActionRecord(p, c) = Record("transfer", "IS_XFER", "IS_XFER", bufs, written)
    BY <1>3, Zenon DEF ActionRecord, Transfers
  <2> HIDE DEF bufs, written
  <2> QED BY <1>3, <2>1
<1>4. CASE c.op = "wait"
  <2>1. ~Elided(c, p.place)
    BY <1>4 DEF Elided, Transfers
  <2>2. CASE c.tiles = <<>>
    <3>1. ActionRecord(p, c) = Record("wait", "IS_BARRIER", "IS_BARRIER", {}, all)
      BY <1>4, <2>1, <2>2, Zenon DEF ActionRecord, Transfers
    <3> HIDE DEF all
    <3> QED BY <2>1, <3>1
  <2>3. CASE c.tiles # <<>>
    <3>1. ActionRecord(p, c) = Record("wait", "IS_XFER", "IS_XFER", named, named)
      BY <1>4, <2>1, <2>3, Zenon DEF ActionRecord, Transfers
    <3> HIDE DEF named
    <3> QED BY <2>1, <3>1
  <2> QED BY <2>2, <2>3
<1> QED BY <1>1, <1>2, <1>3, <1>4 DEF Enqueues

\* What the library is told says what the program's own record does, and the events.
LEMMA ToldIs ==
  ASSUME NEW i, Enqueues(text.commands[i])
  PROVE  LET a == ActionRecord(text, text.commands[i])
         IN /\ Told(i).stream = text.commands[i].stream
            /\ Told(i).in = a.in /\ Told(i).out = a.out
            /\ Told(i).ins = a.ins /\ Told(i).outs = a.outs
            /\ Told(i).events = Named(text, i)
            /\ Library!Tracked(Told(i)) <=> ~Elided(text.commands[i], text.place)
<1> DEFINE a == ActionRecord(text, text.commands[i])
<1>1. /\ a = [op |-> a.op, stream |-> text.commands[i].stream, in |-> a.in, out |-> a.out,
              ins |-> a.ins, outs |-> a.outs, events |-> {}]
      /\ a.out = "NONE" <=> Elided(text.commands[i], text.place)
  BY RecordIs
<1>2. Told(i) = [a EXCEPT !.events = Named(text, i)]
  BY DEF Told
<1> HIDE DEF a
<1>3. Told(i) = [op |-> a.op, stream |-> text.commands[i].stream, in |-> a.in, out |-> a.out,
                 ins |-> a.ins, outs |-> a.outs, events |-> Named(text, i)]
  BY <1>1, <1>2
<1> QED BY <1>1, <1>3 DEF Library!Tracked, a

\* When the actions a command waits for are signalled, what holds it back is done.
LEMMA Covered ==
  ASSUME AllSane, ClientInv, NEW i \in 1..Lines, Directly(text, i) \subseteq signalled
  PROVE  Commands[i].before \subseteq done
<1>1. Sane(text) /\ Commands = Compile(text).commands
  BY ChosenText DEF ClientInv, Commands
<1>2. Commands[i].before =
        UNION {IF Works(text, j) THEN {j} ELSE Commands[j].before : j \in Directly(text, i)}
  BY <1>1, BeforeIs DEF Lines
<1>3. \A j \in Directly(text, i) :
        IF Works(text, j) THEN j \in done ELSE Commands[j].before \subseteq done
  BY DEF ClientInv
<1> QED BY <1>2, <1>3

\* The kind of a command is what its operation makes it.
LEMMA KindIs ==
  ASSUME AllSane, ClientInv, NEW i \in 1..Lines
  PROVE  /\ Enqueues(text.commands[i]) <=> Commands[i].kind \in {"action", "passes"}
         /\ Commands[i].kind = "action" <=> Works(text, i)
         /\ Commands[i].kind = "task" <=> text.commands[i].op = "task"
         /\ Works(text, i) => Enqueues(text.commands[i])
<1>1. Sane(text) /\ Commands = Compile(text).commands
  BY ChosenText DEF ClientInv, Commands
<1>2. Commands[i].kind = IF Works(text, i) THEN "action"
                         ELSE IF text.commands[i].op = "task" THEN "task"
                         ELSE IF Enqueues(text.commands[i]) THEN "passes" ELSE "waits"
  BY <1>1, BeforeIs DEF Lines
<1>3. Works(text, i) => Enqueues(text.commands[i])
  BY DEF Works, Enqueues, Transfers
<1>4. text.commands[i].op = "task" => ~Enqueues(text.commands[i])
  BY DEF Enqueues, Transfers
<1> QED BY <1>2, <1>3, <1>4

\* The host's calls are the commands of the compiled program: enqueues,
LEMMA EnqueueIssues ==
  ASSUME AllSane, ClientInv, Enqueue
  PROVE  Issue
<1>1. pc \in 1..Lines /\ DOMAIN Commands = 1..Lines /\ Enqueues(text.commands[pc])
  BY ChosenText DEF ClientInv, Enqueue, At, Enqueues
<1>2. Commands[pc].kind \in {"action", "passes"}
  BY <1>1, KindIs
<1> QED BY <1>1, <1>2 DEF Issue, Enqueue, CallDone

\* waits for events,
LEMMA EventWaitIssues ==
  ASSUME AllSane, ClientInv, EventWait
  PROVE  Issue
<1>1. pc \in 1..Lines /\ DOMAIN Commands = 1..Lines /\ text.commands[pc].op = "event wait"
  BY ChosenText DEF ClientInv, EventWait, At
<1>2. Directly(text, pc) = Named(text, pc)
  BY <1>1 DEF Directly, Enqueues, Transfers
<1>3. Commands[pc].before \subseteq done
  BY <1>1, <1>2, Covered DEF EventWait
<1>4. Commands[pc].kind # "task"
  BY <1>1, KindIs
<1> QED BY <1>1, <1>3, <1>4 DEF Issue, EventWait, CallDone

\* and synchronisations.
LEMMA ReturnIssues ==
  ASSUME AllSane, ClientInv, SyncReturns
  PROVE  Issue
<1>1. /\ pc \in 1..Lines /\ DOMAIN Commands = 1..Lines /\ Sane(text) /\ Lines \in Nat
      /\ DOMAIN text.commands = 1..Lines
      /\ text.commands[pc].op \in {"sync", "thread sync"}
  BY ChosenText DEF ClientInv, SyncReturns, At
<1>2. Library!Quiet(Synchronized)
  BY DEF SyncReturns, Library!Return
<1>3. ASSUME NEW j \in Directly(text, pc) PROVE j \in signalled
  <2> DEFINE c == text.commands[pc]
             earlier == {k \in 1..(pc - 1) : Enqueues(text.commands[k])}
  <2>1. Directly(text, pc) =
          IF c.op = "sync"
          THEN {k \in earlier : text.commands[k].stream = c.stream
                                 /\ ~Elided(text.commands[k], text.place)}
          ELSE {k \in earlier : ~Elided(text.commands[k], text.place)}
    <3>1. ~Enqueues(c)
      BY <1>1 DEF Enqueues, Transfers
    <3> QED BY <1>1, <3>1 DEF Directly
  <2>2. j \in earlier /\ ~Elided(text.commands[j], text.place)
    BY <1>3, <2>1
  <2>3. j \in Asked
    <3>1. j \in 1..(pc - 1) /\ Enqueues(text.commands[j])
      BY <2>2
    <3>2. pc \in 1..Lines /\ Lines \in Nat
      BY <1>1
    <3>3. j \in 1..(pc - 1)
      BY <3>1
    <3>4. j \in 1..Lines /\ j < pc
      BY <3>2, <3>3
    <3> QED BY <3>1, <3>4 DEF Asked
  <2>4. text.commands[j].stream \in Synchronized
    <3>1. CASE c.op = "sync"
      BY <1>1, <1>3, <2>1, <3>1 DEF Synchronized, At, Lines, Sane
    <3>2. CASE c.op = "thread sync"
      <4>1. j \in DOMAIN text.commands /\ Enqueues(text.commands[j])
        BY <1>1, <2>3 DEF Asked
      <4>2. text.commands[j].stream \in DOMAIN text.place
        BY <1>1, <4>1 DEF Sane
      <4> QED BY <3>2, <4>2 DEF Synchronized, At
    <3> QED BY <1>1, <3>1, <3>2
  <2>5. action[j] = Told(j) /\ j \in Library!Enqueued
    BY <2>3 DEF ClientInv
  <2>6. action[j].stream \in Synchronized /\ Library!Tracked(action[j])
    BY <2>2, <2>4, <2>5, ToldIs
  <2> QED BY <1>2, <2>5, <2>6 DEF Library!Quiet
<1>4. Commands[pc].before \subseteq done
  BY <1>1, <1>3, Covered
<1>5. Commands[pc].kind # "task"
  BY <1>1, KindIs
<1> QED BY <1>1, <1>4, <1>5 DEF Issue, SyncReturns, CallDone

\* What the library runs, nothing holds back.
LEMMA CompleteIsReady ==
  ASSUME AllSane, ClientInv, NEW i, Complete(i)
  PROVE  i \in Asked /\ i \notin signalled /\ Commands[i].before \subseteq done
<1>1. i \in Asked /\ i \notin signalled /\ action[i].events \subseteq signalled
      /\ {j \in prior[i] : Library!MustFollow(action[j], action[i])} \subseteq signalled
  BY DEF Complete, Library!Execute, ClientInv
<1>2. /\ i \in 1..Lines /\ Enqueues(text.commands[i])
      /\ i < pc /\ pc \in 1..(Lines + 1) /\ Lines \in Nat
  BY <1>1, ChosenText DEF Asked, ClientInv
<1>3. action[i] = Told(i) /\ prior[i] = Before(i)
  BY <1>1 DEF ClientInv
<1>4. Named(text, i) \subseteq signalled
  BY <1>1, <1>2, <1>3, ToldIs
<1>5. ASSUME NEW j \in Before(i),
             Promise!MustFollow(ActionRecord(text, text.commands[j]),
                                ActionRecord(text, text.commands[i]))
      PROVE  j \in signalled
  <2>1. j \in Asked /\ Enqueues(text.commands[j])
    BY <1>2 DEF Before, Asked
  <2>2. action[j] = Told(j)
    BY <2>1 DEF ClientInv
  <2>3. Library!MustFollow(Told(j), Told(i))
    BY <1>2, <1>5, <2>1, ToldIs
    DEF Library!MustFollow, Library!Tracked, Promise!MustFollow, Promise!Tracked
  <2> QED BY <1>1, <1>3, <2>2, <2>3
<1>6. Directly(text, i) = Named(text, i) \cup
        {j \in Before(i) : Promise!MustFollow(ActionRecord(text, text.commands[j]),
                                              ActionRecord(text, text.commands[i]))}
  <2> DEFINE c == text.commands[i]
             earlier == {j \in 1..(i - 1) : Enqueues(text.commands[j])}
  <2>1. Directly(text, i) = Named(text, i) \cup
          {j \in earlier : text.commands[j].stream = c.stream /\
              Promise!MustFollow(ActionRecord(text, text.commands[j]), ActionRecord(text, c))}
    BY <1>2 DEF Directly, Enqueues, Transfers
  <2> QED BY <2>1 DEF Before
<1>7. Directly(text, i) \subseteq signalled
  BY <1>4, <1>5, <1>6
<1> QED BY <1>1, <1>2, <1>7, Covered

LEMMA CompleteExecutes ==
  ASSUME AllSane, ClientInv, NEW i, Complete(i)
  PROVE  Execute(i) \/ UNCHANGED vars
<1>1. i \in Asked /\ i \notin signalled /\ Commands[i].before \subseteq done
  BY CompleteIsReady
<1>2. CASE Works(text, i)
  <2>1. i \in 1..Lines /\ i \in 1..(pc - 1)
    BY <1>1, ChosenText DEF Asked, ClientInv
  <2>2. i \in Running
    BY <1>1, <1>2, <2>1, KindIs DEF Running, Issued, ClientInv
  <2> QED BY <1>2, <2>2 DEF Execute, Complete
<1>3. CASE ~Works(text, i)
  BY <1>3 DEF Complete, vars
<1> QED BY <1>2, <1>3

\* Before the first call there is nothing to know.
LEMMA InitIsKnown == AllSane /\ InitClient => ClientInv
<1> SUFFICES ASSUME AllSane, InitClient PROVE ClientInv
  OBVIOUS
<1>1. chosen \in DOMAIN Texts /\ pc = 1 /\ done = {}
  BY DEF InitClient, Init
<1>2. /\ action = [e \in AllEvents |-> Library!Unused] /\ prior = [e \in AllEvents |-> {}]
      /\ signalled = {}
  BY DEF InitClient, Library!Init
<1>3. Lines \in Nat
  BY <1>1, ChosenText
<1>4. Asked = {}
  BY <1>1, <1>3 DEF Asked
<1>5. Library!Enqueued = {}
  BY <1>2 DEF Library!Enqueued
<1> QED BY <1>1, <1>2, <1>3, <1>4, <1>5 DEF ClientInv

\* The text stays what it is.
LEMMA TextStays ==
  ASSUME chosen' = chosen
  PROVE  /\ text' = text /\ Lines' = Lines /\ Commands' = Commands
         /\ \A i : Told(i)' = Told(i) /\ Before(i)' = Before(i)
<1>1. program' = program
  BY DEF program
<1>2. text' = text
  BY <1>1 DEF text
<1> QED BY <1>1, <1>2 DEF Lines, Commands, Told, Before

\* An enqueue tells the library of one more action, after those of its stream.
LEMMA EnqueueKeeps ==
  ASSUME AllSane, ClientInv, Enqueue
  PROVE  ClientInv'
<1>1. /\ pc \in 1..Lines /\ Lines \in Nat /\ Enqueues(text.commands[pc])
      /\ 1..Lines \subseteq AllEvents /\ chosen \in DOMAIN Texts
  BY ChosenText DEF ClientInv, Enqueue, At, Enqueues
<1>2. /\ chosen' = chosen /\ pc' = pc + 1 /\ done' = done /\ signalled' = signalled
      /\ DOMAIN action = AllEvents /\ DOMAIN prior = AllEvents
  BY DEF Enqueue, CallDone, Library!Enqueue, ClientInv
<1>3. /\ text' = text /\ Lines' = Lines /\ Commands' = Commands
      /\ \A i : Told(i)' = Told(i) /\ Before(i)' = Before(i)
  BY <1>2, TextStays
<1>4. action' = [action EXCEPT ![pc] = Told(pc)]
  BY DEF Enqueue, Told
<1>5. action'[pc] = Told(pc) /\ \A e \in AllEvents \ {pc} : action'[e] = action[e]
  BY <1>1, <1>2, <1>4
<1>6. Told(pc) # Library!Unused
  <2>1. Told(pc) \in Library!ActionRecord
    BY <1>5 DEF Enqueue, Library!Enqueue
  <2>2. Told(pc).op \in Library!Ops
    BY <2>1 DEF Library!ActionRecord
  <2> QED BY <2>2 DEF Library!Unused, Library!Ops
<1>7. Library!Enqueued' = Library!Enqueued \cup {pc}
  BY <1>1, <1>5, <1>6 DEF Library!Enqueued
<1>8. Asked' = Asked \cup {pc}
  <2>1. \A i \in 1..Lines : i < pc + 1 <=> i < pc \/ i = pc
    BY <1>1
  <2> QED BY <1>1, <1>2, <1>3, <2>1 DEF Asked
<1>9. prior' = [prior EXCEPT ![pc] = Before(pc)]
  <2>1. prior' = [prior EXCEPT ![pc] = {p \in Asked : action[p].stream = Told(pc).stream}]
    <3>1. prior' = [prior EXCEPT ![pc] =
                      {p \in Library!Enqueued : action[p].stream = action'[pc].stream}]
      BY DEF Enqueue, Library!Enqueue
    <3>2. Library!Enqueued = Asked /\ action'[pc] = Told(pc)
      BY <1>5 DEF ClientInv
    <3> QED BY <3>1, <3>2
  <2>2. Told(pc).stream = text.commands[pc].stream
    BY <1>1, ToldIs
  <2>3. ASSUME NEW p \in Asked PROVE action[p].stream = text.commands[p].stream
    <3>1. action[p] = Told(p) /\ Enqueues(text.commands[p])
      BY DEF ClientInv, Asked
    <3> QED BY <3>1, ToldIs
  <2>4. \A p : p \in Asked <=> p \in 1..(pc - 1) /\ Enqueues(text.commands[p])
    BY <1>1 DEF Asked
  <2>5. {p \in Asked : action[p].stream = Told(pc).stream} = Before(pc)
    BY <2>2, <2>3, <2>4 DEF Before
  <2> QED BY <2>1, <2>5
<1>10. ASSUME NEW i \in Asked' PROVE action'[i] = Told(i)' /\ prior'[i] = Before(i)'
  <2>1. CASE i = pc
    BY <1>1, <1>2, <1>3, <1>5, <1>9, <2>1
  <2>2. CASE i # pc
    <3>1. i \in Asked /\ i \in AllEvents
      BY <1>1, <1>8, <2>2 DEF Asked
    <3>2. action[i] = Told(i) /\ prior[i] = Before(i)
      BY <3>1 DEF ClientInv
    <3> QED BY <1>2, <1>3, <1>5, <1>9, <2>2, <3>1, <3>2
  <2> QED BY <2>1, <2>2
<1>11. pc' \in 1..(Lines' + 1)
  BY <1>1, <1>2, <1>3
<1>12. DOMAIN action' = AllEvents /\ DOMAIN prior' = AllEvents
  BY <1>2, <1>4, <1>9
<1>13. Library!Enqueued' = Asked' /\ signalled' \subseteq Asked'
  BY <1>2, <1>7, <1>8 DEF ClientInv
<1>14. /\ done' = {i \in signalled' : Works(text', i)}
       /\ \A i \in signalled' : Works(text', i) \/ Commands'[i].before \subseteq done'
  BY <1>2, <1>3 DEF ClientInv
<1> QED BY <1>1, <1>2, <1>10, <1>11, <1>12, <1>13, <1>14 DEF ClientInv

\* Any other call tells it nothing.
LEMMA CallKeeps ==
  ASSUME AllSane, ClientInv, CallDone, pc \in 1..Lines, ~Enqueues(text.commands[pc]),
         UNCHANGED <<done, action, prior, signalled>>
  PROVE  ClientInv'
<1>1. Lines \in Nat /\ chosen \in DOMAIN Texts /\ chosen' = chosen /\ pc' = pc + 1
  BY ChosenText DEF ClientInv, CallDone
<1>2. /\ text' = text /\ Lines' = Lines /\ Commands' = Commands
      /\ \A i : Told(i)' = Told(i) /\ Before(i)' = Before(i)
  BY <1>1, TextStays
<1>3. Asked' = Asked
  <2>1. \A i \in 1..Lines : Enqueues(text.commands[i]) => (i < pc + 1 <=> i < pc)
    BY <1>1
  <2> QED BY <1>1, <1>2, <2>1 DEF Asked
<1>4. Library!Enqueued' = Library!Enqueued
  BY DEF Library!Enqueued
<1> QED BY <1>1, <1>2, <1>3, <1>4 DEF ClientInv

\* Signals add up, and say of what works that it is done.
LEMMA CompleteKeeps ==
  ASSUME AllSane, ClientInv, NEW i, Complete(i)
  PROVE  ClientInv'
<1>1. i \in Asked /\ Commands[i].before \subseteq done
  BY CompleteIsReady
<1>2. /\ chosen' = chosen /\ pc' = pc /\ action' = action /\ prior' = prior
      /\ signalled' = signalled \cup {i}
      /\ done' = IF Works(text, i) THEN done \cup {i} ELSE done
  BY DEF Complete, Library!Execute
<1>3. /\ text' = text /\ Lines' = Lines /\ Commands' = Commands
      /\ \A j : Told(j)' = Told(j) /\ Before(j)' = Before(j)
  BY <1>2, TextStays
<1>4. Asked' = Asked /\ Library!Enqueued' = Library!Enqueued
  BY <1>2, <1>3 DEF Asked, Library!Enqueued
<1>5. done' = {j \in signalled' : Works(text', j)}
  BY <1>2, <1>3 DEF ClientInv
<1>6. \A j \in signalled' : Works(text', j) \/ Commands'[j].before \subseteq done'
  BY <1>1, <1>2, <1>3 DEF ClientInv
<1> QED BY <1>1, <1>2, <1>3, <1>4, <1>5, <1>6 DEF ClientInv

\* Every step of the host or the library keeps it, and is a step of the compiled
\* program or none.
LEMMA ClientStep ==
  ASSUME AllSane, ClientInv, [NextClient]_<<vars, library>>
  PROVE  ClientInv' /\ [Next]_vars
<1>1. CASE Enqueue
  BY <1>1, EnqueueKeeps, EnqueueIssues DEF Next
<1>2. CASE EventWait
  <2>1. pc \in 1..Lines /\ text.commands[pc].op = "event wait"
    BY <1>2, ChosenText DEF ClientInv, EventWait, At
  <2>2. ~Enqueues(text.commands[pc])
    BY <2>1 DEF Enqueues, Transfers
  <2>3. ClientInv'
    BY <1>2, <2>1, <2>2, CallKeeps DEF EventWait, library
  <2> QED BY <1>2, <2>3, EventWaitIssues DEF Next
<1>3. CASE Synchronize
  <2>1. UNCHANGED <<chosen, pc, done, mem, action, prior, signalled>>
    BY <1>3 DEF Synchronize, Library!Synchronize, vars
  <2>2. /\ text' = text /\ Lines' = Lines /\ Commands' = Commands
        /\ \A j : Told(j)' = Told(j) /\ Before(j)' = Before(j)
    BY <2>1, TextStays
  <2> QED BY <2>1, <2>2 DEF ClientInv, Asked, Library!Enqueued, vars
<1>4. CASE SyncReturns
  <2>1. pc \in 1..Lines /\ text.commands[pc].op \in {"sync", "thread sync"}
    BY <1>4, ChosenText DEF ClientInv, SyncReturns, At
  <2>2. ~Enqueues(text.commands[pc])
    BY <2>1 DEF Enqueues, Transfers
  <2>3. ClientInv'
    BY <1>4, <2>1, <2>2, CallKeeps DEF SyncReturns, Library!Return
  <2> QED BY <1>4, <2>3, ReturnIssues DEF Next
<1>5. CASE HostTaskRuns
  <2>1. pc \in 1..Lines /\ Commands[pc].kind = "task" /\ CallDone
    BY <1>5, ChosenText DEF ClientInv, HostTaskRuns, Task, CallDone
  <2>2. ~Enqueues(text.commands[pc])
    BY <2>1, KindIs
  <2>3. ClientInv'
    BY <1>5, <2>1, <2>2, CallKeeps DEF HostTaskRuns, Task, library
  <2> QED BY <1>5, <2>3 DEF HostTaskRuns, Next
<1>6. ASSUME NEW i \in DOMAIN Commands, Complete(i) PROVE ClientInv' /\ [Next]_vars
  BY <1>6, CompleteKeeps, CompleteExecutes DEF Next
<1>7. CASE UNCHANGED <<vars, library>>
  <2>1. UNCHANGED <<chosen, pc, done, mem, action, prior, signalled>>
    BY <1>7 DEF vars, library
  <2>2. /\ text' = text /\ Lines' = Lines /\ Commands' = Commands
        /\ \A j : Told(j)' = Told(j) /\ Before(j)' = Before(j)
    BY <2>1, TextStays
  <2> QED BY <2>1, <2>2 DEF ClientInv, Asked, Library!Enqueued, vars
<1> QED BY <1>1, <1>2, <1>3, <1>4, <1>5, <1>6, <1>7 DEF NextClient, ClientEnded

\* A program on top of the promise runs as its compiled form does, whatever the
\* program: what each command waits for is what Compile lists, and what does no
\* work may be left out.
THEOREM ProgramImplemented ==
  ASSUME AllSane PROVE SpecClient => ImplementsProgram
<1>1. InitClient => Init
  BY DEF InitClient
<1>2. AllSane /\ InitClient => ClientInv
  BY InitIsKnown
<1>3. ClientInv /\ [NextClient]_<<vars, library>> => ClientInv' /\ [Next]_vars
  BY ClientStep
<1> QED BY <1>1, <1>2, <1>3, PTL DEF SpecClient, ImplementsProgram, Spec

-----------------------------------------------------------------------------
(* Programs: the order of their commands.                                  *)

\* What precedes each command of the program that runs, and how many it has.
past == Preceding(program)
N == Len(Commands)

\* The commands that have run.
Executed == {i \in 1 .. N : i \in done \/ (Commands[i].kind = "task" /\ i < pc)}

\* What has run has waited for what holds it back, and so has the host.
HostInv ==
  /\ chosen \in DOMAIN Texts
  /\ pc \in 1 .. N + 1
  /\ done \subseteq {i \in 1 .. N : i < pc /\ Commands[i].kind = "action"}
  /\ \A i \in done : Commands[i].before \subseteq done
  /\ \A w \in 1 .. N : w < pc /\ Commands[w].kind = "waits" => Commands[w].before \subseteq done

\* What is said to be over is.
OrderInv == HostInv /\ \A i \in Executed : past[i] \subseteq Executed

\* The hypothesis on the programs: what StaticallyRight says of their order.
AllOrdered == \A n \in DOMAIN Texts : Sane(Texts[n]) /\ Ordered(Compile(Texts[n]))

\* The program that runs is well formed.
LEMMA Formed ==
  ASSUME AllSane, chosen \in DOMAIN Texts
  PROVE  /\ program = Compile(Texts[chosen]) /\ WellFormed(program)
         /\ N \in Nat /\ DOMAIN Commands = 1 .. N
         /\ \A i \in 1 .. N : \A j \in Commands[i].before :
              j \in 1 .. i - 1 /\ Commands[j].kind = "action"
<1>1. program = Compile(Texts[chosen])
  BY DEF program, Programs, Compiled
<1>2. WellFormed(program)
  BY <1>1, CompiledIsWellFormed DEF AllSane
<1>3. N \in Nat /\ DOMAIN Commands = 1 .. N
      /\ \A i \in 1 .. N : \A j \in Commands[i].before :
              j \in 1 .. i - 1 /\ Commands[j].kind = "action"
  BY <1>2 DEF WellFormed, N, Commands
<1> QED BY <1>1, <1>2, <1>3

\* What the static check says of it.
LEMMA Static ==
  ASSUME AllOrdered, OrderInv
  PROVE  /\ AllSane /\ HostInv /\ WellFormed(program) /\ Ordered(program)
         /\ N \in Nat /\ DOMAIN Commands = 1 .. N
         /\ \A i \in 1 .. N : \A j \in Commands[i].before :
              j \in 1 .. i - 1 /\ Commands[j].kind = "action"
         /\ \A i \in 1 .. N : past[i] = WithPast(past, Awaited(program, i))
         /\ \A i, j \in 1 .. N :
              i < j /\ Executes(Commands[i]) /\ Executes(Commands[j])
                    /\ Conflict(Commands[i], Commands[j])
                => i \in past[j]
<1>1. AllSane /\ HostInv /\ chosen \in DOMAIN Texts
  BY DEF AllOrdered, AllSane, OrderInv, HostInv
<1>2. WellFormed(program) /\ Ordered(program)
  BY <1>1, Formed DEF AllOrdered
<1>3. N \in Nat /\ DOMAIN Commands = 1 .. N
      /\ \A i \in 1 .. N : \A j \in Commands[i].before :
              j \in 1 .. i - 1 /\ Commands[j].kind = "action"
  BY <1>1, Formed
<1>4. \A i \in 1 .. N : past[i] = WithPast(past, Awaited(program, i))
  BY <1>2, PrecedingIs DEF past, N, Commands
<1>5. \A i, j \in 1 .. N :
              i < j /\ Executes(Commands[i]) /\ Executes(Commands[j])
                    /\ Conflict(Commands[i], Commands[j])
                => i \in past[j]
  BY <1>2 DEF Ordered, past, N, Commands
<1> QED BY <1>1, <1>2, <1>3, <1>4, <1>5

\* Where the host is, what it knows to be over is over.
LEMMA HostKnowsRightly ==
  ASSUME AllOrdered, OrderInv
  PROVE  HostKnows(program, pc) \subseteq Executed
<1>1. N \in Nat /\ pc \in 1 .. N + 1
  BY Static DEF OrderInv, HostInv
<1>2. ASSUME NEW w \in 1 .. pc - 1, program.commands[w].kind = "waits"
      PROVE  program.commands[w].before \subseteq Executed
  <2>1. w \in 1 .. N /\ w < pc
    BY <1>1
  <2>2. program.commands[w].before \subseteq done
    BY <1>2, <2>1 DEF OrderInv, HostInv, Commands
  <2>3. done \subseteq Executed
    BY DEF OrderInv, HostInv, Executed
  <2> QED BY <2>2, <2>3
<1>3. ASSUME NEW t \in 1 .. pc - 1, program.commands[t].kind = "task"
      PROVE  t \in Executed
  BY <1>1, <1>3 DEF Commands, Executed
<1> QED BY <1>2, <1>3 DEF HostKnows

\* It knew less before.
LEMMA KnowledgeGrows ==
  ASSUME AllOrdered, OrderInv, NEW i \in 1 .. N, i <= pc
  PROVE  HostKnows(program, i) \subseteq HostKnows(program, pc)
<1>1. 1 .. i - 1 \subseteq 1 .. pc - 1
  BY Static DEF OrderInv, HostInv
<1> QED BY <1>1 DEF HostKnows

\* A set that has been executed has had its past executed.
LEMMA PastExecuted ==
  ASSUME OrderInv, NEW S, S \subseteq Executed
  PROVE  WithPast(past, S) \subseteq Executed
  BY DEF WithPast, OrderInv, HostInv

\* Whatever may run now comes after all that is said to precede it.
Now == Running \cup {i \in {pc} \cap DOMAIN Commands : Commands[i].kind = "task"}

\* Nothing that precedes it is still to run.
LEMMA PastOver ==
  ASSUME AllOrdered, OrderInv, NEW i \in Now
  PROVE  /\ i \in 1 .. N /\ i <= pc /\ i \notin Executed /\ Executes(Commands[i])
         /\ past[i] \subseteq Executed
<1>1. N \in Nat /\ DOMAIN Commands = 1 .. N /\ pc \in 1 .. N + 1
  BY Static DEF OrderInv, HostInv
<1>2. /\ i \in 1 .. N /\ i <= pc /\ i \notin Executed /\ Executes(Commands[i])
      /\ Commands[i].kind = "action" => Commands[i].before \subseteq done
  <2>1. CASE i \in Running
    BY <1>1, <2>1 DEF Running, Issued, Executed, Executes
  <2>2. CASE i = pc /\ i \in DOMAIN Commands /\ Commands[i].kind = "task"
    BY <1>1, <2>2 DEF Executed, Executes, OrderInv, HostInv
  <2> QED BY <2>1, <2>2 DEF Now
<1>3. done \subseteq Executed
  BY <1>1 DEF OrderInv, HostInv, Executed
<1>4. Awaited(program, i) \subseteq Executed
  BY <1>2, <1>3, HostKnowsRightly, KnowledgeGrows DEF Awaited, Commands
<1>5. past[i] \subseteq Executed
  BY <1>2, <1>4, PastExecuted, Static
<1> QED BY <1>2, <1>5

\* So two commands that may run now do not conflict: one would precede the other.
LEMMA RaceFreeNow ==
  ASSUME AllOrdered, OrderInv
  PROVE  NoRace
<1>1. ASSUME NEW i \in Now, NEW j \in Now, i < j, Conflict(Commands[i], Commands[j])
      PROVE  FALSE
  <2>1. i \in past[j]
    BY <1>1, Static, PastOver
  <2> QED BY <2>1, PastOver
<1>2. ASSUME NEW i \in Now, NEW j \in Now, i # j PROVE Commands[i].writes \cap Commands[j].touches = {}
  <2>1. i < j \/ j < i
    BY <1>2, PastOver, Static
  <2> QED BY <1>1, <2>1 DEF Conflict
<1> QED BY <1>2 DEF NoRace, Now

\* Running one of them keeps what is known of the host,
LEMMA RunKeepsHost ==
  ASSUME AllSane, HostInv, NEW i \in Now, chosen' = chosen, pc' \in 1 .. N + 1,
         \/ i \in Running /\ done' = done \cup {i} /\ pc' = pc
         \/ i = pc /\ Commands[i].kind = "task" /\ done' = done /\ pc' = pc + 1
  PROVE  HostInv' /\ N' = N /\ past' = past /\ Commands' = Commands
<1>1. N \in Nat /\ DOMAIN Commands = 1 .. N /\ pc \in 1 .. N + 1 /\ chosen' \in DOMAIN Texts
  BY Formed DEF HostInv
<1>2. i \in 1 .. N
  BY <1>1 DEF Now, Running, Issued
<1>3. N' = N /\ past' = past /\ Commands' = Commands
  BY DEF N, past, Commands, program
<1>4. /\ done' \subseteq {k \in 1 .. N' : k < pc' /\ Commands'[k].kind = "action"}
      /\ \A k \in done' : Commands'[k].before \subseteq done'
      /\ \A w \in 1 .. N' : w < pc' /\ Commands'[w].kind = "waits" => Commands'[w].before \subseteq done'
  <2>1. CASE i \in Running /\ done' = done \cup {i} /\ pc' = pc
    <3>1. i < pc /\ Commands[i].kind = "action" /\ Commands[i].before \subseteq done
      BY <1>1, <1>2, <2>1 DEF Running, Issued
    <3> QED BY <1>2, <1>3, <2>1, <3>1 DEF HostInv
  <2>2. CASE i = pc /\ Commands[i].kind = "task" /\ done' = done /\ pc' = pc + 1
    <3>1. \A w \in 1 .. N : w < pc' => w < pc \/ w = i
      BY <1>1, <2>2
    <3>2. \A w \in 1 .. N : w < pc => w < pc'
      BY <1>1, <2>2
    <3> QED BY <1>3, <2>2, <3>1, <3>2 DEF HostInv
  <2> QED BY <2>1, <2>2
<1> QED BY <1>1, <1>3, <1>4 DEF HostInv

\* and adds it to what has been executed, like its past.
LEMMA RunKeepsOrder ==
  ASSUME AllOrdered, OrderInv, NEW i \in Now, chosen' = chosen, pc' \in 1 .. N + 1,
         \/ i \in Running /\ done' = done \cup {i} /\ pc' = pc
         \/ i = pc /\ Commands[i].kind = "task" /\ done' = done /\ pc' = pc + 1
  PROVE  OrderInv' /\ Executed' = Executed \cup {i}
<1>1. N \in Nat /\ DOMAIN Commands = 1 .. N /\ pc \in 1 .. N + 1
  BY Static DEF OrderInv, HostInv
<1>2. i \in 1 .. N /\ past[i] \subseteq Executed
  BY PastOver
<1>3. HostInv' /\ N' = N /\ past' = past /\ Commands' = Commands
  BY Static, RunKeepsHost
<1>4. Executed' = Executed \cup {i}
  <2>1. CASE i \in Running /\ done' = done \cup {i} /\ pc' = pc
    BY <1>2, <1>3, <2>1 DEF Executed
  <2>2. CASE i = pc /\ Commands[i].kind = "task" /\ done' = done /\ pc' = pc + 1
    BY <1>1, <1>2, <1>3, <2>2 DEF Executed
  <2> QED BY <2>1, <2>2
<1>5. \A k \in Executed' : past'[k] \subseteq Executed'
  BY <1>2, <1>3, <1>4 DEF OrderInv, HostInv
<1> QED BY <1>3, <1>4, <1>5 DEF OrderInv

\* The host gets past a wait only when what it waits for has been executed.
LEMMA IssueKeepsHost ==
  ASSUME AllSane, HostInv, Issue
  PROVE  HostInv' /\ Executed' = Executed /\ past' = past
<1>1. N \in Nat /\ DOMAIN Commands = 1 .. N /\ pc \in 1 .. N /\ chosen' \in DOMAIN Texts
  BY Formed DEF HostInv, Issue
<1>2. N' = N /\ past' = past /\ Commands' = Commands
  BY DEF N, past, Commands, program, Issue
<1>3. \A w \in 1 .. N : w < pc' <=> w < pc \/ w = pc
  BY <1>1 DEF Issue
<1>4. Executed' = Executed
  BY <1>1, <1>2, <1>3 DEF Executed, Issue
<1>5. pc' \in 1 .. N' + 1
  BY <1>1, <1>2 DEF Issue
<1>6. /\ done' \subseteq {k \in 1 .. N' : k < pc' /\ Commands'[k].kind = "action"}
      /\ \A k \in done' : Commands'[k].before \subseteq done'
      /\ \A w \in 1 .. N' : w < pc' /\ Commands'[w].kind = "waits" => Commands'[w].before \subseteq done'
  BY <1>2, <1>3 DEF HostInv, Issue
<1> QED BY <1>1, <1>2, <1>4, <1>5, <1>6 DEF HostInv

LEMMA IssueKeepsOrder ==
  ASSUME AllOrdered, OrderInv, Issue
  PROVE  OrderInv' /\ Executed' = Executed
  BY Static, IssueKeepsHost DEF OrderInv

\* Before the first command nothing has been executed.
LEMMA InitHost == AllSane /\ Init => HostInv /\ Executed = {}
<1> SUFFICES ASSUME AllSane, Init PROVE HostInv /\ Executed = {}
  OBVIOUS
<1>1. chosen \in DOMAIN Texts /\ pc = 1 /\ done = {}
  BY DEF Init
<1>2. N \in Nat
  BY <1>1, Formed
<1> QED BY <1>1, <1>2 DEF HostInv, Executed

LEMMA InitOrder == AllOrdered /\ Init => OrderInv
<1>1. AllOrdered => AllSane
  BY DEF AllOrdered, AllSane
<1> QED BY <1>1, InitHost DEF OrderInv

\* Every step keeps what is known of the host,
LEMMA HostStep ==
  ASSUME AllSane, HostInv, [Next]_vars
  PROVE  HostInv'
<1>1. N \in Nat /\ DOMAIN Commands = 1 .. N /\ pc \in 1 .. N + 1
  BY Formed DEF HostInv
<1>2. CASE Issue
  BY <1>2, IssueKeepsHost
<1>3. CASE Task
  <2>1. pc \in Now /\ pc' \in 1 .. N + 1
    BY <1>1, <1>3 DEF Task, Now
  <2> QED BY <1>3, <2>1, RunKeepsHost DEF Task
<1>4. ASSUME NEW i \in DOMAIN Commands, Execute(i) PROVE HostInv'
  <2>1. i \in Now /\ pc' \in 1 .. N + 1
    BY <1>1, <1>4 DEF Execute, Now
  <2> QED BY <1>4, <2>1, RunKeepsHost DEF Execute
<1>5. CASE UNCHANGED vars
  BY <1>5 DEF vars, HostInv, N, Commands, program
<1> QED BY <1>2, <1>3, <1>4, <1>5 DEF Next, Ended

\* and the order.
LEMMA OrderStep ==
  ASSUME AllOrdered, OrderInv, [Next]_vars
  PROVE  OrderInv'
<1>1. N \in Nat /\ DOMAIN Commands = 1 .. N /\ pc \in 1 .. N + 1
  BY Static DEF OrderInv, HostInv
<1>2. CASE Issue
  BY <1>2, IssueKeepsOrder
<1>3. CASE Task
  <2>1. pc \in Now /\ pc' \in 1 .. N + 1
    BY <1>1, <1>3 DEF Task, Now
  <2> QED BY <1>3, <2>1, RunKeepsOrder DEF Task
<1>4. ASSUME NEW i \in DOMAIN Commands, Execute(i) PROVE OrderInv'
  <2>1. i \in Now /\ pc' \in 1 .. N + 1
    BY <1>1, <1>4 DEF Execute, Now
  <2> QED BY <1>4, <2>1, RunKeepsOrder DEF Execute
<1>5. CASE UNCHANGED vars
  BY <1>5 DEF vars, OrderInv, HostInv, Executed, past, N, Commands, program
<1> QED BY <1>2, <1>3, <1>4, <1>5 DEF Next, Ended

\* In a program whose waits and events order all its conflicting commands, no two
\* that may run at a time touch the same memory with one writing it: enqueues of
\* any stream and the host's own tasks.
THEOREM RaceFree ==
  ASSUME AllOrdered PROVE Spec => []NoRace
<1>1. OrderInv => NoRace
  BY RaceFreeNow
<1> QED BY <1>1, InitOrder, OrderStep, PTL DEF Spec

-----------------------------------------------------------------------------
(* What a command makes of the memory.                                     *)

\* The hypothesis on the programs, with what they compute sequentially.
AllRight == \A n \in DOMAIN Texts : StaticallyRight(Texts[n])

LEMMA AllRightAreOrdered == AllRight => AllOrdered
  BY DEF AllRight, AllOrdered, StaticallyRight

\* The sequential run, and the places the program knows.
run == SequentialRun(program)
Places == Locations(program)

\* What a kernel writes, and what it finds there.
WrittenBy(f, operands) == {operands[j] : j \in Written(f, Len(operands))}
Operand(f, operands, l) == CHOOSE i \in Written(f, Len(operands)) : operands[i] = l
Contents(operands, m) == [i \in DOMAIN operands |-> m[operands[i]]]

\* A command says what it touches.
Honest(c) ==
  /\ c.writes = WrittenBy(c.f, c.operands) \cup c.returned
  /\ c.touches = Range(c.operands) \cup c.returned
  /\ c.touches \subseteq Places
  /\ c.writes \subseteq c.touches

\* Every command of a well-formed program does.
LEMMA AllHonest ==
  ASSUME AllOrdered, OrderInv, NEW i \in 1 .. N, Executes(Commands[i])
  PROVE  Honest(Commands[i])
<1>1. WellFormed(program)
  BY Static
<1> QED BY <1>1 DEF WellFormed, Honest, WrittenBy, N, Commands, Places

\* A kernel adds no place but what it writes,
LEMMA ApplyDomain ==
  ASSUME NEW f, NEW operands, NEW m
  PROVE  DOMAIN Apply(f, operands, m) = WrittenBy(f, operands) \cup DOMAIN m
  BY DEF Apply, Overwritten, WrittenBy

\* makes what it writes of what it found,
LEMMA ApplyWrites ==
  ASSUME NEW f, NEW operands, NEW m, NEW l \in WrittenBy(f, operands)
  PROVE  Apply(f, operands, m)[l] = After(f, Contents(operands, m), Operand(f, operands, l))
  BY DEF Apply, Overwritten, WrittenBy, Operand, Contents

\* and leaves the rest.
LEMMA ApplyLeaves ==
  ASSUME NEW f, NEW operands, NEW m, NEW l \in DOMAIN m \ WrittenBy(f, operands)
  PROVE  Apply(f, operands, m)[l] = m[l]
  BY DEF Apply, Overwritten, WrittenBy

\* A command keeps the set of places,
LEMMA RunDomain ==
  ASSUME NEW c, NEW m, DOMAIN m = Places, Honest(c)
  PROVE  DOMAIN RunOn(c, m) = Places
<1>1. DOMAIN Apply(c.f, c.operands, m) =
        WrittenBy(c.f, c.operands) \cup Places
  BY ApplyDomain
<1>2. DOMAIN RunOn(c, m) = c.returned \cup DOMAIN Apply(c.f, c.operands, m)
  BY DEF RunOn, Overwritten
<1> QED BY <1>1, <1>2 DEF Honest

\* leaves alone what it does not say it writes,
LEMMA RunLeaves ==
  ASSUME NEW c, NEW m, DOMAIN m = Places, Honest(c), NEW l \in Places \ c.writes
  PROVE  RunOn(c, m)[l] = m[l]
<1>1. l \notin c.returned /\ l \notin WrittenBy(c.f, c.operands)
  BY DEF Honest
<1>2. DOMAIN Apply(c.f, c.operands, m) = WrittenBy(c.f, c.operands) \cup DOMAIN m
  BY ApplyDomain
<1>3. l \in DOMAIN m \ WrittenBy(c.f, c.operands)
  BY <1>1
<1>4. Apply(c.f, c.operands, m)[l] = m[l]
  BY <1>3, ApplyLeaves
<1> QED BY <1>1, <1>2, <1>3, <1>4 DEF RunOn, Overwritten

\* and what it writes depends on its operands alone.
LEMMA RunDepends ==
  ASSUME NEW c, NEW m, NEW s, DOMAIN m = Places, DOMAIN s = Places, Honest(c),
         \A l \in c.touches : m[l] = s[l], NEW l \in c.writes
  PROVE  RunOn(c, m)[l] = RunOn(c, s)[l]
<1> DEFINE operands == c.operands
           written == WrittenBy(c.f, operands)
           v(memory) == Contents(operands, memory)
           A(memory) == Apply(c.f, operands, memory)
<1>1. \A i \in DOMAIN operands : operands[i] \in c.touches /\ operands[i] \in Places
  BY DEF Honest, Range
<1>2. v(m) = v(s)
  BY <1>1 DEF Contents
<1> HIDE DEF v
<1>3. \A x \in written : A(m)[x] = A(s)[x]
  BY <1>2, ApplyWrites DEF v
<1>4. \A i \in DOMAIN operands : A(m)[operands[i]] = A(s)[operands[i]]
  <2> SUFFICES ASSUME NEW i \in DOMAIN operands PROVE A(m)[operands[i]] = A(s)[operands[i]]
    OBVIOUS
  <2>1. CASE operands[i] \in written
    BY <1>3, <2>1
  <2>2. CASE operands[i] \notin written
    <3>1. operands[i] \in DOMAIN m \ written /\ operands[i] \in DOMAIN s \ written
      BY <1>1, <2>2
    <3> QED BY <1>1, <3>1, ApplyLeaves
  <2> QED BY <2>1, <2>2
<1>5. Returned(c.f, operands, m) = Returned(c.f, operands, s)
  BY <1>4 DEF Returned, Made
<1>6. CASE l \in c.returned
  BY <1>5, <1>6 DEF RunOn, Overwritten
<1>7. CASE l \notin c.returned
  <2>1. l \in written
    BY <1>7 DEF Honest
  <2>2. l \in DOMAIN A(m) /\ l \in DOMAIN A(s)
    <3>1. DOMAIN A(m) = written \cup DOMAIN m /\ DOMAIN A(s) = written \cup DOMAIN s
      BY ApplyDomain
    <3> QED BY <2>1, <3>1
  <2> QED BY <1>3, <1>7, <2>1, <2>2 DEF RunOn, Overwritten
<1> QED BY <1>6, <1>7

\* What the static check says of the sequential run.
LEMMA Sequential ==
  ASSUME AllRight, OrderInv
  PROVE  /\ run[1] = InitialMemory(program)
         /\ \A i \in 1 .. N :
              run[i + 1] = IF Executes(Commands[i]) THEN RunOn(Commands[i], run[i]) ELSE run[i]
         /\ \A t \in DOMAIN program.expected :
              run[ResultsAt(program)][<<Source, t>>] = program.expected[t]
<1>1. program = Compile(Texts[chosen])
  BY DEF OrderInv, HostInv, program, Programs, Compiled
<1>2. SequentiallyRight(program)
  BY <1>1 DEF AllRight, StaticallyRight, OrderInv, HostInv
<1>3. N \in Nat
  BY AllRightAreOrdered, Static
<1>4. /\ run[1] = InitialMemory(program)
      /\ \A i \in 1 .. N : run[i + 1] = SequentiallyNext(Commands[i], run[i])
  BY <1>3, SequentialRunIs DEF run, N, Commands
<1> QED BY <1>2, <1>4 DEF SequentiallyRight, SequentiallyNext, run

\* The sequential run never gains or loses a place.
LEMMA SequentialDomain ==
  ASSUME AllRight, OrderInv, NEW k \in 0 .. N
  PROVE  DOMAIN run[k + 1] = Places
<1> DEFINE Bad == {n \in 0 .. N : DOMAIN run[n + 1] # Places}
<1>1. N \in Nat /\ AllOrdered
  BY AllRightAreOrdered, Static
<1>2. ASSUME Bad # {} PROVE FALSE
  <2>1. PICK n \in Bad : \A j \in Bad : n <= j
    <3>1. Bad \in SUBSET Nat
      BY <1>1
    <3> HIDE DEF Bad
    <3> QED BY <1>2, <3>1, Least
  <2>2. CASE n = 0
    <3>1. run[n + 1] = InitialMemory(program)
      BY <2>2, Sequential
    <3> QED BY <2>1, <3>1 DEF InitialMemory, Places
  <2>3. CASE n # 0
    <3>1. n \in 1 .. N /\ n - 1 \in 0 .. N /\ n - 1 \notin Bad /\ (n - 1) + 1 = n
      BY <1>1, <2>1, <2>3
    <3>2. DOMAIN run[n] = Places
      BY <3>1
    <3>3. run[n + 1] = IF Executes(Commands[n]) THEN RunOn(Commands[n], run[n]) ELSE run[n]
      BY <3>1, Sequential
    <3>4. CASE Executes(Commands[n])
      <4>1. Honest(Commands[n])
        BY <1>1, <3>1, <3>4, AllHonest
      <4> QED BY <2>1, <3>2, <3>3, <3>4, <4>1, RunDomain
    <3> QED BY <2>1, <3>2, <3>3, <3>4
  <2> QED BY <2>2, <2>3
<1> QED BY <1>2

\* A place keeps its contents over a stretch of the sequential run that does not
\* write it.
LEMMA Stable ==
  ASSUME AllRight, OrderInv, NEW a \in 0 .. N, NEW b \in 0 .. N, a <= b, NEW l \in Places,
         \A i \in a + 1 .. b : Executes(Commands[i]) => l \notin Commands[i].writes
  PROVE  run[b + 1][l] = run[a + 1][l]
<1> DEFINE Bad == {n \in a .. b : run[n + 1][l] # run[a + 1][l]}
<1>1. N \in Nat /\ AllOrdered
  BY AllRightAreOrdered, Static
<1>2. ASSUME Bad # {} PROVE FALSE
  <2>1. PICK n \in Bad : \A j \in Bad : n <= j
    <3>1. Bad \in SUBSET Nat
      BY <1>1
    <3> HIDE DEF Bad
    <3> QED BY <1>2, <3>1, Least
  <2>2. n # a
    BY <2>1
  <2>3. n \in 1 .. N /\ n \in a + 1 .. b /\ n - 1 \in a .. b /\ n - 1 \in 0 .. N
        /\ n - 1 \notin Bad /\ (n - 1) + 1 = n
    BY <1>1, <2>1, <2>2
  <2>4. run[n][l] = run[a + 1][l]
    BY <2>3
  <2>5. run[n + 1] = IF Executes(Commands[n]) THEN RunOn(Commands[n], run[n]) ELSE run[n]
    BY <2>3, Sequential
  <2>6. CASE Executes(Commands[n])
    <3>1. Honest(Commands[n]) /\ DOMAIN run[n] = Places
      BY <1>1, <2>3, <2>6, AllHonest, SequentialDomain
    <3>2. l \in Places \ Commands[n].writes
      BY <2>3, <2>6
    <3> QED BY <2>1, <2>4, <2>5, <2>6, <3>1, <3>2, RunLeaves
  <2> QED BY <2>1, <2>4, <2>5, <2>6
<1>3. b \in a .. b
  BY <1>1
<1> QED BY <1>2, <1>3

-----------------------------------------------------------------------------
(* The memory of any run, place by place: a place whose executed writers are *)
(* those of a prefix of the program holds what that prefix leaves there.     *)

\* Command i writes place l; the commands that have written l are the first k.
Writes(i, l) == Executes(Commands[i]) /\ l \in Commands[i].writes
WrittenUpto(l, k) == \A i \in 1 .. N : Writes(i, l) => (i \in Executed <=> i <= k)

\* A place is as its executed writers leave it in the sequential run.
MemInv ==
  /\ OrderInv
  /\ DOMAIN mem = Places
  /\ \A l \in Places, k \in 0 .. N : WrittenUpto(l, k) => mem[l] = run[k + 1][l]

\* Before the first command the memory is that of the sequential run.
LEMMA InitMem == AllRight /\ Init => MemInv
<1> SUFFICES ASSUME AllRight, Init PROVE MemInv
  OBVIOUS
<1>1. AllOrdered /\ OrderInv
  BY AllRightAreOrdered, InitOrder
<1>2. N \in Nat
  BY <1>1, Static
<1>3. mem = run[1] /\ DOMAIN mem = Places
  BY <1>1, Sequential DEF Init, InitialMemory, Places
<1>4. ASSUME NEW l \in Places, NEW k \in 0 .. N, WrittenUpto(l, k)
      PROVE  mem[l] = run[k + 1][l]
  <2>1. Executed = {}
    BY <1>2 DEF Executed, Init
  <2>2. \A i \in 0 + 1 .. k : Executes(Commands[i]) => l \notin Commands[i].writes
    BY <1>2, <1>4, <2>1 DEF WrittenUpto, Writes
  <2>3. 0 \in 0 .. N /\ 0 <= k /\ 0 + 1 = 1
    BY <1>2
  <2>4. run[k + 1][l] = run[0 + 1][l]
    BY <1>1, <2>2, <2>3, Stable
  <2> QED BY <1>3, <2>3, <2>4
<1> QED BY <1>1, <1>3, <1>4 DEF MemInv

\* What a command that may run touches has been written by the commands before it
\* and by no other.
LEMMA OperandsReady ==
  ASSUME AllOrdered, OrderInv, NEW i \in Now, NEW l \in Commands[i].touches
  PROVE  WrittenUpto(l, i - 1)
<1>1. N \in Nat /\ i \in 1 .. N /\ i \notin Executed /\ Executes(Commands[i]) /\ past[i] \subseteq Executed
  BY Static, PastOver
<1>2. ASSUME NEW j \in 1 .. N, Writes(j, l), j < i PROVE j \in Executed
  <2>1. Conflict(Commands[j], Commands[i])
    BY <1>2 DEF Conflict, Writes
  <2>2. j \in past[i]
    BY <1>1, <1>2, <2>1, Static DEF Writes
  <2> QED BY <1>1, <2>2
<1>3. ASSUME NEW j \in 1 .. N, Writes(j, l), i < j, j \in Executed PROVE FALSE
  <2>1. Conflict(Commands[i], Commands[j])
    BY <1>3 DEF Conflict, Writes
  <2>2. i \in past[j]
    BY <1>1, <1>3, <2>1, Static DEF Writes
  <2>3. past[j] \subseteq Executed
    BY <1>3 DEF OrderInv, HostInv
  <2> QED BY <1>1, <2>2, <2>3
<1>4. \A j \in 1 .. N : (j <= i - 1 <=> j < i) /\ (j < i \/ j = i \/ i < j)
  BY <1>1
<1> QED BY <1>1, <1>2, <1>3, <1>4 DEF WrittenUpto

\* Running it does to the memory what the sequential run does there.
LEMMA RunKeepsMem ==
  ASSUME AllRight, MemInv, NEW i \in Now, chosen' = chosen, pc' \in 1 .. N + 1, Run(Commands[i]),
         \/ i \in Running /\ done' = done \cup {i} /\ pc' = pc
         \/ i = pc /\ Commands[i].kind = "task" /\ done' = done /\ pc' = pc + 1
  PROVE  MemInv'
<1>1. AllOrdered /\ OrderInv /\ DOMAIN mem = Places
  BY AllRightAreOrdered DEF MemInv
<1>2. OrderInv' /\ Executed' = Executed \cup {i}
  BY <1>1, RunKeepsOrder
<1>3. N' = N /\ run' = run /\ Commands' = Commands /\ Places' = Places
  BY DEF N, run, Commands, Places, program
<1>4. N \in Nat /\ i \in 1 .. N /\ i \notin Executed /\ Executes(Commands[i])
  BY <1>1, Static, PastOver
<1>5. Honest(Commands[i])
  BY <1>1, <1>4, AllHonest
<1>6. mem' = RunOn(Commands[i], mem) /\ DOMAIN mem' = Places
  BY <1>1, <1>5, RunDomain DEF Run
<1>7. ASSUME NEW l \in Places, NEW k \in 0 .. N, WrittenUpto(l, k)'
      PROVE  mem'[l] = run[k + 1][l]
  <2>1. \A j \in 1 .. N : Writes(j, l) => (j \in Executed \cup {i} <=> j <= k)
    BY <1>2, <1>3, <1>7 DEF WrittenUpto, Writes
  <2>2. CASE l \in Commands[i].writes
    <3>1. i <= k
      BY <1>4, <2>1, <2>2 DEF Writes
    <3>2. WrittenUpto(l, i - 1)
      BY <1>1, <1>5, <2>2, OperandsReady DEF Honest
    <3>3. \A j \in i + 1 .. k : Executes(Commands[j]) => l \notin Commands[j].writes
      BY <1>4, <2>1, <3>2 DEF WrittenUpto, Writes
    <3>4. run[k + 1][l] = run[i + 1][l]
      BY <1>1, <1>4, <3>1, <3>3, Stable
    <3>5. run[i + 1] = RunOn(Commands[i], run[i])
      BY <1>1, <1>4, Sequential
    <3>6. i - 1 \in 0 .. N /\ (i - 1) + 1 = i
      BY <1>4
    <3>7. ASSUME NEW x \in Commands[i].touches PROVE mem[x] = run[i][x]
      <4>1. WrittenUpto(x, i - 1) /\ x \in Places
        BY <1>1, <1>5, OperandsReady DEF Honest
      <4> QED BY <3>6, <4>1 DEF MemInv
    <3>8. DOMAIN run[i] = Places
      BY <1>1, <3>6, SequentialDomain
    <3>9. RunOn(Commands[i], mem)[l] = RunOn(Commands[i], run[i])[l]
      BY <1>1, <1>5, <2>2, <3>7, <3>8, RunDepends
    <3> QED BY <1>6, <3>4, <3>5, <3>9
  <2>3. CASE l \notin Commands[i].writes
    <3>1. WrittenUpto(l, k)
      BY <2>1, <2>3 DEF WrittenUpto, Writes
    <3>2. RunOn(Commands[i], mem)[l] = mem[l]
      BY <1>1, <1>5, <2>3, RunLeaves
    <3> QED BY <1>6, <3>1, <3>2 DEF MemInv
  <2> QED BY <2>2, <2>3
<1> QED BY <1>2, <1>3, <1>6, <1>7 DEF MemInv

\* Every step keeps the memory as the sequential run has it.
LEMMA MemStep ==
  ASSUME AllRight, MemInv, [Next]_vars
  PROVE  MemInv'
<1>1. AllOrdered /\ OrderInv
  BY AllRightAreOrdered DEF MemInv
<1>2. N \in Nat /\ DOMAIN Commands = 1 .. N /\ pc \in 1 .. N + 1
  BY <1>1, Static DEF OrderInv, HostInv
<1>3. CASE Issue
  <2>1. OrderInv' /\ Executed' = Executed
    BY <1>1, <1>3, IssueKeepsOrder
  <2>2. N' = N /\ run' = run /\ Commands' = Commands /\ Places' = Places /\ mem' = mem
    BY <1>3 DEF N, run, Commands, Places, program, Issue
  <2> QED BY <2>1, <2>2 DEF MemInv, WrittenUpto, Writes
<1>4. CASE Task
  <2>1. pc \in Now /\ pc' \in 1 .. N + 1
    BY <1>2, <1>4 DEF Task, Now
  <2> QED BY <1>4, <2>1, RunKeepsMem DEF Task
<1>5. ASSUME NEW i \in DOMAIN Commands, Execute(i) PROVE MemInv'
  <2>1. i \in Now /\ pc' \in 1 .. N + 1
    BY <1>2, <1>5 DEF Execute, Now
  <2> QED BY <1>5, <2>1, RunKeepsMem DEF Execute
<1>6. CASE UNCHANGED vars
  BY <1>6 DEF vars, MemInv, OrderInv, HostInv, WrittenUpto, Writes, Executed, past, run, Places, N, Commands, program
<1> QED BY <1>3, <1>4, <1>5, <1>6 DEF Next, Ended

\* A place is as the sequential run has it where the host is, when those that write
\* it have run.
LEMMA RightWhereTheHostIs ==
  ASSUME AllRight, MemInv, NEW l \in Places,
         \A i \in 1 .. N : i < pc /\ Writes(i, l) => i \in Executed
  PROVE  mem[l] = run[pc][l]
<1>1. AllOrdered /\ OrderInv
  BY AllRightAreOrdered DEF MemInv
<1>2. N \in Nat /\ pc \in 1 .. N + 1
  BY <1>1, Static DEF OrderInv, HostInv
<1>3. \A i \in Executed : i < pc
  BY <1>1 DEF OrderInv, HostInv, Executed
<1>4. pc - 1 \in 0 .. N /\ (pc - 1) + 1 = pc /\ \A i \in 1 .. N : i <= pc - 1 <=> i < pc
  BY <1>2
<1>5. WrittenUpto(l, pc - 1)
  BY <1>3, <1>4 DEF WrittenUpto
<1> QED BY <1>4, <1>5 DEF MemInv

\* Where the host has the results, the writers of each are over.
LEMMA RightResultNow ==
  ASSUME AllRight, MemInv
  PROVE  RightResult
<1>1. AllOrdered /\ OrderInv
  BY AllRightAreOrdered DEF MemInv
<1> SUFFICES ASSUME pc = ResultsAt(program), NEW t \in DOMAIN program.expected
             PROVE  mem[<<Source, t>>] = program.expected[t]
  BY DEF RightResult
<1>3. WellFormed(program) /\ Ordered(program)
  BY <1>1, Static
<1>4. <<Source, t>> \in Places
  BY <1>3 DEF WellFormed, Places
<1>5. WithPast(past, HostKnows(program, pc)) \subseteq Executed
  BY <1>1, HostKnowsRightly, PastExecuted
<1>6. \A i \in 1 .. N : i < pc /\ Writes(i, <<Source, t>>) => i \in Executed
  BY <1>3, <1>5 DEF Ordered, Writes, N, Commands, past
<1>7. mem[<<Source, t>>] = run[pc][<<Source, t>>]
  BY <1>4, <1>6, RightWhereTheHostIs
<1> QED BY <1>1, <1>7, Sequential

\* When the host has the results, they are what the sequential algorithm computes,
\* in whatever order the actions have run.
THEOREM ResultIsRight ==
  ASSUME AllRight PROVE Spec => []RightResult
<1>1. MemInv => RightResult
  BY RightResultNow
<1> QED BY <1>1, InitMem, MemStep, PTL DEF Spec

-----------------------------------------------------------------------------
(* The end.                                                                *)

\* When nothing can run, everything that has been enqueued has.
LEMMA QuietMeansDone ==
  ASSUME AllSane, HostInv, Running = {}, NEW i \in 1 .. N, i < pc, Commands[i].kind = "action"
  PROVE  i \in done
<1> DEFINE Bad == {n \in 1 .. N : n < pc /\ Commands[n].kind = "action" /\ n \notin done}
<1>1. N \in Nat /\ DOMAIN Commands = 1 .. N /\ pc \in 1 .. N + 1 /\ chosen \in DOMAIN Texts
  BY Formed DEF HostInv
<1>2. ASSUME Bad # {} PROVE FALSE
  <2>1. PICK n \in Bad : \A j \in Bad : n <= j
    <3>1. Bad \in SUBSET Nat
      BY <1>1
    <3> HIDE DEF Bad
    <3> QED BY <1>2, <3>1, Least
  <2>2. ASSUME NEW j \in Commands[n].before PROVE j \in done
    <3>1. j \in 1 .. n - 1 /\ Commands[j].kind = "action"
      BY <1>1, <2>1, <2>2, Formed
    <3>2. j \in 1 .. N /\ j < pc /\ ~(n <= j)
      BY <1>1, <2>1, <3>1
    <3> QED BY <2>1, <3>1, <3>2
  <2>3. n \in Running
    BY <1>1, <2>1, <2>2 DEF Running, Issued
  <2> QED BY <2>3
<1> QED BY <1>2

\* A wait of the host's does not last when nothing runs.
NeverStuck ==
  Running = {} /\ pc \in DOMAIN Commands /\ Commands[pc].kind = "waits"
    => Commands[pc].before \subseteq done

\* No program ever hangs in a synchronisation or in a wait for events: the action
\* that is waited for has been executed, or another can run.
THEOREM NoWaitForever ==
  ASSUME AllSane PROVE Spec => []NeverStuck
<1>1. HostInv => NeverStuck
  <2> SUFFICES ASSUME HostInv, Running = {}, pc \in DOMAIN Commands,
                      NEW j \in Commands[pc].before
               PROVE  j \in done
    BY DEF NeverStuck
  <2>1. N \in Nat /\ pc \in 1 .. N /\ chosen \in DOMAIN Texts
    BY Formed DEF HostInv
  <2>2. j \in 1 .. pc - 1 /\ Commands[j].kind = "action"
    BY <2>1, Formed
  <2>3. j \in 1 .. N /\ j < pc
    BY <2>1, <2>2
  <2> QED BY <2>2, <2>3, QuietMeansDone
<1> QED BY <1>1, InitHost, HostStep, PTL DEF Spec

\* When the program has ended and nothing runs, the whole memory, at the source and
\* at every sink, is what the sequential run leaves.
EndsSequentially == pc = N + 1 /\ Running = {} => \A l \in Places : mem[l] = run[N + 1][l]

\* A program that passes has one outcome, whatever the order of its actions.
THEOREM OneOutcome ==
  ASSUME AllRight PROVE Spec => []EndsSequentially
<1>1. MemInv => EndsSequentially
  <2> SUFFICES ASSUME MemInv, pc = N + 1, Running = {}, NEW l \in Places
               PROVE  mem[l] = run[N + 1][l]
    BY DEF EndsSequentially
  <2>1. AllOrdered /\ OrderInv
    BY AllRightAreOrdered DEF MemInv
  <2>2. N \in Nat
    BY <2>1, Static
  <2>3. \A i \in 1 .. N : Executes(Commands[i]) => i \in Executed
    <3> SUFFICES ASSUME NEW i \in 1 .. N, Executes(Commands[i]) PROVE i \in Executed
      OBVIOUS
    <3>1. i < pc
      BY <2>2
    <3>2. CASE Commands[i].kind = "action"
      BY <2>1, <3>1, <3>2, Static, QuietMeansDone DEF Executed
    <3> QED BY <3>1, <3>2 DEF Executes, Executed
  <2> QED BY <2>3, RightWhereTheHostIs DEF Writes
<1> QED BY <1>1, InitMem, MemStep, PTL DEF Spec

-----------------------------------------------------------------------------
(* On top of the promise.                                                  *)

\* What holds of the compiled program holds of the program on top of the promise:
\* no two commands race that the library may be executing at a time,
THEOREM ClientRaceFree ==
  ASSUME AllOrdered PROVE SpecClient => []NoRace
<1>1. AllSane
  BY DEF AllOrdered, AllSane
<1> QED BY <1>1, ProgramImplemented, RaceFree, PTL DEF ImplementsProgram

\* and the host gets the results of the sequential run, whatever the library does.
THEOREM ClientResultIsRight ==
  ASSUME AllRight PROVE SpecClient => []RightResult
<1>1. AllSane
  BY AllRightAreOrdered DEF AllOrdered, AllSane
<1> QED BY <1>1, ProgramImplemented, ResultIsRight, PTL DEF ImplementsProgram

\* The actions whose execution the promise does not forbid.
Ready ==
  {i \in Library!Enqueued \ signalled :
     /\ action[i].events \subseteq signalled
     /\ {p \in prior[i] : Library!MustFollow(action[p], action[i])} \subseteq signalled}

\* When there is none, everything enqueued is over.
PromiseNeverStuck == Ready = {} => Library!Enqueued \subseteq signalled

\* The promise itself never deadlocks a program: what its waits and its streams'
\* order hold back is held back by earlier actions only, in any streams, so while
\* something has not run, something may.
THEOREM NothingHangs ==
  ASSUME AllSane PROVE SpecClient => []PromiseNeverStuck
<1>1. ASSUME ClientInv PROVE PromiseNeverStuck
  <2> DEFINE Late == Asked \ signalled
  <2>1. ASSUME Late # {} PROVE Ready # {}
    <3>1. /\ Lines \in Nat /\ Sane(text) /\ pc \in 1..(Lines + 1)
          /\ Asked \subseteq 1..Lines
      BY <1>1, ChosenText DEF ClientInv, Asked
    <3>2. PICK i \in Late : \A j \in Late : i <= j
      <4>1. \A j \in 1..Lines : j \in Nat
        BY <3>1
      <4>2. Late \in SUBSET Nat
        BY <3>1, <4>1
      <4> HIDE DEF Late
      <4> QED BY <2>1, <4>2, Least
    <3>3. i \in 1..Lines /\ i < pc /\ Enqueues(text.commands[i]) /\ i \notin signalled
      BY <3>2 DEF Asked
    <3>4. \A j \in 1..(i - 1) : Enqueues(text.commands[j]) => j \in signalled
      <4> SUFFICES ASSUME NEW j \in 1..(i - 1), Enqueues(text.commands[j]) PROVE j \in signalled
        OBVIOUS
      <4>1. j \in 1..Lines /\ j < pc /\ ~(i <= j)
        BY <3>1, <3>3
      <4> QED BY <3>2, <4>1 DEF Asked
    <3>5. action[i].events = Named(text, i) /\ prior[i] = Before(i) /\ i \in Library!Enqueued
      BY <1>1, <3>2, <3>3, ToldIs DEF ClientInv
    <3>6. action[i].events \subseteq signalled
      BY <3>1, <3>3, <3>4, <3>5, DirectlyIs DEF Lines
    <3>7. prior[i] \subseteq signalled
      BY <3>4, <3>5 DEF Before
    <3> QED BY <3>3, <3>5, <3>6, <3>7 DEF Ready
  <2> QED BY <1>1, <2>1 DEF PromiseNeverStuck, ClientInv
<1>2. AllSane /\ InitClient => ClientInv
  BY InitIsKnown
<1>3. ClientInv /\ [NextClient]_<<vars, library>> => ClientInv'
  BY ClientStep
<1> QED BY <1>1, <1>2, <1>3, PTL DEF SpecClient
=============================================================================
