-------------------------- MODULE MulticardPrograms --------------------------
(***************************************************************************)
(* The reference programs that spread their work over several domains: the *)
(* host, when they are told to use it, and the cards.  Their buffers are   *)
(* aliased, so that what a stream of the host works on is the source's own *)
(* memory.                                                                 *)
(*                                                                         *)
(* A configuration w is what main derives from the command line:           *)
(*   size      tiles, or blocks, on a side of the square matrix            *)
(*   streams   max_log_str, the streams of a domain                        *)
(*   use_host  whether the host is domain 0                                *)
(*   mics      the number of cards                                         *)
(*   balance   LB: each card gets two shares of the product                *)
(***************************************************************************)
EXTENDS RefPrograms

num_doms(w) == w.mics + IF w.use_host THEN 1 ELSE 0

\* The domains, with where each works and its number of places.
domains(w) ==
  [d \in 1 .. num_doms(w) |->
     [at |-> IF w.use_host /\ d = 1 THEN Source
             ELSE Card(IF w.use_host THEN d - 2 ELSE d - 1),
      places |-> w.streams]]

\* hStreams_custom_init_selected_domains, with one logical domain for each
\* physical one and one stream for each place: streams are numbered domain by
\* domain, from stream_offset on in the version of the Cholesky factorisation.
StreamPlaces(doms) ==
  FlattenSeq([i \in DOMAIN doms |-> [p \in 1 .. doms[i].places |-> doms[i].at]])

custom_init_from(doms, stream_offset) ==
  LET place == StreamPlaces(doms)
  IN [s \in stream_offset .. stream_offset + Len(place) - 1 |-> place[s - stream_offset + 1]]

custom_init(doms) == custom_init_from(doms, 0)

-----------------------------------------------------------------------------
(* The matrix product: columns of B and C are dealt out to the shares, and *)
(* every share gets all of A.                                              *)

\* Without the balance the program insists, when it uses the host and cards, on
\* one column and one stream for each domain; with it, on one for each share.
shares(w) == num_doms(w) + IF w.balance THEN w.mics ELSE 0
columns(w) == w.size \div shares(w)
card_id(w, k) == IF w.balance /\ k >= shares(w) - w.mics THEN k - w.mics ELSE k

\* The stream for block i of share k = 0, block i + k * columns of share k, which
\* is in row `row` of its matrix.
qindex(w, i, k, row) == ((i + row * columns(w)) % w.streams) + card_id(w, k) * w.streams

\* What to do for block i of share 0 and for its counterparts in the others.
InEachShare(w, i, Body(_, _)) ==
  If(i % w.size < columns(w), For(0, shares(w) - 1, LAMBDA k : Body(k, i + k * columns(w))))

SendToShares(w, arrival) ==
  LET a == arrival.is[1]
      b == arrival.is[2]
  IN If(a > arrival.was[1],
        For(0, shares(w) - 1, LAMBDA k :
          <<ToSink((a % w.streams) + card_id(w, k) * w.streams, <<"A", a>>, <<"Acpy", a, k>>)>>))
     \o If(b > arrival.was[2],
           InEachShare(w, b, LAMBDA k, j :
             <<ToSink(qindex(w, b, k, j \div w.size), <<"B", j>>, <<"Bcpy", j>>)>>))

\* A block of C is updated where its share is.  Acpy names the transfer of the
\* block of A that is waited for.
UpdateInShare(w, a, b, k, Acpy) ==
  LET c == cblock_index(a, b, w.size, w.size)
      q == qindex(w, c - k * columns(w), k, c \div w.size)
      after(event) == app_event_wait_in_stream(q, {event}, <<>>)
  IN If(a \div w.size = b \div w.size,
        <<after(<<"Bcpy", b>>), after(Acpy), after(<<"Cset", c>>),
          app_invoke(q, "dgemm", <<<<"B", b>>, <<"A", a>>, <<"C", c>>>>, <<"Ccpy", c>>)>>)

\* A new block of B waits for A to reach share 0, whichever share it is in.
MultiplyInShares(w, count) ==
  IF count[1] + count[2] < 0 THEN <<>>
  ELSE IF count[1] > count[2]
  THEN For(0, count[2], LAMBDA j :
         InEachShare(w, j, LAMBDA k, b :
           UpdateInShare(w, count[1], b, k, <<"Acpy", count[1], k>>)))
  ELSE For(0, count[1], LAMBDA i :
         InEachShare(w, count[2], LAMBDA k, b :
           UpdateInShare(w, i, b, k, <<"Acpy", i, 0>>)))

Gather(w) ==
  For(0, w.size * w.size - 1, LAMBDA i : InEachShare(w, i, LAMBDA k, c :
    <<app_stream_sync((i % w.streams) + card_id(w, k) * w.streams),
      ToSource(qindex(w, i, k, c \div w.size), <<"C", c>>, <<"Ccpy", c>>)>>))

matrixMultiply_multicard(w) ==
  LET total == w.size * w.size
      arrivals == Arrivals(-1, -1, total, total)
  IN [OnCard(
        For(0, total - 1, LAMBDA i : InEachShare(w, i, LAMBDA k, c :
          <<app_invoke(qindex(w, i, k, c \div w.size), "memset", <<<<"C", c>>>>, <<"Cset", c>>)>>))
        \o For(1, Len(arrivals), LAMBDA i :
             SendToShares(w, arrivals[i]) \o MultiplyInShares(w, arrivals[i].is))
        \o Gather(w)
        \o <<app_thread_sync, HostTask("read", Blocks("C", total))>>,
        0, Product(w.size, w.size, w.size))
      EXCEPT !.place = custom_init(domains(w))]

-----------------------------------------------------------------------------
(* Cholesky: the host factorises the diagonal and solves the columns, in   *)
(* streams of its own or, when it is not a domain, itself; the rows are    *)
(* dealt out to the domains for the updates.                               *)

\* With the host comes a stream over all of it, number 0, for dpotrf.
machine_wide(w) ==
  IF w.use_host THEN custom_init_from(<<[at |-> Source, places |-> 1]>>, 0) ELSE <<>>
offset(w) == IF w.use_host THEN 1 ELSE 0
InDomain(w, q, d) == (q % w.streams) + d * w.streams + offset(w)

\* The updates of step k in domain d, <<n, m>> before those of the next column.
Updates(w, k, d) ==
  {<<n, m>> \in (k + 1 .. w.size - 1) \X (k + 1 .. w.size - 1) : n <= m /\ m % num_doms(w) = d}

\* q_syrk_gemm[0] when step k begins, and q_trsm when its solves do.
StepStart(w) ==
  LET start[k \in 0 .. w.size] ==
        IF k = 0 THEN 0
        ELSE Cardinality(Updates(w, k - 1, 0))
             + IF w.use_host THEN start[k - 1] + w.size - k ELSE 0
  IN start
q_trsm(w, k, m) == StepStart(w)[k] + m - k - 1 + IF w.use_host THEN 0 ELSE 1

q_syrk_gemm(w, k, n, m) ==
  LET d == m % num_doms(w)
      earlier == {u \in Updates(w, k, d) : u[1] < n \/ (u[1] = n /\ u[2] < m)}
  IN Cardinality(earlier)
     + IF w.use_host /\ d = 0 THEN q_trsm(w, k, k + 1) + w.size - k - 1 ELSE 0

\* The host waits for an event, or its stream does.
HostWait(w, q, event) ==
  IF w.use_host THEN <<app_event_wait_in_stream(q, {event}, <<>>)>> ELSE <<app_event_wait({event})>>

PotrfOnHost(w, k) ==
  LET q == IF w.use_host THEN 0 ELSE StepStart(w)[k] % w.streams
  IN If(w.use_host /\ k = 0, <<ToSink(q, Tile(k, k), <<"cpyto", k, k>>)>>)
     \o If(k > 0, HostWait(w, q, <<"cpyfr", k, k>>))
     \o IF w.use_host THEN <<app_invoke(q, "dpotrf", <<Tile(k, k)>>, <<"potrf", k, k>>)>>
        ELSE <<HostTask("dpotrf", <<Tile(k, k)>>)>>

\* Each solved tile goes to all domains.
TrsmOnHost(w, k) ==
  For(k + 1, w.size - 1, LAMBDA m :
    LET q == InDomain(w, q_trsm(w, k, m), 0)
    IN If(w.use_host /\ k = 0, <<ToSink(q, Tile(m, k), <<"cpyto", m, k>>)>>)
       \o If(k > 0, HostWait(w, q, <<"cpyfr", m, k>>))
       \o (IF w.use_host
           THEN <<app_event_wait_in_stream(q, {<<"potrf", k, k>>}, <<>>),
                  app_invoke(q, "dtrsm", <<Tile(k, k), Tile(m, k)>>, <<"trsm", m, k>>)>>
           ELSE <<HostTask("dtrsm", <<Tile(k, k), Tile(m, k)>>)>>)
       \o For(0, num_doms(w) - 1, LAMBDA d :
            LET to == InDomain(w, q_trsm(w, k, m), d)
            IN If(w.use_host, <<app_event_wait_in_stream(to, {<<"trsm", m, k>>}, <<>>)>>)
               \o <<ToSink(to, Tile(m, k), <<"cpyto_trsm", m, k, d>>)>>))

\* One update.  The first column goes back to the host when it is done.
UpdateTile(w, k, n, m) ==
  LET d == m % num_doms(w)
      q == InDomain(w, q_syrk_gemm(w, k, n, m), d)
      after(event) == app_event_wait_in_stream(q, {event}, <<>>)
      update == IF m = n THEN "syrk" ELSE "gemm"
  IN If(k = 0, <<ToSink(q, Tile(m, n), <<"cpyto", m, n>>)>>)
     \o <<after(<<"cpyto_trsm", m, k, d>>)>>
     \o If(m # n, <<after(<<"cpyto_trsm", n, k, d>>)>>)
     \o If(k > 0, <<after(<<update, m, n>>)>>)
     \o (IF m = n THEN <<app_invoke(q, "dsyrk", <<Tile(n, k), Tile(n, n)>>, <<update, n, n>>)>>
         ELSE <<app_invoke(q, "dgemm", <<Tile(m, k), Tile(n, k), Tile(m, n)>>, <<update, m, n>>)>>)
     \o If(n = k + 1, <<ToSource(q, Tile(m, n), <<"cpyfr", m, n>>)>>)

cholesky_tiled_multicard(w) ==
  [OnCard(
     For(0, w.size - 1, LAMBDA k :
       PotrfOnHost(w, k) \o TrsmOnHost(w, k)
       \o For(k + 1, w.size - 1, LAMBDA n : For(n, w.size - 1, LAMBDA m : UpdateTile(w, k, n, m))))
     \o <<app_thread_sync, HostTask("read", LowerTiles(w.size))>>,
     0, tiled_cholesky(w.size))
   EXCEPT !.place = machine_wide(w) @@ custom_init_from(domains(w), offset(w))]
=============================================================================
