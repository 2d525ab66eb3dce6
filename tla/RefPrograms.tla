----------------------------- MODULE RefPrograms -----------------------------
(***************************************************************************)
(* The reference programs that use one card: the tiled Cholesky and LU     *)
(* factorisations and the blocked matrix product, each as the list of      *)
(* library calls its host thread makes in one iteration, together with     *)
(* what the sequential algorithm computes.                                 *)
(*                                                                         *)
(* Tiles are numbered from 0, as in the code.  An event variable is named  *)
(* for the array it is in and its index there, eventtrsm[m * num_tiles + k]*)
(* being <<"trsm", m, k>>.                                                 *)
(***************************************************************************)
EXTENDS StreamProgram

\* A program whose streams are all on one card and whose tiles are buffers.
OnCard(commands, streams, expected) ==
  [commands |-> commands,
   place    |-> [s \in 0 .. streams - 1 |-> Card(0)],
   bufferOf |-> [t \in DOMAIN expected |-> t],
   expected |-> expected]

Tile(m, n) == <<"A", m, n>>

\* A tile, or block, keeps its proxy address on the card.
ToSink(s, t, event) == app_xfer_memory(s, t, t, "SRC_TO_SINK", event)
ToSource(s, t, event) == app_xfer_memory(s, t, t, "SINK_TO_SRC", event)

-----------------------------------------------------------------------------
(* Cholesky.                                                               *)

\* The diagonal tile is factorised by the host.
CholeskyPotrf(T, S, k) ==
  If(k > 0, <<app_event_wait({<<"syrk", k, k>>}),
              ToSource(k % S, Tile(k, k), <<"cpyfr", k, k>>),
              app_event_wait({<<"cpyfr", k, k>>})>>)
  \o <<HostTask("dpotrf", <<Tile(k, k)>>)>>
  \o If(k < T - 1, <<ToSink(k % S, Tile(k, k), <<"cpyto", k, k>>)>>)

\* The column below it, tile m in stream m - k - 1.
CholeskyTrsm(T, S, k) ==
  For(k + 1, T - 1, LAMBDA m :
    LET q == (m - k - 1) % S
    IN If(k = 0, <<ToSink(q, Tile(m, k), <<"cpyto", m, k>>)>>)
       \o <<app_event_wait({<<"cpyto", k, k>>})>>
       \o If(k > 0, <<app_event_wait({<<"gemm", m, k>>})>>)
       \o <<app_invoke(q, "dtrsm", <<Tile(k, k), Tile(m, k)>>, <<"trsm", m, k>>),
            ToSource(q, Tile(m, k), <<"cpyfr", m, k>>)>>)

\* The rest, a column at a time.  q_syrk_gemm counts the updates of this k: those
\* of column n come after T - j of each column j before it.
FirstUpdate(T, k, n) == FoldSet(LAMBDA j, sum : T - j + sum, 0, k + 1 .. n - 1)

CholeskyUpdate(T, S, k) ==
  For(k + 1, T - 1, LAMBDA n :
    LET q(m) == (FirstUpdate(T, k, n) + m - n) % S
    IN If(k = 0, <<ToSink(q(n), Tile(n, n), <<"cpyto", n, n>>)>>)
       \o <<app_event_wait({<<"trsm", n, k>>})>>
       \o If(k > 0, <<app_event_wait({<<"syrk", n, n>>})>>)
       \o <<app_invoke(q(n), "dsyrk", <<Tile(n, k), Tile(n, n)>>, <<"syrk", n, n>>)>>
       \o For(n + 1, T - 1, LAMBDA m :
            If(k = 0, <<ToSink(q(m), Tile(m, n), <<"cpyto", m, n>>)>>)
            \o <<app_event_wait({<<"trsm", m, k>>}), app_event_wait({<<"trsm", n, k>>})>>
            \o If(k > 0, <<app_event_wait({<<"gemm", m, n>>})>>)
            \o <<app_invoke(q(m), "dgemm", <<Tile(m, k), Tile(n, k), Tile(m, n)>>,
                            <<"gemm", m, n>>)>>))

LowerTiles(T) == For(0, T - 1, LAMBDA m : For(0, m, LAMBDA n : <<Tile(m, n)>>))

\* The tiled factorisation of one host thread.
tiled_cholesky(T) ==
  Sequentially(
    For(0, T - 1, LAMBDA k :
      <<<<"dpotrf", <<Tile(k, k)>>>>>>
      \o For(k + 1, T - 1, LAMBDA m : <<<<"dtrsm", <<Tile(k, k), Tile(m, k)>>>>>>)
      \o For(k + 1, T - 1, LAMBDA n :
           <<<<"dsyrk", <<Tile(n, k), Tile(n, n)>>>>>>
           \o For(n + 1, T - 1, LAMBDA m :
                <<<<"dgemm", <<Tile(m, k), Tile(n, k), Tile(m, n)>>>>>>))),
    [t \in Range(LowerTiles(T)) |-> Made(t, <<>>)])

\* num_tiles = T, max_log_str = S.
cholesky_tiled(T, S) ==
  OnCard(For(0, T - 1, LAMBDA k :
               CholeskyPotrf(T, S, k) \o CholeskyTrsm(T, S, k) \o CholeskyUpdate(T, S, k))
         \o <<app_thread_sync, HostTask("read", LowerTiles(T))>>,
         S, tiled_cholesky(T))

-----------------------------------------------------------------------------
(* LU, without pivoting.                                                   *)

LuGetrf(T, S, k) ==
  If(k > 0, <<app_event_wait({<<"gemm", k, k>>}),
              ToSource(k % S, Tile(k, k), <<"cpyfr", k, k>>),
              app_event_wait({<<"cpyfr", k, k>>})>>)
  \o <<HostTask("dgetrf", <<Tile(k, k)>>)>>
  \o If(k < T - 1, <<ToSink(k % S, Tile(k, k), <<"cpyto", k, k>>)>>)

\* A tile of the column and the one of the row across from it.  Both solves are
\* given the event of the column's tile, which then stands for the second.
LuTrsm(T, S, k) ==
  For(k + 1, T - 1, LAMBDA m :
    LET q == (m - k - 1) % S
    IN If(k = 0, <<ToSink(q, Tile(m, k), <<"cpyto", m, k>>),
                   ToSink(q, Tile(k, m), <<"cpyto", k, m>>)>>)
       \o <<app_event_wait({<<"cpyto", k, k>>})>>
       \o If(k > 0, <<app_event_wait({<<"gemm", m, k>>}), app_event_wait({<<"gemm", k, m>>})>>)
       \o <<app_invoke(q, "dtrsm right", <<Tile(k, k), Tile(m, k)>>, <<"trsm", m, k>>),
            app_invoke(q, "dtrsm left", <<Tile(k, k), Tile(k, m)>>, <<"trsm", m, k>>),
            ToSource(q, Tile(m, k), <<"cpyfr", m, k>>),
            ToSource(q, Tile(k, m), <<"cpyfr", k, m>>)>>)

\* <<"trsm", k, n>> is waited for but is never set.
LuUpdate(T, S, k) ==
  For(k + 1, T - 1, LAMBDA m : For(k + 1, T - 1, LAMBDA n :
    LET q == ((m - k - 1) * (T - k - 1) + n - k - 1) % S
    IN If(k = 0, <<ToSink(q, Tile(m, n), <<"cpyto", m, n>>)>>)
       \o <<app_event_wait({<<"trsm", m, k>>}), app_event_wait({<<"trsm", k, n>>})>>
       \o If(k > 0, <<app_event_wait({<<"gemm", m, n>>})>>)
       \o <<app_invoke(q, "dgemm", <<Tile(m, k), Tile(k, n), Tile(m, n)>>, <<"gemm", m, n>>)>>))

AllTiles(T) == For(0, T - 1, LAMBDA m : For(0, T - 1, LAMBDA n : <<Tile(m, n)>>))

tiled_lu(T) ==
  Sequentially(
    For(0, T - 1, LAMBDA k :
      <<<<"dgetrf", <<Tile(k, k)>>>>>>
      \o For(k + 1, T - 1, LAMBDA m :
           <<<<"dtrsm right", <<Tile(k, k), Tile(m, k)>>>>,
             <<"dtrsm left", <<Tile(k, k), Tile(k, m)>>>>>>)
      \o For(k + 1, T - 1, LAMBDA m : For(k + 1, T - 1, LAMBDA n :
           <<<<"dgemm", <<Tile(m, k), Tile(k, n), Tile(m, n)>>>>>>))),
    [t \in Range(AllTiles(T)) |-> Made(t, <<>>)])

lu_tiled(T, S) ==
  OnCard(For(0, T - 1, LAMBDA k : LuGetrf(T, S, k) \o LuTrsm(T, S, k) \o LuUpdate(T, S, k))
         \o <<app_thread_sync, HostTask("read", AllTiles(T))>>,
         S, tiled_lu(T))

-----------------------------------------------------------------------------
(* The matrix product: A of mb by kb blocks, B of kb by nb.  Blocks of A   *)
(* are numbered column by column, those of B and C row by row.             *)

Blocks(name, count) == For(0, count - 1, LAMBDA i : <<<<name, i>>>>)

\* The pairs of counters <<countA, countB>> the loop goes through: a block of A
\* and one of B arrive in turn until one of them runs out.
Arrivals(a, b, TA, TB) ==
  LET next(p) == IF (p[1] <= p[2] \/ p[2] = TB - 1) /\ p[1] < TA - 1
                 THEN <<p[1] + 1, p[2]>> ELSE <<p[1], p[2] + 1>>
      pair[i \in 0 .. TA + TB] == IF i = 0 THEN <<a, b>> ELSE next(pair[i - 1])
  IN [i \in 1 .. TA + TB |-> [was |-> pair[i - 1], is |-> pair[i]]]

\* The block of C that blocks i of A and j of B contribute to.
cblock_index(i, j, mb, nb) == (i % mb) * nb + (j % nb)

\* The multiplications a new block makes possible: with every block of the other
\* matrix that is already there and matches it.
Multiply(count, mb, nb, Compute(_, _)) ==
  LET matching(i, j) == i \div mb = j \div nb
  IN IF count[1] + count[2] < 0 THEN <<>>
     ELSE IF count[1] > count[2]
     THEN For(0, count[2], LAMBDA j : If(matching(count[1], j), Compute(count[1], j)))
     ELSE For(0, count[1], LAMBDA i : If(matching(i, count[2]), Compute(i, count[2])))

\* What assembling A and B from their blocks and multiplying them comes to.
Product(mb, kb, nb) ==
  LET factor(name, i) == Made(<<name, i>>, <<>>)
      block(r, c) == [Made(<<"zero">>, <<>>) EXCEPT !.plus =
                        {<<factor("B", x * nb + c), factor("A", r + x * mb)>> : x \in 0 .. kb - 1}]
  IN [t \in Range(Blocks("A", mb * kb) \o Blocks("B", kb * nb) \o Blocks("C", mb * nb)) |->
        IF t[1] = "C" THEN block(t[2] \div nb, t[2] % nb) ELSE Made(t, <<>>)]

MultiplyBlocks(count, mb, nb, S) ==
  Multiply(count, mb, nb, LAMBDA i, j :
    LET c == cblock_index(i, j, mb, nb)
    IN <<app_event_wait({<<"Bcpy", j>>}), app_event_wait({<<"Acpy", i>>}),
         app_event_wait({<<"Cset", c>>}),
         app_invoke(c % S, "dgemm", <<<<"B", j>>, <<"A", i>>, <<"C", c>>>>, <<"Ccpy", c>>)>>)

SendBlocks(arrival, S) ==
  LET a == arrival.is[1]
      b == arrival.is[2]
  IN If(a > arrival.was[1], <<ToSink(a % S, <<"A", a>>, <<"Acpy", a>>)>>)
     \o If(b > arrival.was[2], <<ToSink(b % S, <<"B", b>>, <<"Bcpy", b>>)>>)

matrixMultiply(mb, kb, nb, S) ==
  LET arrivals == Arrivals(-1, -1, mb * kb, kb * nb)
      total_C == mb * nb
  IN OnCard(
       For(0, total_C - 1, LAMBDA i :
         <<app_invoke(i % S, "memset", <<<<"C", i>>>>, <<"Cset", i>>)>>)
       \o For(1, Len(arrivals), LAMBDA i :
            SendBlocks(arrivals[i], S) \o MultiplyBlocks(arrivals[i].is, mb, nb, S))
       \o For(0, total_C - 1, LAMBDA i :
            <<app_stream_sync(i % S), ToSource(i % S, <<"C", i>>, <<"Ccpy", i>>)>>)
       \o <<app_thread_sync, HostTask("read", Blocks("C", total_C))>>,
       S, Product(mb, kb, nb))
=============================================================================
