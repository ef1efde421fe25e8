-------------------------- MODULE MCGraphScheduler --------------------------
(* Small graphs for TLC.  Handle 1 holds five rowblocks of weights, handle 2 *)
(* the compute arena; a slab extent holds four cells.                        *)
EXTENDS GraphScheduler

CONSTANTS c1, c2

T(h, lo, n) == [h |-> h, lo |-> lo, n |-> n]

Cells == {<<1, i>> : i \in 0 .. 4} \cup {<<2, i>> : i \in 0 .. 8}

Mm(w, acts, rows, cols, lo) ==
  [kind |-> "mm", rows |-> rows, cols |-> cols,
   src  |-> <<T(1, w, Rowblocks(rows)), T(2, acts, cols)>>, dst |-> T(2, lo, rows * cols)]
Ps(src, dst)  == [kind |-> "ps", src |-> src, dst |-> dst]
Fails(kind)   == [kind |-> kind, src |-> <<T(2, 4, 1)>>, dst |-> T(2, 8, 1)]

Ops == {
  Mm(0, 0, 2, 1, 2),     \* pipelined, one rowblock
  Mm(1, 0, 4, 1, 4),     \* pipelined, two rowblocks
  Mm(3, 0, 3, 1, 4),     \* weights over two extents, odd rows: result_buf at the end
  Mm(0, 0, 2, 2, 4),     \* two columns
  Mm(0, 2, 2, 1, 6),     \* reads what the first one wrote
  Ps(<<T(2, 4, 4)>>, T(2, 0, 1)),             \* a whole result to the next column
  Ps(<<T(2, 6, 1), T(2, 0, 1)>>, T(2, 1, 1)), \* a view into a result
  Ps(<<T(2, 2, 2)>>, T(2, 2, 2)),             \* in place
  Ps(<<T(2, 0, 1)>>, T(2, 5, 2)),             \* overwrites inside a result
  Ps(<<T(2, 1, 1)>>, T(2, 8, 1)),             \* beside every result
  Fails("refused"), Fails("unknown")}

Graphs    == {ops \in BoundedSeq(Ops, 3) : ArenaSafe(ops)}
Run(ops)  == [kind |-> "graph", ops |-> ops, outputs_ok |-> TRUE]
Read(t)   == [kind |-> "download", t |-> t]
Write(t)  == [kind |-> "upload", t |-> t,
              data |-> [i \in 0 .. t.n - 1 |-> <<"up", t.lo + i>>]]

\* One client runs a graph, the other one makes requests of each kind.
Others == {<<Write(T(2, 2, 3)), [kind |-> "refused"]>>,
           <<[Run(<<Mm(1, 0, 4, 1, 4)>>) EXCEPT !.outputs_ok = FALSE], Read(T(2, 0, 9))>>}

DrainedScripts == {(c1 :> <<Run(g)>>) @@ (c2 :> o) : g \in {g \in Graphs : Drained(g)}, o \in Others}

\* A graph whose op raises while a matmul streams.
OrphanScripts  == {(c1 :> <<Run(<<Mm(1, 0, 4, 1, 4), Fails("unknown")>>)>>)
                     @@ (c2 :> <<Write(T(2, 4, 4))>>)}
=============================================================================
