---------------------------- MODULE MCPsKernels -----------------------------
(***************************************************************************)
(* An arena A of floats as ggml lays one out (X, Y and Z in it, results    *)
(* over any of them), packed weights W, a cache C of halves, a mask M and  *)
(* tables of indices I; each whole or cut over two slabs.                  *)
(***************************************************************************)
EXTENDS PsKernels

Ints(ns, w) == FlattenSeq([i \in DOMAIN ns |-> Whole(<<"int", ns[i]>>, w)])
Data(t, n, w) == FlattenSeq([i \in 1 .. n |-> Whole(<<"in", t, i>>, w)])

MCContents ==
  [A |-> Data("A", 16, F32),
   W |-> PackWeights(Q1Matrix(3, 1), 3, 1),
   C |-> Data("C", 16, F16),
   M |-> Data("M", 2, F16) \o <<<<NegInf, 1, 1>>>> \o Data("N", 1, F16),
   I |-> Ints(<<2, 0>>, I32) \o Ints(<<1, 0>>, I64) \o Ints(<<1, 7>>, I32) \o Ints(<<0, -1>>, I32)]

Order  == <<"A", "W", "C", "M", "I">>
Sizes  == [t \in DOMAIN MCContents |-> Len(MCContents[t])]

\* The first cut[t] cells of each tensor in slab s0, the rest in s1, one tensor after another.
Before(f, i) == FoldLeft(LAMBDA a, j : a + f[Order[j]], 0, [j \in 1 .. i - 1 |-> j])
Layout(cut) ==
  [t \in DOMAIN Sizes |->
     LET i    == CHOOSE j \in DOMAIN Order : Order[j] = t
         rest == [u \in DOMAIN Sizes |-> Sizes[u] - cut[u]]
     IN  [nbytes  |-> Sizes[t],
          extents |-> <<Extent("s0", Before(cut, i), cut[t])>>
                        \o (IF rest[t] = 0 THEN <<>> ELSE <<Extent("s1", Before(rest, i), rest[t])>>)]]

Cut(t, n) == [Sizes EXCEPT ![t] = n]

X == [t |-> "A", off |-> 0]
Y == [t |-> "A", off |-> 8]
Z == [t |-> "A", off |-> 16]
K == [t |-> "C", off |-> 0]
V == [t |-> "C", off |-> 8]
W0 == [t |-> "W", off |-> 0]
Table(n) == [t |-> "I", off |-> n]

Binary(kind, rows, cols, bc, dst) ==
  [kind |-> kind, rows |-> rows, cols |-> cols, src1_broadcast |-> bc, src0 |-> X, src1 |-> Y, dst |-> dst]
Unary(kind, n, dst) == [kind |-> kind, elements |-> n, scale |-> "given", src |-> X, dst |-> dst]
Norm(kind, dst) == [kind |-> kind, rows |-> 2, cols |-> 2, eps |-> "given", src |-> X, src1 |-> Y, dst |-> dst]
Rope(dims, neox, dst) ==
  [kind |-> "ROPE", head_dim |-> 4, n_head |-> 1, n_token |-> 2, n_dims |-> dims, neox |-> neox,
   src |-> X, positions |-> Table(0), dst |-> dst]
Move(n, src, dst)   == [kind |-> "COPY", nbytes |-> n, src |-> src, dst |-> dst]
Halves(n, src, dst) == [kind |-> "COPY_F16", elements |-> n, src |-> src, dst |-> dst]
Matmul(k, dst) == [kind |-> "MATMUL", rows |-> 3, cols |-> 2, k |-> k, weights |-> W0, acts |-> X, dst |-> dst]

Get(type, ix, nb1, planes, dst) ==
  [kind |-> "GET_ROWS", src0_type |-> type, idx_elem |-> I32, head_dim |-> 2, ne01 |-> 3, n |-> 2,
   planes |-> planes, idx_planes |-> planes, indices_nb1 |-> IF planes = 1 THEN 4 ELSE 12, src0_nb1 |-> nb1,
   src0_nb2 |-> IF planes = 1 THEN 0 ELSE 8, dst_nb1 |-> 4, dst_nb2 |-> 8,
   src0 |-> CASE type = "q1_0" -> W0 [] type = "f16" -> K [] OTHER -> X,
   indices |-> Table(ix), dst |-> dst]
Set(elem, ix, planes) ==
  [kind |-> "SET_ROWS", dst_type |-> "f16", idx_elem |-> elem, head_dim |-> 2, n |-> 2, planes |-> planes,
   idx_planes |-> 1, indices_nb1 |-> 2 * elem, src0_nb1 |-> 4, src0_nb2 |-> 8, dst_nb1 |-> 2,
   dst_nb2 |-> 8, src0 |-> X, indices |-> Table(ix), dst |-> K]

\* q_nb1 and k_nb1 are the strides of tokens and positions, q_nb2 and k_nb2 those of heads.
Attn(tokenMajor, mask, kv) ==
  [kind |-> "FLASH_ATTN", head_dim_q |-> 2, head_dim_v |-> 2, n_head |-> 2, n_head_kv |-> 2, n_kv |-> kv,
   n_token |-> IF tokenMajor THEN 1 ELSE 2, alibi |-> FALSE, has_mask |-> mask, mask_nb1 |-> 2,
   q_nb1 |-> 4, q_nb2 |-> IF tokenMajor THEN 4 ELSE 8,
   k_nb1 |-> IF tokenMajor THEN 4 ELSE 2, k_nb2 |-> IF tokenMajor THEN 2 ELSE 4,
   v_nb1 |-> IF tokenMajor THEN 4 ELSE 2, v_nb2 |-> IF tokenMajor THEN 2 ELSE 4,
   dst_nb1 |-> 4, dst_nb2 |-> 8, q |-> X, k |-> K, v |-> V, mask |-> [t |-> "M", off |-> 0], dst |-> Z]

ElementOps ==
  {Binary("ADD", 2, 2, FALSE, Z), Binary("MUL", 2, 2, TRUE, X), Binary("ADD", 2, 1, FALSE, Y),
   Binary("ADD", 0, 2, FALSE, Z), Unary("SCALE", 4, X), Unary("SILU", 4, Z),
   Unary("SILU", 4, [t |-> "none", off |-> 0]), Unary("SCALE", 9, Z),
   [Unary("SCALE", 4, Z) EXCEPT !.scale = "missing"],
   [Binary("SWIGLU", 1, 1, FALSE, Y) EXCEPT !.kind = "SWIGLU"] @@ [elements |-> 4],
   Norm("RMS_NORM", X), Norm("RMS_NORM_MUL", Z), Norm("RMS_NORM_MUL", X),
   Rope(4, TRUE, X), Rope(2, FALSE, X), Rope(4, FALSE, Z), Rope(3, FALSE, Z)}
OtherOps ==
  {Move(6, X, [X EXCEPT !.off = 2]), Move(8, V, K), Move(8, [V EXCEPT !.off = 10], K),
   Halves(4, X, [X EXCEPT !.off = 0]), Halves(4, Y, K), Halves(0, Y, K),
   Matmul(2, Z), Matmul(2, [X EXCEPT !.off = 4]), Matmul(3, Z),
   Set(I32, 0, 2), Set(I64, 4, 1), Set(I32, 12, 1), Set(I32, 16, 1)}
AttnOps == {Attn(FALSE, TRUE, 2), Attn(FALSE, FALSE, 2), Attn(FALSE, FALSE, 5)}
RowOps ==
  {Get("f32", 0, 4, 1, Z), Get("f16", 0, 2, 2, Z), Get("q1_0", 0, 4, 1, Z),
   Get("f32", 12, 4, 1, Z), [Get("q1_0", 0, 4, 1, Z) EXCEPT !.head_dim = 1]}

Board(pynq, cut, ops) == [pynq |-> pynq, tensors |-> Layout(cut), ops |-> ops]

RowCuts == {Sizes, Cut("A", 4), Cut("A", 20), Cut("W", 12), Cut("C", 2)}
AnyCuts == {Cut("A", 6), Cut("A", 18), Cut("W", 5), Cut("C", 3), Cut("C", 9), Cut("M", 1), Cut("I", 3)}

\* A cache as llama.cpp lays one out: the heads of a position lie side by side.
CacheOps == {Attn(TRUE, FALSE, 2), Attn(TRUE, TRUE, 2)}

\* Every op on every layout, but GET_ROWS only where no row is cut, and attention over the
\* cache only where the cache is whole.
MCCases ==
  {Board(pynq, cut, ElementOps \cup OtherOps \cup AttnOps
                      \cup (IF cut.C = Sizes.C THEN CacheOps ELSE {})) :
     pynq \in BOOLEAN, cut \in RowCuts \cup AnyCuts}
  \cup {Board(pynq, cut, RowOps) : pynq \in BOOLEAN, cut \in RowCuts \cup {Cut("I", 3)}}

\* Attention where the allocator has cut the cache.
CutCacheCases == {Board(TRUE, Cut("C", n), CacheOps) : n \in 1 .. Sizes.C - 1}
=============================================================================
