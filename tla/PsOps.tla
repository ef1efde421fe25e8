------------------------------- MODULE PsOps --------------------------------
(***************************************************************************)
(* What the ARM's graph ops compute, as functions of whole tensors: the    *)
(* meaning that ggml gives to the op codes of proto/ops.py, with no        *)
(* pointers, slabs or copies.                                              *)
(*                                                                         *)
(* A heap maps <<name, offset>> to cells of two bytes as in Q1A8Layout: an *)
(* f16 is one cell, an f32 or an i32 two, an i64 four.  A value is a term  *)
(* naming what it was computed from, so that two results are equal only if *)
(* they are the same expression of the same inputs.                        *)
(***************************************************************************)
EXTENDS Q1A8Layout, FiniteSets, TLC

CONSTANT Q8_BLOCK    \* elements of a Q8 sub-block (32)

F16 == 1
F32 == 2
I32 == 2
I64 == 4
Q1_BLOCK == Q8_SUBBLOCKS * Q8_BLOCK

Wild   == <<"wild">>      \* read from outside the buffers, or from half a value
NegInf == <<"-inf">>
NoMask == <<"zero">>

At(p, d) == <<p[1], p[2] + d>>
Upto(n)  == [i \in 1 .. n |-> i - 1]

\* A value of w cells in a heap, and a heap with one more.
Load(h, p, w) ==
  IF \A j \in 1 .. w : At(p, j - 1) \in DOMAIN h /\ h[At(p, j - 1)] = <<h[p][1], j, w>>
  THEN h[p][1] ELSE Wild

Store(h, p, w, v) ==
  [q \in DOMAIN h |-> IF q[1] = p[1] /\ q[2] - p[2] \in 0 .. w - 1
                      THEN <<v, q[2] - p[2] + 1, w>> ELSE h[q]]

IntOf(v) == IF v \in {"int"} \X Int THEN v[2] ELSE -1
-----------------------------------------------------------------------------
(* The value of element i of each op's result; T is the tensors' heap, and *)
(* x = [t, off] a place in a tensor.                                       *)

El(T, x, i, w) == Load(T, <<x.t, x.off + i>>, w)

AddEl(T, op, i) == <<op.kind, El(T, op.src0, i * F32, F32),
                     El(T, op.src1, (IF op.src1_broadcast THEN i % op.rows ELSE i) * F32, F32)>>
ScaleEl(T, op, i)  == <<op.kind, El(T, op.src, i * F32, F32)>>
SwigluEl(T, op, i) == <<op.kind, El(T, op.src0, i * F32, F32), El(T, op.src1, i * F32, F32)>>
HalfEl(T, op, i)   == <<"half", El(T, op.src, i * F32, F32)>>

NormEl(T, op, i) ==
  LET first  == (i \div op.rows) * op.rows
      normed == <<"norm", El(T, op.src, i * F32, F32),
                  [r \in 1 .. op.rows |-> El(T, op.src, (first + r - 1) * F32, F32)]>>
  IN  IF op.kind = "RMS_NORM" THEN normed
      ELSE <<"mul", normed, El(T, op.src1, (i - first) * F32, F32)>>

\* Element e of a head is half `part` of pair j.
RopeEl(T, op, i) ==
  LET e    == i % op.head_dim
      half == op.n_dims \div 2
      j    == IF op.neox THEN e % half ELSE e \div 2
      part == IF op.neox THEN e \div half ELSE e % 2
      head == i - e
      x(n) == El(T, op.src, (head + (IF op.neox THEN j + n * half ELSE 2 * j + n)) * F32, F32)
      pos  == El(T, op.positions, (i \div (op.head_dim * op.n_head)) * I32, I32)
  IN  IF e >= op.n_dims THEN El(T, op.src, i * F32, F32)
      ELSE <<IF part = 0 THEN "rot0" ELSE "rot1", x(0), x(1), pos, j>>

\* Row-major weights against one column of activations.
MatmulEl(T, op, i) ==
  LET row == i % op.rows
      col == i \div op.rows
  IN  <<"dot", [s \in 1 .. op.k \div Q8_BLOCK |->
                 LET q1  == (s - 1) \div Q8_SUBBLOCKS
                     sub == (s - 1) % Q8_SUBBLOCKS
                 IN  <<ScaleOf(row, q1), BitsOf(row, q1, sub),
                       [e \in 1 .. Q8_BLOCK |->
                          El(T, op.acts, (col * op.k + (s - 1) * Q8_BLOCK + e - 1) * F32, F32)]>>]>>

\* Element d of the attention of query head hq at token t.
AttnEl(T, op, t, hq, d) ==
  LET hk      == hq \div (op.n_head \div op.n_head_kv)
      mask(c) == IF op.has_mask THEN El(T, op.mask, t * op.mask_nb1 + (c - 1) * F16, F16) ELSE NoMask
      seen    == SelectSeq([c \in 1 .. op.n_kv |-> c], LAMBDA c : mask(c) # NegInf)
      key(c)  == [e \in 1 .. op.head_dim_q |->
                    El(T, op.k, (c - 1) * op.k_nb1 + hk * op.k_nb2 + (e - 1) * F16, F16)]
  IN  <<"attn",
        [e \in 1 .. op.head_dim_q |-> El(T, op.q, t * op.q_nb1 + hq * op.q_nb2 + (e - 1) * F32, F32)],
        [n \in DOMAIN seen |->
           <<mask(seen[n]), key(seen[n]),
             El(T, op.v, (seen[n] - 1) * op.v_nb1 + hk * op.v_nb2 + d * F16, F16)>>]>>

\* Row i of plane i2 of GET_ROWS and SET_ROWS: the index that the table gives for it.
RowIndex(T, op, i, i2) ==
  IntOf(El(T, op.indices, i * op.idx_elem + (i2 % op.idx_planes) * op.indices_nb1, op.idx_elem))

RowEl(T, op, row, i2, d) ==
  IF op.src0_type = "q1_0"
  THEN <<"dequant", ScaleOf(row, d \div Q1_BLOCK),
         BitsOf(row, d \div Q1_BLOCK, (d % Q1_BLOCK) \div Q8_BLOCK), d % Q8_BLOCK>>
  ELSE IF op.src0_type = "f16"
  THEN <<"float", El(T, op.src0, row * op.src0_nb1 + i2 * op.src0_nb2 + d * F16, F16)>>
  ELSE El(T, op.src0, row * op.src0_nb1 + i2 * op.src0_nb2 + d * F32, F32)
-----------------------------------------------------------------------------
(* The tensors after an op. *)

Flat(T, x, n, w, val) ==
  [p \in {<<x.t, x.off + c>> : c \in 0 .. n * w - 1} |->
     <<val[((p[2] - x.off) \div w) + 1], ((p[2] - x.off) % w) + 1, w>>] @@ T

\* Rows i of planes i2, at dst + i * nb1 + i2 * nb2 of the given heap.
Rows(op) == FlattenSeq([i2 \in 1 .. op.planes |-> [i \in 1 .. op.n |-> <<i - 1, i2 - 1>>]])

Gathered(T, op) ==
  FoldLeft(LAMBDA h, r :
      Flat(h, [op.dst EXCEPT !.off = @ + r[1] * op.dst_nb1 + r[2] * op.dst_nb2], op.head_dim, F32,
           [d \in 1 .. op.head_dim |-> RowEl(T, op, RowIndex(T, op, r[1], r[2]), r[2], d - 1)]),
    T, Rows(op))

Scattered(T, op) ==
  FoldLeft(LAMBDA h, r :
      Flat(h, [op.dst EXCEPT !.off = @ + RowIndex(T, op, r[1], r[2]) * op.dst_nb1 + r[2] * op.dst_nb2],
           op.head_dim, F16,
           [d \in 1 .. op.head_dim |->
              <<"half", El(T, op.src0, r[1] * op.src0_nb1 + r[2] * op.src0_nb2 + (d - 1) * F32, F32)>>]),
    T, Rows(op))

Attended(T, op) ==
  FoldLeft(LAMBDA h, th :
      LET t  == th \div op.n_head
          hq == th % op.n_head
      IN  Flat(h, [op.dst EXCEPT !.off = @ + hq * op.dst_nb1 + t * op.dst_nb2], op.head_dim_v, F32,
               [d \in 1 .. op.head_dim_v |-> AttnEl(T, op, t, hq, d - 1)]),
    T, Upto(op.n_token * op.n_head))

Expected(T, op) ==
  CASE op.kind \in {"ADD", "MUL"} ->
         LET n == op.rows * op.cols IN Flat(T, op.dst, n, F32, [i \in 1 .. n |-> AddEl(T, op, i - 1)])
    [] op.kind \in {"SCALE", "SILU"} ->
         Flat(T, op.dst, op.elements, F32, [i \in 1 .. op.elements |-> ScaleEl(T, op, i - 1)])
    [] op.kind = "SWIGLU" ->
         Flat(T, op.dst, op.elements, F32, [i \in 1 .. op.elements |-> SwigluEl(T, op, i - 1)])
    [] op.kind \in {"RMS_NORM", "RMS_NORM_MUL"} ->
         LET n == op.rows * op.cols IN Flat(T, op.dst, n, F32, [i \in 1 .. n |-> NormEl(T, op, i - 1)])
    [] op.kind = "ROPE" ->
         LET n == op.head_dim * op.n_head * op.n_token
         IN  Flat(T, op.dst, n, F32, [i \in 1 .. n |-> RopeEl(T, op, i - 1)])
    [] op.kind = "MATMUL" ->
         LET n == op.rows * op.cols IN Flat(T, op.dst, n, F32, [i \in 1 .. n |-> MatmulEl(T, op, i - 1)])
    [] op.kind = "COPY" ->
         [p \in {<<op.dst.t, op.dst.off + c>> : c \in 0 .. op.nbytes - 1} |->
            T[<<op.src.t, op.src.off + p[2] - op.dst.off>>]] @@ T
    [] op.kind = "COPY_F16" ->
         Flat(T, op.dst, op.elements, F16, [i \in 1 .. op.elements |-> HalfEl(T, op, i - 1)])
    [] op.kind = "FLASH_ATTN" -> Attended(T, op)
    [] op.kind = "GET_ROWS"   -> Gathered(T, op)
    [] op.kind = "SET_ROWS"   -> Scattered(T, op)
=============================================================================
