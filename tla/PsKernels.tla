----------------------------- MODULE PsKernels ------------------------------
(***************************************************************************)
(* The ARM's graph kernels: board/kernels/ps/native.py resolves the        *)
(* operands of an op and calls the loops of native.c.  An operand is the   *)
(* slab itself when its range lies in one extent of a PYNQ slab, otherwise *)
(* a copy that is thrown away or written back.  The C loops run in their   *)
(* order on one heap, so operands that share bytes do so here.             *)
(*                                                                         *)
(* The memory is the CPU's view of it: caches and their maintenance are    *)
(* left out, but for the ranges that SET_ROWS flushes.                     *)
(***************************************************************************)
EXTENDS SlabRanges, PsOps

CONSTANTS Cases,                \* the boards, each with the ops it is given
          Contents,             \* tensor -> the cells uploaded to it
          MAX_FLASH_ATTN_KV,    \* cap on n_kv
          FATTN_MAX_HEAD_DIM,   \* BONSAI_FATTN_MAX_HEAD_DIM
          MAX_OPS               \* bound: ops run

\* Extents and the row kernels' fields are numbers: the allocator makes the ones, and the ops
\* are decoded from unsigned fields.
ASSUME BoardAssumption ==
  \A b \in Cases :
    /\ \A t \in DOMAIN b.tensors :
         /\ Len(b.tensors[t].extents) \in Nat
         /\ \A k \in 1 .. Len(b.tensors[t].extents) :
              b.tensors[t].extents[k].off \in Nat /\ b.tensors[t].extents[k].nbytes \in Nat
    /\ \A op \in b.ops :
         op.kind \in {"GET_ROWS", "SET_ROWS"} =>
           /\ op.dst = [t |-> op.dst.t, off |-> op.dst.off] /\ op.dst.off \in Nat
           /\ {op.n, op.planes, op.head_dim, op.dst_nb1, op.dst_nb2} \subseteq Nat
           /\ op.kind = "GET_ROWS" => op.ne01 \in Nat

VARIABLES board,   \* pynq: the slabs are CMA; tensors: their sizes and extents; ops
          mem,     \* <<slab, offset>> -> cell
          last,    \* the op that ran, its code, the cells its rows wrote in place, what it flushed
          count

pvars == <<board, mem, last, count>>

Spread(name, cells) == [p \in {name} \X (0 .. Len(cells) - 1) |-> cells[p[2] + 1]]
-----------------------------------------------------------------------------
(* Operands.  x = [t, off] names a tensor and an offset into it.  *)

Rec(x) == board.tensors[x.t]
Addresses(x, n) == BytesOf(Walk(Rec(x), x.off, n))

\* _get_record, _validate_range: what every access checks first.
RangeCode(x, n) ==
  IF x.t \notin DOMAIN board.tensors THEN "unknown_tensor"
  ELSE IF x.off + n > Rec(x).nbytes THEN "out_of_bounds" ELSE "ok"

Gather(m, a)        == [i \in DOMAIN a |-> m[a[i]]]
Overlay(m, a, cells) == [p \in Range(a) |-> cells[CHOOSE i \in DOMAIN a : a[i] = p]] @@ m

ReadCells(m, x, n)      == Gather(m, Addresses(x, n))
WriteCells(m, x, cells) == Overlay(m, Addresses(x, Len(cells)), cells)

\* slab_pointer: slab_view, which only a CMA slab has an address for.
View(x, n) ==
  IF x.t \notin DOMAIN board.tensors THEN Failed("unknown_tensor") ELSE SlabView(Rec(x), x.off, n)

HasAddress(view) == "code" \notin DOMAIN view
OfCma(view)      == IF ~HasAddress(view) \/ board.pynq THEN view ELSE Failed("invalid_request")
SlabPointer(x, n) == OfCma(View(x, n))

\* The pointer that a view gives, otherwise what the operand falls back on.
Resolved(view, fallback) ==
  IF HasAddress(view) THEN [code |-> "ok", ptr |-> <<view.slab, view.off>>, copy |-> <<>>] ELSE fallback
Copied(role, data) == [code |-> "ok", ptr |-> <<role, 0>>, copy |-> data]

\* _readable_base: any refusal of the pointer becomes a read.
InPtr(role, x, n) ==
  Resolved(SlabPointer(x, n),
           IF RangeCode(x, n) # "ok" THEN Failed(RangeCode(x, n)) ELSE Copied(role, ReadCells(mem, x, n)))

\* _writable_base: a zeroed buffer, written back by a finalizer.
ZeroedFor_fakeOnly(view, role, n) ==
  Resolved(view, IF view.code # "invalid_request" THEN view ELSE Copied(role, Zeros(n)))

ZeroedFor(view, role, n) ==
  Resolved(view, IF view.code \notin {"multi_extent", "invalid_request"} THEN view ELSE Copied(role, Zeros(n)))

OutPtr(role, x, n) == ZeroedFor(SlabPointer(x, n), role, n)

\* _slab_pointer_or_scratch: a prefilled CMA buffer, which needs PYNQ.
ScratchFor(view, role, data) ==
  Resolved(view, IF view.code # "multi_extent" THEN view
                 ELSE IF ~board.pynq THEN Failed("ImportError") ELSE Copied(role, data))

ScratchPtr(role, x, n) == ScratchFor(SlabPointer(x, n), role, ReadCells(mem, x, n))

\* The operands of a kernel, as <<role, tensor, size>>, the result last.
ReadOperands(ins, out) ==
  Append([i \in DOMAIN ins |-> InPtr(ins[i][1], ins[i][2], ins[i][3])], OutPtr("dst", out[1], out[2]))
ScratchOperands(all) == [i \in DOMAIN all |-> ScratchPtr(all[i][1], all[i][2], all[i][3])]

\* The code of the first operand that has no pointer.
FirstError(bound) ==
  LET i == SelectInSeq(bound, LAMBDA b : b.code # "ok") IN IF i = 0 THEN "ok" ELSE bound[i].code

\* What the C code can reach: the slabs and the copies.
HeapOf(m, bound) ==
  FoldLeft(LAMBDA h, b : IF b.copy = <<>> THEN h ELSE Spread(b.ptr[1], b.copy) @@ h, m, bound)

SlabsOf(h) == [p \in DOMAIN mem |-> h[p]]

\* _run_finalizers, _scratch_writeback: the buffer, if there is one, goes to dst.
WrittenBack(h, out, dst) ==
  IF out.copy = <<>> THEN SlabsOf(h)
  ELSE WriteCells(SlabsOf(h), dst, [i \in DOMAIN out.copy |-> h[At(out.ptr, i - 1)]])
-----------------------------------------------------------------------------
(* The loops of native.c, on a heap. *)

\* bonsai_add_f32, bonsai_mul_f32
BinaryLoop(op, h, src0, src1, dst) ==
  FoldLeft(LAMBDA g, i :
      Store(g, At(dst, i * F32), F32,
            <<op.kind, Load(g, At(src0, i * F32), F32),
              Load(g, At(src1, (IF op.src1_broadcast THEN i % op.rows ELSE i) * F32), F32)>>),
    h, Upto(op.rows * op.cols))

\* bonsai_scale_f32, bonsai_silu_f32
UnaryLoop(op, h, src, dst) ==
  FoldLeft(LAMBDA g, i : Store(g, At(dst, i * F32), F32, <<op.kind, Load(g, At(src, i * F32), F32)>>),
    h, Upto(op.elements))

\* bonsai_swiglu_f32
SwigluLoop(op, h, gate, up, dst) ==
  FoldLeft(LAMBDA g, i :
      Store(g, At(dst, i * F32), F32,
            <<op.kind, Load(g, At(gate, i * F32), F32), Load(g, At(up, i * F32), F32)>>),
    h, Upto(op.elements))

\* bonsai_rms_norm_f32, bonsai_rms_norm_mul_f32: a column's mean square, then its rows.
Column(h, src, op, col) == [r \in 1 .. op.rows |-> Load(h, At(src, (col * op.rows + r - 1) * F32), F32)]

NormColumn(op, h, src, weight, dst, col) ==
  LET scale == Column(h, src, op, col)
      at(r) == (col * op.rows + r) * F32
  IN  FoldLeft(LAMBDA g, r :
          LET normed == <<"norm", Load(g, At(src, at(r)), F32), scale>>
          IN  Store(g, At(dst, at(r)), F32,
                    IF op.kind = "RMS_NORM" THEN normed
                    ELSE <<"mul", normed, Load(g, At(weight, r * F32), F32)>>),
        h, Upto(op.rows))

NormLoop(op, h, src, weight, dst) ==
  FoldLeft(LAMBDA g, col : NormColumn(op, g, src, weight, dst, col), h, Upto(op.cols))

\* bonsai_rope_f32: the two elements of a pair, rotated by the token's position.
PairOf(op, j) ==
  IF op.neox THEN <<j, j + op.n_dims \div 2>> ELSE <<2 * j, 2 * j + 1>>

RopePair_rereads(op, g, in, out, pos, j) ==
  LET i  == PairOf(op, j)
      g1 == Store(g, At(out, i[1] * F32), F32,
                  <<"rot0", Load(g, At(in, i[1] * F32), F32), Load(g, At(in, i[2] * F32), F32), pos, j>>)
  IN  Store(g1, At(out, i[2] * F32), F32,
            <<"rot1", Load(g1, At(in, i[1] * F32), F32), Load(g1, At(in, i[2] * F32), F32), pos, j>>)

RopePair(op, g, in, out, pos, j) ==
  LET i  == PairOf(op, j)
      x0 == Load(g, At(in, i[1] * F32), F32)
      x1 == Load(g, At(in, i[2] * F32), F32)
  IN  Store(Store(g, At(out, i[1] * F32), F32, <<"rot0", x0, x1, pos, j>>),
            At(out, i[2] * F32), F32, <<"rot1", x0, x1, pos, j>>)

RopeLoop(op, h, src, positions, dst) ==
  FoldLeft(LAMBDA g, th :
      LET off    == th * op.head_dim * F32
          pos    == Load(g, At(positions, (th \div op.n_head) * I32), I32)
          turned == FoldLeft(LAMBDA r, j : RopePair(op, r, At(src, off), At(dst, off), pos, j),
                             g, Upto(op.n_dims \div 2))
      IN  FoldLeft(LAMBDA r, i : Store(r, At(dst, off + (op.n_dims + i) * F32), F32,
                                       Load(r, At(src, off + (op.n_dims + i) * F32), F32)),
                   turned, Upto(op.head_dim - op.n_dims)),
    h, Upto(op.n_token * op.n_head))

\* bonsai_flash_attn_ext_f32: the query head's row, then the positions the mask lets through.
AttnHead(op, g, q, k, v, mask, dst, t, hq) ==
  LET hk      == hq \div (op.n_head \div op.n_head_kv)
      mv(c)   == IF op.has_mask THEN Load(g, At(mask, t * op.mask_nb1 + c * F16), F16) ELSE NoMask
      seen    == SelectSeq(Upto(op.n_kv), LAMBDA c : mv(c) # NegInf)
      q_row   == [e \in 1 .. op.head_dim_q |->
                    Load(g, At(q, t * op.q_nb1 + hq * op.q_nb2 + (e - 1) * F32), F32)]
      term(c, d) == <<mv(c),
                      [e \in 1 .. op.head_dim_q |->
                         Load(g, At(k, c * op.k_nb1 + hk * op.k_nb2 + (e - 1) * F16), F16)],
                      Load(g, At(v, c * op.v_nb1 + hk * op.v_nb2 + d * F16), F16)>>
      vkq(d)  == <<"attn", q_row, [n \in DOMAIN seen |-> term(seen[n], d)]>>
      row     == At(dst, hq * op.dst_nb1 + t * op.dst_nb2)
  IN  FoldLeft(LAMBDA r, d : Store(r, At(row, d * F32), F32, vkq(d)), g, Upto(op.head_dim_v))

AttnLoop(op, h, q, k, v, mask, dst) ==
  FoldLeft(LAMBDA g, th : AttnHead(op, g, q, k, v, mask, dst, th \div op.n_head, th % op.n_head),
    h, Upto(op.n_token * op.n_head))

\* bonsai_set_rows_row_f32_to_f16
ConvertRow(h, dst, src, n) ==
  FoldLeft(LAMBDA g, d : Store(g, At(dst, d * F16), F16, <<"half", Load(g, At(src, d * F32), F32)>>),
    h, Upto(n))

\* bonsai_get_rows_f32, _f16, _q1_0, for one row; a packed row is a lane of its rowblock.
GetRow(op, h, src, lane, dst) ==
  LET packed(d) ==
        LET blk == (d \div Q1_BLOCK) * PACKED_PER_Q1_BLOCK
            sub == (d % Q1_BLOCK) \div Q8_BLOCK
        IN  <<"dequant", Load(h, At(src, blk + lane), F16),
              Load(h, At(src, blk + SCALES + sub * WBITS + 2 * lane), 2), d % Q8_BLOCK>>
      val(g, d) == IF op.src0_type = "q1_0" THEN packed(d)
                   ELSE IF op.src0_type = "f16" THEN <<"float", Load(g, At(src, d * F16), F16)>>
                   ELSE Load(g, At(src, d * F32), F32)
  IN  FoldLeft(LAMBDA g, d : Store(g, At(dst, d * F32), F32, val(g, d)), h, Upto(op.head_dim))

\* bonsai_matmul_q1a8: one result, from a packed matrix and the activations of its column.
DotProduct(op, weights, acts, i) ==
  LET row == i % op.rows
      blk(s) == (row \div ROWS_PER_BLOCK) * PackedPerRowblock(op.k \div Q1_BLOCK)
                  + (s \div Q8_SUBBLOCKS) * PACKED_PER_Q1_BLOCK
      lane == row % ROWS_PER_BLOCK
      wbits(s) == blk(s) + SCALES + (s % Q8_SUBBLOCKS) * WBITS + 2 * lane
      quants(s) == [e \in 1 .. Q8_BLOCK |->
                      Load(acts, <<"acts", ((i \div op.rows) * op.k + s * Q8_BLOCK + e - 1) * F32>>, F32)]
  IN  <<"dot", [n \in 1 .. op.k \div Q8_BLOCK |->
                 <<Load(weights, <<"weights", blk(n - 1) + lane>>, F16),
                   Load(weights, <<"weights", wbits(n - 1)>>, 2), quants(n - 1)>>]>>
-----------------------------------------------------------------------------
(* The kernels.  Each takes the next op of its kind. *)

\* Every tensor as the client uploaded it, wherever its extents are.
Uploaded(tensors) ==
  LET places == UNION {{<<t, k>> : k \in DOMAIN tensors[t].extents} : t \in DOMAIN tensors}
      extent(pl) == tensors[pl[1]].extents[pl[2]]
      start(pl)  == FoldLeft(LAMBDA n, e : n + e.nbytes, 0, SubSeq(tensors[pl[1]].extents, 1, pl[2] - 1))
      holds(pl, p) == p[1] = extent(pl).slab /\ p[2] - extent(pl).off \in 0 .. extent(pl).nbytes - 1
  IN  [p \in UNION {{extent(pl).slab} \X (extent(pl).off .. extent(pl).off + extent(pl).nbytes - 1)
                     : pl \in places} |->
         LET pl == CHOOSE pl \in places : holds(pl, p)
         IN  Contents[pl[1]][start(pl) + p[2] - extent(pl).off + 1]]

PInit ==
  /\ board \in Cases
  /\ mem = Uploaded(board.tensors)
  /\ last = [op |-> [kind |-> "none"], code |-> "ok", wrote |-> {}, flushed |-> {}]
  /\ count = 0

Takes(op, kinds) == op.kind \in kinds /\ count < MAX_OPS

Outcome(op, code, m, wrote, flushed) ==
  /\ mem' = m
  /\ last' = [op |-> op, code |-> code, wrote |-> wrote, flushed |-> flushed]
  /\ count' = count + 1
  /\ UNCHANGED board

Raise(op, code) == Outcome(op, code, mem, {}, {})
Done(op, m)     == Outcome(op, "ok", m, {}, {})

\* Bad operands raise before the call, then what C refuses (_check).
Verdict(bound, refused) ==
  IF FirstError(bound) # "ok" THEN FirstError(bound) ELSE IF refused THEN "RuntimeError" ELSE "ok"

\* The end of every native kernel: Loop runs on the heap with the operands' pointers, and its
\* result is written back.
Native(op, bound, refused, Loop(_, _)) ==
  IF Verdict(bound, refused) # "ok" THEN Raise(op, Verdict(bound, refused))
  ELSE Done(op, WrittenBack(Loop(HeapOf(mem, bound), [i \in DOMAIN bound |-> bound[i].ptr]),
                            bound[Len(bound)], op.dst))

BinaryF32(op) ==
  /\ Takes(op, {"ADD", "MUL"})
  /\ LET n == op.rows * op.cols
         m == IF op.src1_broadcast THEN op.rows ELSE n
     IN  IF op.rows <= 0 \/ op.cols <= 0 THEN Raise(op, "invalid_request")
         ELSE Native(op, ReadOperands(<<<<"src0", op.src0, n * F32>>, <<"src1", op.src1, m * F32>>>>,
                                  <<op.dst, n * F32>>),
                     FALSE, LAMBDA h, p : BinaryLoop(op, h, p[1], p[2], p[3]))

\* ScaleF32, SiluF32
UnaryF32(op) ==
  /\ Takes(op, {"SCALE", "SILU"})
  /\ LET n == op.elements * F32
     IN  IF op.elements <= 0 \/ (op.kind = "SCALE" /\ op.scale = "missing")
         THEN Raise(op, "invalid_request")
         ELSE Native(op, ReadOperands(<<<<"src", op.src, n>>>>, <<op.dst, n>>),
                     FALSE, LAMBDA h, p : UnaryLoop(op, h, p[1], p[2]))

SwigluF32(op) ==
  /\ Takes(op, {"SWIGLU"})
  /\ LET n == op.elements * F32
     IN  IF op.elements <= 0 THEN Raise(op, "invalid_request")
         ELSE Native(op, ReadOperands(<<<<"gate", op.src0, n>>, <<"up", op.src1, n>>>>, <<op.dst, n>>),
                     FALSE, LAMBDA h, p : SwigluLoop(op, h, p[1], p[2], p[3]))

RmsNormF32(op) ==
  /\ Takes(op, {"RMS_NORM"})
  /\ LET n == op.rows * op.cols * F32
     IN  IF op.rows <= 0 \/ op.cols <= 0 \/ op.eps = "missing" THEN Raise(op, "invalid_request")
         ELSE Native(op, ReadOperands(<<<<"src", op.src, n>>>>, <<op.dst, n>>),
                     FALSE, LAMBDA h, p : NormLoop(op, h, p[1], p[1], p[2]))

RmsNormMulF32(op) ==
  /\ Takes(op, {"RMS_NORM_MUL"})
  /\ LET n == op.rows * op.cols * F32
     IN  IF op.rows <= 0 \/ op.cols <= 0 \/ op.eps = "missing" THEN Raise(op, "invalid_request")
         ELSE Native(op, ReadOperands(<<<<"src", op.src, n>>, <<"weight", op.src1, op.rows * F32>>>>, <<op.dst, n>>),
                     FALSE, LAMBDA h, p : NormLoop(op, h, p[1], p[2], p[3]))

RopeF32(op) ==
  /\ Takes(op, {"ROPE"})
  /\ LET n == op.head_dim * op.n_head * op.n_token * F32
     IN  IF \E d \in {op.head_dim, op.n_head, op.n_token, op.n_dims} : d <= 0
         THEN Raise(op, "invalid_request")
         ELSE Native(op, ReadOperands(<<<<"src", op.src, n>>, <<"positions", op.positions, op.n_token * I32>>>>,
                                  <<op.dst, n>>),
                     op.n_dims > op.head_dim \/ op.n_dims % 2 = 1,
                     LAMBDA h, p : RopeLoop(op, h, p[1], p[2], p[3]))

\* Copy: raw bytes, read before any is written.
Copy(op) ==
  /\ Takes(op, {"COPY"})
  /\ IF op.nbytes < 0 THEN Raise(op, "invalid_request")
     ELSE IF RangeCode(op.src, op.nbytes) # "ok" THEN Raise(op, RangeCode(op.src, op.nbytes))
     ELSE IF RangeCode(op.dst, op.nbytes) # "ok" THEN Raise(op, RangeCode(op.dst, op.nbytes))
     ELSE Done(op, WriteCells(mem, op.dst, ReadCells(mem, op.src, op.nbytes)))

\* Copy._run_cvt_f32_to_f16
CopyF32ToF16(op) ==
  /\ Takes(op, {"COPY_F16"})
  /\ IF op.elements < 0 THEN Raise(op, "invalid_request")
     ELSE Native(op, ReadOperands(<<<<"src", op.src, op.elements * F32>>>>, <<op.dst, op.elements * F16>>),
                 op.elements = 0, LAMBDA h, p : ConvertRow(h, p[2], p[1], op.elements))

\* MatmulQ1A8, the ARM's own: copies in, a buffer of results, a write.
MatmulQ1A8(op) ==
  /\ Takes(op, {"MATMUL"})
  /\ LET nw == PackedCells(op.rows, op.k \div Q1_BLOCK)
         na == op.cols * op.k * F32
         n  == op.rows * op.cols
     IN  IF op.k = 0 \/ op.k % Q1_BLOCK # 0 THEN Raise(op, "invalid_request")
         ELSE IF RangeCode(op.weights, nw) # "ok" THEN Raise(op, RangeCode(op.weights, nw))
         ELSE IF RangeCode(op.acts, na) # "ok" THEN Raise(op, RangeCode(op.acts, na))
         ELSE IF n = 0 THEN Raise(op, "RuntimeError")
         ELSE IF RangeCode(op.dst, n * F32) # "ok" THEN Raise(op, RangeCode(op.dst, n * F32))
         ELSE LET w == Spread("weights", ReadCells(mem, op.weights, nw))
                  a == Spread("acts", ReadCells(mem, op.acts, na))
              IN  Done(op, WriteCells(mem, op.dst, FlattenSeq(
                             [i \in 1 .. n |-> Whole(DotProduct(op, w, a, i - 1), F32)])))

\* FLASH_ATTN_EXT's operands: the code takes the second stride for the larger one.
Declared(nb1, n1, nb2, n2) == IF nb2 # 0 THEN nb2 * n2 ELSE nb1 * n1

FlashAttnExtF32(op) ==
  /\ Takes(op, {"FLASH_ATTN"})
  /\ LET mask == IF op.has_mask THEN <<<<"mask", op.mask, op.mask_nb1 * op.n_token>>>> ELSE <<>>
         all  == <<<<"q", op.q, Declared(op.q_nb1, op.n_token, op.q_nb2, op.n_head)>>,
                   <<"k", op.k, Declared(op.k_nb1, op.n_kv, op.k_nb2, op.n_head_kv)>>,
                   <<"v", op.v, Declared(op.v_nb1, op.n_kv, op.v_nb2, op.n_head_kv)>>>>
                 \o mask
                 \o <<<<"dst", op.dst, Declared(op.dst_nb1, op.n_head, op.dst_nb2, op.n_token)>>>>
     IN  IF \/ \E d \in {op.head_dim_q, op.head_dim_v, op.n_head, op.n_head_kv, op.n_kv, op.n_token} : d <= 0
            \/ op.alibi \/ op.n_kv > MAX_FLASH_ATTN_KV \/ op.n_head % op.n_head_kv # 0
         THEN Raise(op, "invalid_request")
         ELSE Native(op, ScratchOperands(all),
                     op.head_dim_q > FATTN_MAX_HEAD_DIM \/ op.head_dim_v > FATTN_MAX_HEAD_DIM,
                     LAMBDA h, p : AttnLoop(op, h, p[1], p[2], p[3], p[4], p[Len(p)]))
-----------------------------------------------------------------------------
(* The row kernels resolve every row by itself.  r = <<row, plane>>; the     *)
(* code's third dimension repeats the second and is left out.                *)

IndicesOf(op) == Spread("indices", ReadCells(mem, op.indices, op.indices_nb1 * op.idx_planes))
TableIndex(op, idx, r) ==
  IntOf(Load(idx, <<"indices", r[1] * op.idx_elem + (r[2] % op.idx_planes) * op.indices_nb1>>, op.idx_elem))

\* GET_ROWS: only a slab without an address is read through a copy.
RowFor(view, role, data) ==
  Resolved(view, IF view.code # "invalid_request" THEN view ELSE Copied(role, data))

RowPtr(role, m, x, n) == RowFor(SlabPointer(x, n), role, ReadCells(m, x, n))
RowOut(role, x, n)    == RowFor(SlabPointer(x, n), role, Zeros(n))

\* One row, from where its index says to the tensor y.
GatherRow(op, st, lane, y, b) ==
  IF FirstError(b) # "ok" THEN [st EXCEPT !.code = FirstError(b)]
  ELSE [st EXCEPT !.mem = WrittenBack(GetRow(op, HeapOf(st.mem, b), b[1].ptr, lane, b[2].ptr), b[2], y)]

\* What is read for a row, a rowblock of packed ones, and where it goes.
IsPacked(op)   == op.src0_type = "q1_0"
SourceSize(op) == IF IsPacked(op) THEN PackedPerRowblock(op.head_dim \div Q1_BLOCK) ELSE op.src0_nb1
SourceOf(op, r, row) ==
  [op.src0 EXCEPT !.off = @ + r[2] * op.src0_nb2
                            + (IF IsPacked(op) THEN row \div ROWS_PER_BLOCK ELSE row) * SourceSize(op)]
TargetOf(op, r) == [op.dst EXCEPT !.off = @ + r[1] * op.dst_nb1 + r[2] * op.dst_nb2]

GetRowsStep(op, st, r, row) ==
  IF st.code # "ok" THEN st
  ELSE IF row < 0 \/ row >= op.ne01 THEN [st EXCEPT !.code = "RuntimeError"]
  ELSE GatherRow(op, st, IF IsPacked(op) THEN row % ROWS_PER_BLOCK ELSE 0, TargetOf(op, r),
                 <<RowPtr("row", st.mem, SourceOf(op, r, row), SourceSize(op)),
                   RowOut("out", TargetOf(op, r), op.dst_nb1)>>)

GatherRows(op, idx) ==
  LET rows == Rows(op)
      upto[k \in 0 .. Len(rows)] ==
        IF k = 0 THEN [code |-> "ok", mem |-> mem]
        ELSE GetRowsStep(op, upto[k - 1], rows[k], TableIndex(op, idx, rows[k]))
  IN  upto[Len(rows)]
RowsGot(op, end) == Outcome(op, end.code, end.mem, {}, {})

GetRows(op) ==
  /\ Takes(op, {"GET_ROWS"})
  /\ LET ni == op.indices_nb1 * op.idx_planes
     IN  IF \/ op.src0_type \notin {"f32", "f16", "q1_0"} \/ op.idx_elem # I32
            \/ op.head_dim <= 0 \/ op.ne01 <= 0 \/ op.n <= 0
         THEN Raise(op, "invalid_request")
         ELSE IF IsPacked(op) /\ op.head_dim % Q1_BLOCK # 0 THEN Raise(op, "ValueError")
         ELSE IF RangeCode(op.indices, ni) # "ok" THEN Raise(op, RangeCode(op.indices, ni))
         ELSE RowsGot(op, GatherRows(op, IndicesOf(op)))

\* SET_ROWS: touched grows to the hull of the rows written in place, per slab.
Touch_first(touched, slab, lo, hi) ==
  [s \in DOMAIN touched \cup {slab} |->
     IF s # slab THEN touched[s]
     ELSE IF s \in DOMAIN touched THEN <<Lesser(touched[s][1], lo), touched[s][2]>> ELSE <<lo, hi>>]

Touch(touched, slab, lo, hi) ==
  [s \in DOMAIN touched \cup {slab} |->
     IF s # slab THEN touched[s]
     ELSE IF s \in DOMAIN touched THEN <<Lesser(touched[s][1], lo), Greater(touched[s][2], hi)>> ELSE <<lo, hi>>]

\* _write_row
WriteRow(op, st, y, view, h, src_addr) ==
  LET n   == op.head_dim * F16
      row == ConvertRow(Spread("scratch", Zeros(n)) @@ h, <<"scratch", 0>>, src_addr, op.head_dim)
  IN  IF ~HasAddress(view) /\ view.code # "multi_extent" THEN [st EXCEPT !.code = view.code]
      ELSE IF ~HasAddress(view) \/ ~board.pynq
      THEN [st EXCEPT !.mem = WriteCells(st.mem, y, [d \in 1 .. n |-> row[<<"scratch", d - 1>>]])]
      ELSE [st EXCEPT !.mem = SlabsOf(ConvertRow(h, <<view.slab, view.off>>, src_addr, op.head_dim)),
                      !.wrote = @ \cup {<<view.slab, view.off + d>> : d \in 0 .. n - 1},
                      !.touched = Touch(@, view.slab, view.off, view.off + n)]

SetRowsStep(op, src, st, r, row) ==
  LET y == [op.dst EXCEPT !.off = @ + row * op.dst_nb1 + r[2] * op.dst_nb2]
  IN  IF st.code # "ok" THEN st
      ELSE IF row < 0 THEN [st EXCEPT !.code = "invalid_request"]
      ELSE WriteRow(op, st, y, View(y, op.head_dim * F16), HeapOf(st.mem, <<src>>),
                    At(src.ptr, r[1] * op.src0_nb1 + r[2] * op.src0_nb2))

\* The rows in order; what they have touched is flushed at the end.
RowsSet(op, end) ==
  Outcome(op, end.code, end.mem, end.wrote,
          IF end.code = "ok" THEN {<<s, end.touched[s]>> : s \in DOMAIN end.touched} ELSE {})

ScatterRows(op, src, idx) ==
  LET rows == Rows(op)
      upto[k \in 0 .. Len(rows)] ==
        IF k = 0 THEN [code |-> "ok", mem |-> mem, wrote |-> {}, touched |-> <<>>]
        ELSE SetRowsStep(op, src, upto[k - 1], rows[k], TableIndex(op, idx, rows[k]))
  IN  upto[Len(rows)]

SetRows(op) ==
  /\ Takes(op, {"SET_ROWS"})
  /\ LET ni == op.indices_nb1 * op.idx_planes
     IN  IF op.dst_type # "f16" \/ op.idx_elem \notin {I32, I64} \/ op.head_dim <= 0 \/ op.n <= 0
         THEN Raise(op, "invalid_request")
         ELSE IF RangeCode(op.indices, ni) # "ok" THEN Raise(op, RangeCode(op.indices, ni))
         ELSE LET src == InPtr("src0", op.src0, op.src0_nb2 * op.planes)
              IN  IF src.code # "ok" THEN Raise(op, src.code)
                  ELSE RowsSet(op, ScatterRows(op, src, IndicesOf(op)))

PNext ==
  \E op \in board.ops :
     \/ BinaryF32(op)     \/ UnaryF32(op)   \/ SwigluF32(op)  \/ RmsNormF32(op)
     \/ RmsNormMulF32(op) \/ RopeF32(op)    \/ Copy(op)       \/ CopyF32ToF16(op)
     \/ MatmulQ1A8(op)    \/ GetRows(op)    \/ SetRows(op)    \/ FlashAttnExtF32(op)

PSpec == PInit /\ [][PNext]_pvars
-----------------------------------------------------------------------------
(* Properties. *)

Logical ==
  LET bytes == [t \in DOMAIN board.tensors |-> BytesOf(board.tensors[t].extents)]
  IN  [p \in UNION {{t} \X (0 .. Len(bytes[t]) - 1) : t \in DOMAIN bytes} |-> mem[bytes[p[1]][p[2] + 1]]]

Abstract == INSTANCE PsSpec WITH Ops <- UNION {c.ops : c \in Cases}, tensors <- Logical,
                                 done <- [op |-> last.op, code |-> last.code]

\* Whatever the slabs are and wherever the tensors are cut, the copies, the pointers and the
\* loops of the kernels give the tensors exactly what the op means, also where the result lies
\* over an operand that starts at the same place, as an arena reuses it, and where the result of
\* a COPY or MATMUL is shifted into its input; an op that raises half-way has touched nothing
\* but the tensor of its result.  Not among the ops, and no arena of ggml has it: a result over a
\* broadcast src1 or a norm's weight, which the loops read again after their first stores.
RefinesPsSpec == Abstract!Spec

\* On PYNQ slabs the placement of tensors cannot make an op fail: SET_ROWS, the copies and the
\* element-wise kernels get by with rows and ranges that the allocator has cut (_write_row,
\* _writable_base, _slab_pointer_or_scratch).  GET_ROWS has no such fallback, and the boards
\* give it no row that is cut: this says nothing of a row that is.
CutsAreHidden == board.pynq => last.code # "multi_extent"

\* SET_ROWS flushes all it has written in place, in every slab, however the rows are scattered.
FlushCovers ==
  last.code = "ok" =>
    \A c \in last.wrote : \E f \in last.flushed : f[1] = c[1] /\ c[2] \in f[2][1] .. f[2][2] - 1
=============================================================================
