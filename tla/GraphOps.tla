------------------------------ MODULE GraphOps ------------------------------
(***************************************************************************)
(* What the operations of a RUN_GRAPH request compute.  Memory maps cells  *)
(* <<handle, offset>> to values; a value says how it was made, so that two *)
(* cells hold equal values only when they were computed alike.             *)
(*                                                                         *)
(* A tensor is a range of one handle: h, first offset lo, n cells.  An op  *)
(* is "ps" (a glue kernel on the ARM: dst from the tensors of src), "mm"   *)
(* (the PL matmul: rows, cols, src = <<weights, acts>>, dst), "refused"    *)
(* (its kernel raises on its arguments) or "unknown" (no kernel has its    *)
(* name).  A cell of the weights is a packed rowblock, a cell of the       *)
(* activations a column, a cell of a result one number.                    *)
(***************************************************************************)
EXTENDS Integers, SequencesExt

CONSTANTS ROWS_PER_BLOCK   \* rows the kernel computes side by side (8)

ASSUME RowsAssumption == ROWS_PER_BLOCK \in Nat \ {0}

CellAt(t, i)  == <<t.h, t.lo + i>>
CellsOf(t)    == {CellAt(t, i) : i \in 0 .. t.n - 1}
Vals(m, t)    == [i \in 0 .. t.n - 1 |-> m[CellAt(t, i)]]
Overlap(t, u) == CellsOf(t) \cap CellsOf(u) # {}

Works(op)    == op.kind \in {"ps", "mm"}
Tensors(op)  == Range(op.src) \cup {op.dst}
Rowblocks(n) == (n + ROWS_PER_BLOCK - 1) \div ROWS_PER_BLOCK

Inputs(m, op)      == [k \in DOMAIN op.src |-> Vals(m, op.src[k])]
PsValue(ins, i)    == <<"ps", ins, i>>
MmValue(acts, w, r) == <<"mm", acts, w, r>>

\* Writing f, indexed from 0, to the tensor t.
Put(m, t, f) == [c \in DOMAIN m |-> IF c \in CellsOf(t) THEN f[c[2] - t.lo] ELSE m[c]]

\* Element (row, col) of a result is at col * rows + row.
MmResult(m, op) ==
  [i \in 0 .. op.dst.n - 1 |->
     LET row == i % op.rows
         col == i \div op.rows
     IN  MmValue(m[CellAt(op.src[2], col)],
                 m[CellAt(op.src[1], row \div ROWS_PER_BLOCK)], row % ROWS_PER_BLOCK)]

PsResult(ins, op) == [i \in 0 .. op.dst.n - 1 |-> PsValue(ins, i)]

\* The ops of a graph one after the other, each on what the ones before it left.
OpEffect(m, op)   == Put(m, op.dst, IF op.kind = "mm" THEN MmResult(m, op)
                                    ELSE PsResult(Inputs(m, op), op))
After(m, ops)     == LET after[k \in 0 .. Len(ops)] ==
                           IF k = 0 THEN m ELSE OpEffect(after[k - 1], ops[k])
                     IN  after
GraphEffect(m, ops) == After(m, ops)[Len(ops)]
Written(ops)      == UNION {CellsOf(ops[i].dst) : i \in {j \in DOMAIN ops : Works(ops[j])}}

\* ggml's arena guarantee, on which the scheduler rests: while a matmul's
\* result lives, an op reads it whole or a part of it, never together with its
\* neighbours, and no op writes over it before some op has read it (a write
\* inside it, in place, apart).  Weights are never written, and no matmul is
\* done in place.
ArenaSafe(ops) ==
  /\ \A i \in DOMAIN ops : Works(ops[i]) =>
       \A j \in DOMAIN ops : (Works(ops[j]) /\ ops[j].kind = "mm") =>
         ops[i].dst.h # ops[j].src[1].h
  /\ \A i \in DOMAIN ops : ops[i].kind = "mm" => ~Overlap(ops[i].src[2], ops[i].dst)
  /\ \A i \in DOMAIN ops : ops[i].kind = "mm" =>
       LET d           == ops[i].dst
           inside(t)   == CellsOf(t) \subseteq CellsOf(d)
           live(j)     == \A k \in i + 1 .. j - 1 :
                            Works(ops[k]) => ~Overlap(ops[k].dst, d)
           read(j)     == \E k \in i + 1 .. j : /\ Works(ops[k])
                                                /\ \E t \in Range(ops[k].src) : Overlap(t, d)
       IN  \A j \in i + 1 .. Len(ops) : (Works(ops[j]) /\ live(j)) =>
             /\ \A t \in Range(ops[j].src) : Overlap(t, d) => inside(t)
             /\ Overlap(ops[j].dst, d) => inside(ops[j].dst) \/ read(j)
=============================================================================
