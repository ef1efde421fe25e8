----------------------------- MODULE Q1A8Layout -----------------------------
(***************************************************************************)
(* The byte layouts a Q1A8 matrix takes on its way to the FPGA             *)
(* (proto/q1a8_layout.py, and the reference packer that the kernel driver  *)
(* keeps).  Sizes and offsets are in cells of two bytes: an fp16 scale is  *)
(* one cell, a 32-bit weight mask two, a 64-bit stream beat four.          *)
(*                                                                         *)
(* A cell <<v, i, n>> is part i of the n cells of a value v.               *)
(***************************************************************************)
EXTENDS Integers, SequencesExt

CONSTANTS ROWS_PER_BLOCK,   \* rows the kernel computes side by side (8)
          Q8_SUBBLOCKS,     \* Q8 sub-blocks of a Q1 block (4)
          ACT_BEATS         \* beats of one sub-block's activations (4)

ASSUME LayoutAssumption ==
  /\ ROWS_PER_BLOCK \in Nat \ {0} /\ ROWS_PER_BLOCK % 2 = 0
  /\ Q8_SUBBLOCKS \in Nat \ {0} /\ ACT_BEATS \in Nat \ {0}

BEAT        == 4
SCALE_BEATS == (ROWS_PER_BLOCK + 3) \div 4
WBITS_BEATS == (ROWS_PER_BLOCK + 1) \div 2
SCALES      == SCALE_BEATS * BEAT
WBITS       == WBITS_BEATS * BEAT
ACTS        == ACT_BEATS * BEAT
Q1_BLOCK_CELLS      == 1 + 2 * Q8_SUBBLOCKS
PACKED_PER_Q1_BLOCK == SCALES + Q8_SUBBLOCKS * WBITS

Whole(v, n) == [i \in 1 .. n |-> <<v, i, n>>]
Zero        == <<<<"zero">>, 1, 1>>
Zeros(n)    == [i \in 1 .. n |-> Zero]

Rowblocks(rows)  == (rows + ROWS_PER_BLOCK - 1) \div ROWS_PER_BLOCK
RowCount(rows, rb) ==
  IF rows - rb * ROWS_PER_BLOCK < ROWS_PER_BLOCK THEN rows - rb * ROWS_PER_BLOCK
  ELSE ROWS_PER_BLOCK

PackedPerRowblock(bpr) == bpr * PACKED_PER_Q1_BLOCK
PackedCells(rows, bpr) == Rowblocks(rows) * PackedPerRowblock(bpr)

\* Where row's block q1 starts in a Q1_0 matrix, which is row-major.
Q1Off(bpr, row, q1) == (row * bpr + q1) * Q1_BLOCK_CELLS

\* One rowblock's scales of block q1, zero for the lanes past the last row.
ScaleWords(src, rows, bpr, rb, q1) ==
  [c \in 1 .. SCALES |->
     IF c - 1 < RowCount(rows, rb)
     THEN src[Q1Off(bpr, rb * ROWS_PER_BLOCK + c - 1, q1) + 1] ELSE Zero]

\* One rowblock's weight masks of sub-block sub.
BitWords(src, rows, bpr, rb, q1, sub) ==
  FlattenSeq([l \in 1 .. 2 * WBITS_BEATS |->
    LET off == Q1Off(bpr, rb * ROWS_PER_BLOCK + l - 1, q1) + 1 + 2 * sub
    IN  IF l - 1 < RowCount(rows, rb) THEN SubSeq(src, off + 1, off + 2) ELSE Zeros(2)])

\* pack_weights
PackWeights(src, rows, bpr) ==
  FlattenSeq([i \in 1 .. Rowblocks(rows) * bpr |->
    LET rb == (i - 1) \div bpr
        q1 == (i - 1) % bpr
    IN  ScaleWords(src, rows, bpr, rb, q1)
          \o FlattenSeq([s \in 1 .. Q8_SUBBLOCKS |-> BitWords(src, rows, bpr, rb, q1, s - 1)])])

\* One sub-block of a column: its quants, then a beat whose first cell is the scale.
ActWords(quants, scales, q8) ==
  SubSeq(quants, q8 * ACTS + 1, (q8 + 1) * ACTS) \o <<scales[q8 + 1]>> \o Zeros(BEAT - 1)

\* pack_acts
PackActs(quants, scales, bpr) ==
  FlattenSeq([i \in 1 .. bpr * Q8_SUBBLOCKS |-> ActWords(quants, scales, i - 1)])
-----------------------------------------------------------------------------
(* The matrix and the column the packers start from. *)

ScaleOf(row, q1)     == <<"scale", row, q1>>
BitsOf(row, q1, sub) == <<"bits", row, q1, sub>>

Q1Matrix(rows, bpr) ==
  FlattenSeq([i \in 1 .. rows * bpr |->
    LET row == (i - 1) \div bpr
        q1  == (i - 1) % bpr
    IN  Whole(ScaleOf(row, q1), 1)
          \o FlattenSeq([s \in 1 .. Q8_SUBBLOCKS |-> Whole(BitsOf(row, q1, s - 1), 2)])])

QuantsOf(col, bpr)    == FlattenSeq([i \in 1 .. bpr * Q8_SUBBLOCKS |-> Whole(<<"acts", col, i - 1>>, ACTS)])
ActScalesOf(col, bpr) == [i \in 1 .. bpr * Q8_SUBBLOCKS |-> <<<<"act_scale", col, i - 1>>, 1, 1>>]
=============================================================================
