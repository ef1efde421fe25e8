------------------------------ MODULE CellPair ------------------------------
(***************************************************************************)
(* run_cell_pair of matmul.cpp without its transport: from one pair of     *)
(* weight rows and one quantised activation column to the plan of tile     *)
(* operations, and from the plan's results to the two output cells.        *)
(*                                                                         *)
(* Floats are integers here: a weight is + or - its group's scale, an      *)
(* activation is an int8 with its block's scale, and the products are      *)
(* exact.  The plan's sequences count from 1, the elements of a row from 0.*)
(***************************************************************************)
EXTENDS TileProtocol

CONSTANTS WGROUP,   \* k_weight_group (128)
          ABLOCK    \* k_act_block (32)

ASSUME BlockAssumption == /\ ABLOCK \in Nat \ {0} /\ WGROUP \in Nat \ {0}
                          /\ WGROUP % ABLOCK = 0

CeilDiv(a, b)  == (a + b - 1) \div b
Abs(x)         == IF x < 0 THEN -x ELSE x

\* The sum of the function f over lo .. hi, as a loop adds it up.
SumOver(lo, hi, f) ==
  LET sum[i \in lo - 1 .. hi] == IF i < lo THEN 0 ELSE sum[i - 1] + f[i] IN sum[hi]

\* weight_group_scale: the mean of |w| over [from, to)
WeightGroupScale(w, from, to) ==
  IF to <= from THEN 0
  ELSE SumOver(from, to - 1, [i \in from .. to - 1 |-> Abs(w[i])]) \div (to - from)

\* Of an input x: k, the rows w (the odd last pair has row 0 only), and the
\* activations q with their scales per block.
HasRow(x, r)     == r \in DOMAIN x.w
GroupStart(q8)   == (q8 \div WGROUP) * WGROUP
GroupEnd(x, q8)  == Min({GroupStart(q8) + WGROUP, x.k})
BlockEnd(x, q8)  == Min({q8 + ABLOCK, GroupEnd(x, q8)})
DW(x, r, q8)     == IF HasRow(x, r)
                    THEN WeightGroupScale(x.w[r], GroupStart(q8), GroupEnd(x, q8))
                    ELSE 0
DA(x, q8)        == x.scales[q8 \div ABLOCK]

Skipped_any(x, q8) == (\E r \in Row : DW(x, r, q8) = 0) \/ DA(x, q8) = 0

\* The sub-blocks that get a run: not in a group whose scales are all zero,
\* not over activations that are all zero.
Skipped(x, q8) == (\A r \in Row : DW(x, r, q8) = 0) \/ DA(x, q8) = 0
LiveBlocks(x)  ==
  LET live[b \in 0 .. CeilDiv(x.k, ABLOCK)] ==
        IF b = 0 THEN <<>>
        ELSE IF Skipped(x, (b - 1) * ABLOCK) THEN live[b - 1]
        ELSE Append(live[b - 1], (b - 1) * ABLOCK)
  IN  live[CeilDiv(x.k, ABLOCK)]

NumTiles(x, q8) == CeilDiv(BlockEnd(x, q8) - q8, COLS)

\* Tile t of a sub-block; lanes beyond its end multiply a zero activation.
TileOp(x, q8, t) ==
  LET k(lane)    == q8 + t * COLS + lane
      live(lane) == k(lane) < BlockEnd(x, q8)
  IN  [weights    |-> [r \in Row |-> [lane \in Col |->
                         IF live(lane) /\ HasRow(x, r) /\ x.w[r][k(lane)] >= 0 THEN 1 ELSE 0]],
       acts       |-> [lane \in Col |-> IF live(lane) THEN x.q[k(lane)] ELSE 0],
       seeds      |-> [r \in Row |-> 0],
       starts_run |-> t = 0,
       ends_run   |-> t = NumTiles(x, q8) - 1]

BlockOps(x, q8) == [i \in 1 .. NumTiles(x, q8) |-> TileOp(x, q8, i - 1)]

\* The operations of the live sub-blocks, and what the fold needs to know of each.
BuildPlan(x, live) == FlattenSeq([i \in 1 .. Len(live) |-> BlockOps(x, live[i])])

SubBlocks(x, live) ==
  [i \in 1 .. Len(live) |->
     [tail_op_index |-> SumOver(1, i, [j \in 1 .. i |-> NumTiles(x, live[j])]),
      d_w           |-> [r \in Row |-> DW(x, r, live[i])],
      d_a           |-> DA(x, live[i])]]

\* The fold of the run tails into the accumulator of row r.
FoldRow(sub_blocks, psums, r) ==
  SumOver(1, Len(sub_blocks), [i \in 1 .. Len(sub_blocks) |->
    sub_blocks[i].d_w[r] * sub_blocks[i].d_a * psums[sub_blocks[i].tail_op_index][r]])

\* What the cell should hold: the dot product of the dequantised row and column.
CellRef(x, r) ==
  SumOver(0, x.k - 1, [i \in 0 .. x.k - 1 |-> x.w[r][i] * x.scales[i \div ABLOCK] * x.q[i]])
=============================================================================
