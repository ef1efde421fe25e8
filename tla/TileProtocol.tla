---------------------------- MODULE TileProtocol ----------------------------
(***************************************************************************)
(* How the host speaks to the tile: the command byte (pack_ui, and         *)
(* tpu_cmd_decode at the other end), the cycle list of one tile            *)
(* (build_tile_pairs on the host, run_tile_macro in the firmware, which    *)
(* must agree), the 'M' frame's packed tile descriptor, and the bytes that *)
(* come back.  The array is ROWS x COLS with at most two rows and columns  *)
(* in the packed descriptor, as the static_assert of UsbTransport demands. *)
(***************************************************************************)
EXTENDS TileArith, SequencesExt

CONSTANTS PAD     \* tile_done_pad_cycles, TILE_DONE_PAD (6)

\* One (ui, uio) pair: ui's two fields and the data byte.
Cycle(cmd, arg, data) == [cmd |-> cmd, arg |-> arg, data |-> data]

RowArg(row)        == row % SelSpan(ROWS)
ColArg(col)        == col % SelSpan(COLS)
RowByteArg(row, b) == RowArg(row) + b * SelSpan(ROWS)

\* tpu_acc_mem's reading of the argument field
ArgRow(arg)  == arg % SelSpan(ROWS)
ArgCol(arg)  == arg % SelSpan(COLS)
ArgByte(arg) == (arg \div SelSpan(ROWS)) % PsumBytes

\* An int8 or int16 as the bytes on the wire carry it, and back.
ToByte(a)     == a % BYTE
ToAct(x)      == IF x >= BYTE \div 2 THEN x - BYTE ELSE x
ToPsum(v)     == v % (BYTE * BYTE)
SignExtend(v) == IF v >= (BYTE * BYTE) \div 2 THEN v - BYTE * BYTE ELSE v

\* packed_weights: lane c of a row is bit c of a byte.
PackBits(bits) == MapThenSumSet(LAMBDA c : bits[c] * 2^c, DOMAIN bits)
UnpackBits(x)  == [c \in 0 .. COLS - 1 |-> (x \div 2^c) % 2]

Nops_short(n) == [i \in 1 .. n - 1 |-> Cycle("NOP", 0, 0)]
Nops(n) == [i \in 1 .. n |-> Cycle("NOP", 0, 0)]

SeedCycles(seeds) ==
  FlattenSeq([i \in 1 .. ROWS |->
    [b \in 1 .. PsumBytes |->
       Cycle("SEED", RowByteArg(i - 1, b - 1), GetByte(ToPsum(seeds[i - 1]), b - 1))]])

RdpCycles ==
  FlattenSeq([i \in 1 .. ROWS |->
    [b \in 1 .. PsumBytes |-> Cycle("RDP", RowByteArg(i - 1, b - 1), 0)]])

\* build_tile_pairs: op has the bits of every row, the activations of every
\* lane, the seeds, and the flags that mark the head and the tail of a run.
BuildTilePairs(op) ==
     (IF op.starts_run THEN <<Cycle("CLEAR", 0, 0)>> \o Nops(1) ELSE <<>>)
  \o [i \in 1 .. ROWS |-> Cycle("LDW", RowArg(i - 1), PackBits(op.weights[i - 1]))]
  \o [i \in 1 .. COLS |-> Cycle("LDA", ColArg(i - 1), ToByte(op.acts[i - 1]))]
  \o (IF op.starts_run THEN SeedCycles(op.seeds) ELSE <<>>)
  \o <<Cycle("START", 0, 0)>> \o Nops(1) \o Nops(PAD)
  \o (IF op.ends_run THEN RdpCycles ELSE <<>>)

PackDesc_overlap(op) ==
  [acts   |-> [c \in 0 .. COLS - 1 |-> ToByte(op.acts[c])],
   packed |-> PackBits(op.weights[0]) + PackBits(op.weights[1]) * 2
              + (IF op.starts_run THEN 16 ELSE 0) + (IF op.ends_run THEN 32 ELSE 0)]

\* UsbTransport's descriptor, three bytes for two rows and two columns, and
\* the firmware's unpacking of it.  There is no room for seeds.
PackDesc(op) ==
  [acts   |-> [c \in 0 .. COLS - 1 |-> ToByte(op.acts[c])],
   packed |-> PackBits(op.weights[0]) + PackBits(op.weights[1]) * 4
              + (IF op.starts_run THEN 16 ELSE 0) + (IF op.ends_run THEN 32 ELSE 0)]

\* run_tile_macro on a descriptor: the cycles the firmware drives.
RunTileMacro(desc) ==
  LET pw     == <<desc.packed % 4, (desc.packed \div 4) % 4>>
      starts == (desc.packed \div 16) % 2 = 1
      ends   == (desc.packed \div 32) % 2 = 1
  IN   (IF starts THEN <<Cycle("CLEAR", 0, 0)>> \o Nops(1) ELSE <<>>)
    \o [i \in 1 .. ROWS |-> Cycle("LDW", i - 1, pw[i])]
    \o [i \in 1 .. COLS |-> Cycle("LDA", i - 1, desc.acts[i - 1])]
    \o (IF starts THEN SeedCycles([r \in 0 .. ROWS - 1 |-> 0]) ELSE <<>>)
    \o <<Cycle("START", 0, 0)>> \o Nops(1) \o Nops(PAD)
    \o (IF ends THEN RdpCycles ELSE <<>>)

\* parse_psum_at: row r of the reply bytes of a run
ParsePsum(rx, row) == SignExtend(rx[row * PsumBytes + 1] + rx[row * PsumBytes + 2] * BYTE)
=============================================================================
