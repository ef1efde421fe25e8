---------------------------- MODULE BonsaiMatmul ----------------------------
(***************************************************************************)
(* run_bonsai_matmul from end to end: host threads (one per backend, each  *)
(* with a matrix product to compute) that share one chip through           *)
(* UsbTransport, the firmware that unrolls each tile descriptor, and the   *)
(* chip itself (TpuTile), one chip_cycle per step.  The USB link is        *)
(* reliable here.                                                          *)
(***************************************************************************)
EXTENDS TpuTile, CellPair

CONSTANTS Host,     \* the threads
          Jobs,     \* which product each has to compute: functions on Host
          NoHost    \* io_mutex is free

VARIABLES
  job, pc, cell, plan, sub_blocks, psums, dst,   \* run_bonsai_matmul, per thread
  io_mutex,                                      \* AsicConnection
  frame, cycles, rx                              \* descriptors, chip cycles and reply bytes to come

host == <<job, pc, cell, plan, sub_blocks, psums, dst>>
wire == <<io_mutex, frame, cycles, rx>>
allvars == <<vars, host, wire>>

-----------------------------------------------------------------------------
(* The loops over b3, b2, col and row pairs, as one index. *)

RowPairs(j) == CeilDiv(j.n_rows, ROWS)
NumCells(j) == j.n_b3 * j.n_b2 * j.n_cols * RowPairs(j)

CellAt(j, i) ==
  [row |-> (i % RowPairs(j)) * ROWS,
   col |-> (i \div RowPairs(j)) % j.n_cols,
   b2  |-> (i \div (RowPairs(j) * j.n_cols)) % j.n_b2,
   b3  |-> i \div (RowPairs(j) * j.n_cols * j.n_b2)]

\* dst's index of row r of the pair, and the rows the pair really has
DstAt(c, r)    == <<c.b3, c.b2, c.col, c.row + r>>
PairRows(j, c) == {r \in Row : c.row + r < j.n_rows}

\* The inputs of the pair: weights are broadcast over the batch dimensions.
CellInput(j, c) ==
  [k      |-> j.k,
   w      |-> [r \in PairRows(j, c) |->
                 j.w[<<c.b3 \div j.src0_b3, c.b2 \div j.src0_b2, c.row + r>>]],
   q      |-> j.q[<<c.b3, c.b2, c.col>>],
   scales |-> j.scales[<<c.b3, c.b2, c.col>>]]

Cells(j) == (0 .. j.n_b3 - 1) \X (0 .. j.n_b2 - 1) \X (0 .. j.n_cols - 1) \X (0 .. j.n_rows - 1)

\* A row of Q1_0 weights, dequantised: plus or minus the scale of its group.
SignedScales(w, k) ==
  \A i \in 0 .. k - 1 :
    /\ w[i] \in Int
    /\ \A n \in 0 .. k - 1 : n \div WGROUP = i \div WGROUP => Abs(w[n]) = Abs(w[i])

\* A product the backend accepts, its activations quantised to Q8_0.
IsJob(j) ==
  /\ j.n_rows \in Nat /\ j.n_cols \in Nat /\ j.n_b2 \in Nat /\ j.n_b3 \in Nat /\ j.k \in Nat
  /\ \A b3 \in 0 .. j.n_b3 - 1, b2 \in 0 .. j.n_b2 - 1 :
       /\ \A row \in 0 .. j.n_rows - 1 :
            SignedScales(j.w[<<b3 \div j.src0_b3, b2 \div j.src0_b2, row>>], j.k)
       /\ \A col \in 0 .. j.n_cols - 1 : \A i \in 0 .. j.k - 1 :
            /\ j.q[<<b3, b2, col>>][i] \in Act
            /\ j.scales[<<b3, b2, col>>][i \div ABLOCK] \in Int

\* A block of int8 cannot overflow an int16 accumulator.
BlocksFit == 128 * ABLOCK <= 32767

\* The 2 x 2 tile, a padding as long as the code's, and the jobs.
ASSUME MatmulAssumption ==
  /\ ROWS = 2 /\ COLS = 2 /\ BYTE = 256
  /\ PAD \in Nat /\ PAD >= 6
  /\ BlocksFit
  /\ NoHost \notin Host
  /\ \A f \in Jobs : \A h \in Host : IsJob(f[h])
-----------------------------------------------------------------------------
MInit ==
  /\ Init
  /\ job \in Jobs
  /\ pc = [h \in Host |-> IF Cells(job[h]) = {} THEN "true" ELSE "build"]
  /\ cell = [h \in Host |-> 0]
  /\ plan = [h \in Host |-> <<>>] /\ sub_blocks = [h \in Host |-> <<>>]
  /\ psums = [h \in Host |-> <<>>]
  /\ dst = [h \in Host |-> <<>>]
  /\ io_mutex = NoHost /\ frame = <<>> /\ cycles = <<>> /\ rx = <<>>

\* dst with the cells of the pair at c written.
WithPair(f, c, rows, value) ==
  LET written == {DstAt(c, r) : r \in rows}
  IN  [d \in DOMAIN f \cup written |-> IF d \in written THEN value[d[4] - c.row] ELSE f[d]]

\* The pair's cells are written: on to the next pair, or to the status check.
StoreCell(h, value) ==
  LET c == CellAt(job[h], cell[h])
  IN  /\ dst' = [dst EXCEPT ![h] = WithPair(dst[h], c, PairRows(job[h], c), value)]
      /\ cell' = [cell EXCEPT ![h] = @ + 1]
      /\ pc' = [pc EXCEPT ![h] = IF cell[h] + 1 = NumCells(job[h]) THEN "status" ELSE "build"]

\* run_cell_pair up to execute(): an empty plan stores zeros and sends nothing.
Build(h) ==
  /\ pc[h] = "build"
  /\ \E x \in {CellInput(job[h], CellAt(job[h], cell[h]))} : \E live \in {LiveBlocks(x)} :
         /\ plan' = [plan EXCEPT ![h] = BuildPlan(x, live)]
         /\ sub_blocks' = [sub_blocks EXCEPT ![h] = SubBlocks(x, live)]
         /\ \/ plan'[h] = <<>> /\ StoreCell(h, [r \in Row |-> 0])
            \/ /\ plan'[h] # <<>>
               /\ pc' = [pc EXCEPT ![h] = "execute"]
               /\ UNCHANGED <<cell, dst>>
  /\ UNCHANGED <<vars, job, psums, wire>>

\* UsbTransport::execute up to its read: one 'M' frame holds the whole plan.
Execute(h) ==
  /\ pc[h] = "execute" /\ io_mutex = NoHost
  /\ io_mutex' = h
  /\ frame' = [i \in DOMAIN plan[h] |-> PackDesc(plan[h][i])]
  /\ pc' = [pc EXCEPT ![h] = "reply"]
  /\ UNCHANGED <<vars, job, cell, plan, sub_blocks, psums, dst, cycles, rx>>

FrameDone == frame = <<>> /\ cycles = <<>>

\* The rest of it: each run tail takes the next ROWS * PsumBytes reply bytes.
Reply(h) ==
  /\ pc[h] = "reply" /\ FrameDone
  /\ LET tails(i) == Cardinality({j \in 1 .. i - 1 : plan[h][j].ends_run})
         reply(i) == SubSeq(rx, tails(i) * ROWS * PsumBytes + 1, Len(rx))
     IN  psums' = [psums EXCEPT ![h] = [i \in DOMAIN plan[h] |-> [r \in Row |->
                     IF plan[h][i].ends_run THEN ParsePsum(reply(i), r) ELSE 0]]]
  /\ rx' = <<>> /\ io_mutex' = NoHost
  /\ pc' = [pc EXCEPT ![h] = "fold"]
  /\ UNCHANGED <<vars, job, cell, plan, sub_blocks, dst, frame, cycles>>

\* run_cell_pair after execute().
Fold(h) ==
  /\ pc[h] = "fold"
  /\ StoreCell(h, [r \in Row |-> FoldRow(sub_blocks[h], psums[h], r)])
  /\ UNCHANGED <<vars, job, plan, sub_blocks, psums, wire>>

\* UsbTransport::status, a one-cycle 'X' frame, and the end of run_bonsai_matmul.
AskStatus(h) ==
  /\ pc[h] = "status" /\ io_mutex = NoHost
  /\ io_mutex' = h
  /\ cycles' = <<Cycle("STATUS", 0, 0)>>
  /\ pc' = [pc EXCEPT ![h] = "error bit"]
  /\ UNCHANGED <<vars, job, cell, plan, sub_blocks, psums, dst, frame, rx>>

ReadStatus_keepsLock(h) ==
  /\ pc[h] = "error bit" /\ FrameDone
  /\ pc' = [pc EXCEPT ![h] = IF rx[1] = 0 THEN "true" ELSE "false"]
  /\ rx' = <<>>
  /\ UNCHANGED <<vars, job, cell, plan, sub_blocks, psums, dst, io_mutex, frame, cycles>>

ReadStatus(h) ==
  /\ pc[h] = "error bit" /\ FrameDone
  /\ pc' = [pc EXCEPT ![h] = IF rx[1] = 0 THEN "true" ELSE "false"]
  /\ rx' = <<>> /\ io_mutex' = NoHost
  /\ UNCHANGED <<vars, job, cell, plan, sub_blocks, psums, dst, frame, cycles>>
-----------------------------------------------------------------------------
(* The firmware: the next descriptor of the frame, then its cycles. *)

NextTile ==
  /\ cycles = <<>> /\ frame # <<>>
  /\ cycles' = RunTileMacro(Head(frame))
  /\ frame' = Tail(frame)
  /\ UNCHANGED <<vars, host, io_mutex, rx>>

\* The command the chip sees on one edge, as its memories decode the argument.
Drive(c) ==
  \/ c.cmd = "CLEAR" /\ Clear
  \/ c.cmd = "LDW" /\ Ldw(ArgRow(c.arg), UnpackBits(c.data))
  \/ c.cmd = "LDA" /\ Lda(ArgCol(c.arg), ToAct(c.data))
  \/ c.cmd = "SEED" /\ Seed(ArgRow(c.arg), ArgByte(c.arg), c.data)
  \/ c.cmd = "START" /\ Start
  \/ c.cmd \in {"RDP", "STATUS", "NOP"} /\ Observe

\* chip_cycle: uo_out is sampled after the edge, the command still on the pins.
\* Of the bytes that come back the firmware keeps RDP's, and the host STATUS's
\* (its error bit).
ChipCycle ==
  /\ cycles # <<>>
  /\ LET c == Head(cycles)
     IN  /\ Drive(c)
         /\ rx' = CASE c.cmd = "RDP"    -> Append(rx, GetByte(acc_q'[ArgRow(c.arg)], ArgByte(c.arg)))
                    [] c.cmd = "STATUS" -> Append(rx, IF error_latched' THEN 1 ELSE 0)
                    [] OTHER            -> rx
  /\ cycles' = Tail(cycles)
  /\ UNCHANGED <<host, io_mutex, frame>>

Firmware == NextTile \/ ChipCycle

HostStep(h) == \/ Build(h) \/ Execute(h) \/ Reply(h) \/ Fold(h)
               \/ AskStatus(h) \/ ReadStatus(h)

Finished == \A h \in Host : pc[h] \in {"true", "false"}

MNext == \/ \E h \in Host : HostStep(h)
         \/ Firmware
         \/ Finished /\ UNCHANGED allvars

MSpec == MInit /\ [][MNext]_allvars

\* While a thread or the firmware can go on, one of them does: no more is asked
\* of the scheduler or of the mutex, every thread's work being finite.
MFairSpec == MSpec /\ WF_allvars(MNext)
-----------------------------------------------------------------------------
(* Properties. *)

\* The matrix product is right: once a thread has been through its cells, every
\* cell of dst, and nothing else, was written, with the exact dot product of its
\* dequantised row and column, whatever was skipped, padded, wrapped or paired on
\* the way and whatever other threads had the chip do in between.
ResultsExact ==
  \A h \in Host : pc[h] = "status" =>
    /\ DOMAIN dst[h] = Cells(job[h])
    /\ \A i \in 0 .. NumCells(job[h]) - 1 :
         LET c == CellAt(job[h], i)
         IN  \A r \in PairRows(job[h], c) :
               dst[h][DstAt(c, r)] = CellRef(CellInput(job[h], c), r)

\* The padding is long enough: the firmware never polls, so every write, START
\* and read it issues must find the chip idle, the only time it is accepted.
CommandsLand ==
  cycles # <<>> /\ Head(cycles).cmd \in {"LDW", "LDA", "SEED", "START", "RDP"} => Idle

\* run_tile_macro drives the chip exactly as build_tile_pairs would, for every
\* tile matmul.cpp plans ("Mirrors host-side build_tile_pairs", main.c:128).
MacroMatchesHost ==
  \A h \in Host : pc[h] = "execute" => \A i \in DOMAIN plan[h] :
    RunTileMacro(PackDesc(plan[h][i])) = BuildTilePairs(plan[h][i])

\* A product that was computed is reported as computed, and every thread's ends:
\* the final status check cannot fail on an error bit some other frame left.
Completes == <>(\A h \in Host : pc[h] = "true")
=============================================================================
