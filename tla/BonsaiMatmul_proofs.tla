------------------------ MODULE BonsaiMatmul_proofs ------------------------
(***************************************************************************)
(* Proofs about BonsaiMatmul, for every job, any number of threads and any *)
(* padding of at least 6: every command the firmware issues finds the chip *)
(* idle, run_tile_macro drives the chip as build_tile_pairs would, the     *)
(* status check never fails, and every cell of every product is its exact  *)
(* dot product.                                                            *)
(*                                                                         *)
(* The argument follows the data: the cycles of a tile and the edge each   *)
(* of them is for the chip (TileEdge); a frame on its way through firmware *)
(* and chip (At); the sums it brings back (ReplyAt), which int16 holds     *)
(* because a run is one block; the blocks of a row, whose sums fold into   *)
(* the dot product (FoldExact); and the threads that share the link        *)
(* (MatmulInv, the inductive invariant).                                   *)
(***************************************************************************)
EXTENDS BonsaiMatmul, TpuTile_proofs, FiniteSetTheorems

-----------------------------------------------------------------------------
(* The tile of the backend, and the cycles a descriptor becomes. *)

\* The powers of two the packing uses.
LEMMA Powers == 2^0 = 1 /\ 2^1 = 2 /\ 2^2 = 4
OBVIOUS

\* A select field for two rows or columns is one bit wide.
LEMMA SelSpanTwo == SelSpan(2) = 2
<1>. DEFINE P == {2^k : k \in 1 .. 2}
<1>1. P = {2, 4}
  <2>1. 1 .. 2 = {1, 2}
    OBVIOUS
  <2>2. P = {2^1, 2^2}
    BY <2>1, Zenon
  <2>3. QED
    BY <2>2, Powers
<1>. HIDE DEF P
<1>2. (CHOOSE p \in P : p >= 2 /\ \A q \in P : q >= 2 => p <= q) = 2
  BY <1>1
<1>3. QED
  BY <1>2 DEF SelSpan, P

\* Two bits, packed into a byte and unpacked again, come back.
LEMMA PackTwo ==
  ASSUME NEW b, b \in [0 .. 1 -> {0, 1}]
  PROVE  PackBits(b) = b[0] + 2 * b[1]
<1>. DEFINE v(c) == b[c] * 2^c
            D == DOMAIN b
            Solves(f) == f = [s \in SUBSET D |-> IF s = {} THEN 0
                               ELSE v(CHOOSE x \in s : TRUE) + f[s \ {CHOOSE x \in s : TRUE}]]
            iter == CHOOSE f : Solves(f)
<1>1. D = {0, 1} /\ SUBSET D = {{}, {0}, {1}, {0, 1}}
  OBVIOUS
<1>2. v(0) = b[0] /\ v(1) = 2 * b[1] /\ b[0] \in Int /\ b[1] \in Int
  BY Powers
<1>3. PackBits(b) = iter[D]
  BY Zenon DEF PackBits, MapThenSumSet, MapThenFoldSet
<1>. DEFINE ch(s) == CHOOSE x \in s : TRUE
            Step(s, f) == IF s = {} THEN 0 ELSE v(ch(s)) + f[s \ {ch(s)}]
            g == [s \in SUBSET D |-> (IF 0 \in s THEN v(0) ELSE 0) + (IF 1 \in s THEN v(1) ELSE 0)]
<1>4. /\ ch({0}) = 0 /\ ch({1}) = 1 /\ ch({0, 1}) \in {0, 1}
      /\ {0} \ {0} = {} /\ {1} \ {1} = {} /\ {0, 1} \ {0} = {1} /\ {0, 1} \ {1} = {0}
      /\ {0} # {} /\ {1} # {} /\ {0, 1} # {}
  OBVIOUS
<1>. HIDE DEF v, ch, D
<1>5. g[{}] = 0 /\ g[{0}] = v(0) /\ g[{1}] = v(1) /\ g[{0, 1}] = v(0) + v(1)
  <2>1. {} \in SUBSET D /\ {0} \in SUBSET D /\ {1} \in SUBSET D /\ {0, 1} \in SUBSET D
    BY <1>1
  <2>2. QED
    BY <1>2, <2>1
<1>6. \A s \in SUBSET D : g[s] = Step(s, g)
  <2>. HIDE DEF g
  <2>1. g[{}] = Step({}, g)
    BY <1>5
  <2>0. v(0) \in Int /\ v(1) \in Int
    BY <1>2
  <2>2. g[{0}] = Step({0}, g)
    <3>1. Step({0}, g) = v(0) + g[{}]
      BY <1>4, Zenon
    <3>2. QED
      BY <1>5, <2>0, <3>1
  <2>3. g[{1}] = Step({1}, g)
    <3>1. Step({1}, g) = v(1) + g[{}]
      BY <1>4, Zenon
    <3>2. QED
      BY <1>5, <2>0, <3>1
  <2>4. g[{0, 1}] = Step({0, 1}, g)
    <3>1. CASE ch({0, 1}) = 0
      <4>1. Step({0, 1}, g) = v(0) + g[{1}]
        BY <1>4, <3>1, Zenon
      <4>2. QED
        BY <1>5, <4>1
    <3>2. CASE ch({0, 1}) = 1
      <4>1. Step({0, 1}, g) = v(1) + g[{0}]
        BY <1>4, <3>2, Zenon
      <4>2. QED
        BY <1>5, <2>0, <4>1
    <3>3. QED
      BY <1>4, <3>1, <3>2
  <2>5. QED
    BY <1>1, <2>1, <2>2, <2>3, <2>4, Zenon
<1>7. g = [s \in SUBSET D |-> Step(s, g)]
  <2>1. g = [s \in SUBSET D |-> g[s]]
    OBVIOUS
  <2>. HIDE DEF g, Step
  <2>2. QED
    BY <1>6, <2>1
<1>8. Solves(g)
  <2>. HIDE DEF g
  <2>1. QED
    BY <1>7, Zenon DEF ch
<1>9. Solves(iter)
  <2>. HIDE DEF g, Solves
  <2>1. QED
    BY <1>8, Zenon
<1>10. \A s \in SUBSET D : iter[s] = Step(s, iter)
  <2>1. iter = [s \in SUBSET D |-> Step(s, iter)]
    <3>. HIDE DEF iter
    <3>1. QED
      BY <1>9, Zenon DEF ch
  <2>. HIDE DEF iter, Step
  <2>2. \A f : f = [s \in SUBSET D |-> Step(s, f)] => \A s \in SUBSET D : f[s] = Step(s, f)
    OBVIOUS
  <2>3. QED
    BY <2>1, <2>2, Zenon
<1>. HIDE DEF iter, Solves, g
<1>11. iter[{}] = 0
  BY <1>1, <1>10
<1>12. iter[{0}] = v(0) /\ iter[{1}] = v(1)
  BY <1>1, <1>2, <1>4, <1>10, <1>11
<1>13. iter[{0, 1}] = v(0) + v(1)
  <2>0. iter[{0, 1}] = v(ch({0, 1})) + iter[{0, 1} \ {ch({0, 1})}]
    BY <1>1, <1>4, <1>10
  <2>1. CASE ch({0, 1}) = 0
    BY <1>2, <1>4, <1>12, <2>0, <2>1
  <2>2. CASE ch({0, 1}) = 1
    <3>1. iter[{0, 1}] = v(1) + iter[{0}] /\ v(0) \in Int /\ v(1) \in Int
      <4>1. iter[{0, 1}] = v(1) + iter[{0}]
        BY <1>4, <2>0, <2>2, Zenon
      <4>2. QED
        BY <1>2, <4>1
    <3>2. QED
      BY <1>12, <3>1
  <2>3. QED
    BY <1>4, <2>1, <2>2
<1>14. QED
  BY <1>1, <1>2, <1>3, <1>13

-----------------------------------------------------------------------------
(* The tile's size as UsbTransport's static_assert and project.v fix it. *)

\* The tile the backend is built for: 2 x 2, with bytes of eight bits.
TwoByTwo == ROWS = 2 /\ COLS = 2 /\ BYTE = 256

\* Its rows, columns, fields and latency.
LEMMA TwoFacts ==
  ASSUME TwoByTwo
  PROVE  /\ Row = 0 .. 1 /\ Col = 0 .. 1 /\ SelSpan(ROWS) = 2 /\ SelSpan(COLS) = 2
         /\ RowSel = 0 .. 1 /\ ColSel = 0 .. 1 /\ Byte = 0 .. 255 /\ Act = -128 .. 127
         /\ TileLatency = 7 /\ 0 \in Row /\ 1 \in Row /\ 0 \in Col /\ 1 \in Col
         /\ PsumBytes = 2
<1>1. SelSpan(ROWS) = 2 /\ SelSpan(COLS) = 2
  BY SelSpanTwo DEF TwoByTwo
<1>2. QED
  BY <1>1 DEF TwoByTwo, Row, Col, RowSel, ColSel, Byte, Act, TileLatency, PsumBytes

\* What matmul.cpp plans: bits, small activations, seeds of zero.
OpSet == [weights : [Row -> [Col -> Bit]], acts : [Col -> Act], seeds : [Row -> {0}],
          starts_run : BOOLEAN, ends_run : BOOLEAN]

\* What the packed byte of a descriptor says, read back.
LEMMA Packed ==
  ASSUME TwoByTwo, NEW op \in OpSet
  PROVE  LET p == PackDesc(op).packed
         IN  /\ p \in 0 .. 63
             /\ p % 4 = PackBits(op.weights[0]) /\ (p \div 4) % 4 = PackBits(op.weights[1])
             /\ (p \div 16) % 2 = 1 <=> op.starts_run
             /\ (p \div 32) % 2 = 1 <=> op.ends_run
             /\ PackBits(op.weights[0]) \in 0 .. 3 /\ PackBits(op.weights[1]) \in 0 .. 3
<1>1. op.weights[0] \in [0 .. 1 -> {0, 1}] /\ op.weights[1] \in [0 .. 1 -> {0, 1}]
  <2>1. op.weights \in [Row -> [Col -> Bit]]
    BY DEF OpSet
  <2>2. QED
    BY <2>1, TwoFacts DEF Bit
<1>2. PICK x \in 0 .. 3 : x = PackBits(op.weights[0])
  BY <1>1, PackTwo
<1>3. PICK y \in 0 .. 3 : y = PackBits(op.weights[1])
  BY <1>1, PackTwo
<1>4. PICK s \in {0, 1} : s = (IF op.starts_run THEN 1 ELSE 0)
  OBVIOUS
<1>5. PICK e \in {0, 1} : e = (IF op.ends_run THEN 1 ELSE 0)
  OBVIOUS
<1>6. PICK p \in 0 .. 63 : p = x + y * 4 + s * 16 + e * 32
  OBVIOUS
<1>7. PackDesc(op).packed = p
  BY <1>2, <1>3, <1>4, <1>5, <1>6 DEF PackDesc
<1>8. p % 4 = x /\ (p \div 4) % 4 = y /\ (p \div 16) % 2 = s /\ (p \div 32) % 2 = e
  BY <1>6
<1>9. QED
  BY <1>2, <1>3, <1>4, <1>5, <1>7, <1>8 DEF OpSet

\* The firmware's cycles for a descriptor are the host's for the tile.
LEMMA MacroIsPairs ==
  ASSUME TwoByTwo, NEW op \in OpSet
  PROVE  RunTileMacro(PackDesc(op)) = BuildTilePairs(op)
<1>. DEFINE d == PackDesc(op)
            pw == <<d.packed % 4, (d.packed \div 4) % 4>>
<1>1. pw[1] = PackBits(op.weights[0]) /\ pw[2] = PackBits(op.weights[1])
  BY Packed
<1>2. ((d.packed \div 16) % 2 = 1) = op.starts_run /\ ((d.packed \div 32) % 2 = 1) = op.ends_run
  BY Packed DEF OpSet
<1>3. \A i \in 1 .. ROWS : Cycle("LDW", i - 1, pw[i]) = Cycle("LDW", RowArg(i - 1), PackBits(op.weights[i - 1]))
  <2>1. ASSUME NEW i \in 1 .. ROWS PROVE RowArg(i - 1) = i - 1 /\ pw[i] = PackBits(op.weights[i - 1])
    <3>1. i = 1 \/ i = 2
      BY DEF TwoByTwo
    <3>2. RowArg(i - 1) = i - 1
      BY <3>1, TwoFacts DEF RowArg
    <3>. HIDE DEF pw
    <3>3. QED
      BY <1>1, <3>1, <3>2
  <2>. HIDE DEF pw
  <2>2. QED
    BY <2>1
<1>4. \A i \in 1 .. COLS : Cycle("LDA", i - 1, d.acts[i - 1]) = Cycle("LDA", ColArg(i - 1), ToByte(op.acts[i - 1]))
  <2>1. ASSUME NEW i \in 1 .. COLS PROVE ColArg(i - 1) = i - 1 /\ d.acts[i - 1] = ToByte(op.acts[i - 1])
    <3>1. (i = 1 \/ i = 2) /\ i - 1 \in 0 .. COLS - 1
      BY DEF TwoByTwo
    <3>2. ColArg(i - 1) = i - 1
      BY <3>1, TwoFacts DEF ColArg
    <3>3. QED
      BY <3>1, <3>2 DEF PackDesc
  <2>. HIDE DEF d
  <2>2. QED
    BY <2>1
<1>5. op.seeds = [r \in 0 .. ROWS - 1 |-> 0]
  BY DEF OpSet, Row
<1>. HIDE DEF d, pw
<1>6. /\ [i \in 1 .. ROWS |-> Cycle("LDW", i - 1, pw[i])]
         = [i \in 1 .. ROWS |-> Cycle("LDW", RowArg(i - 1), PackBits(op.weights[i - 1]))]
      /\ [i \in 1 .. COLS |-> Cycle("LDA", i - 1, d.acts[i - 1])]
         = [i \in 1 .. COLS |-> Cycle("LDA", ColArg(i - 1), ToByte(op.acts[i - 1]))]
  BY <1>3, <1>4
<1>7. QED
  BY <1>2, <1>5, <1>6, Zenon DEF RunTileMacro, BuildTilePairs, d, pw

-----------------------------------------------------------------------------
(* The cycles of a tile, place by place. *)

\* The cycles the firmware and the host drive.
CmdSet == {"CLEAR", "LDW", "LDA", "SEED", "START", "RDP", "STATUS", "NOP"}
CycleSet == [cmd : CmdSet, arg : Nat, data : Byte]
NOP == Cycle("NOP", 0, 0)

\* Every cycle that is built is one of them.
LEMMA CycleType ==
  ASSUME TwoByTwo, NEW cmd \in CmdSet, NEW arg \in Nat, NEW data \in 0 .. 255
  PROVE  /\ Cycle(cmd, arg, data) \in CycleSet /\ Cycle(cmd, arg, data).cmd = cmd
         /\ Cycle(cmd, arg, data).arg = arg /\ Cycle(cmd, arg, data).data = data
BY TwoFacts DEF Cycle, CycleSet

\* A function on 1 .. n is a sequence.
LEMMA FunIsSeq ==
  ASSUME NEW T, NEW n \in Nat, NEW f \in [1 .. n -> T]
  PROVE  f \in Seq(T) /\ Len(f) = n
OBVIOUS

\* Two pairs of cycles, one after the other.
LEMMA FlattenTwo ==
  ASSUME NEW T, NEW g, g \in [1 .. 2 -> Seq(T)], Len(g[1]) = 2, Len(g[2]) = 2
  PROVE  /\ FlattenSeq(g) \in Seq(T) /\ Len(FlattenSeq(g)) = 4
         /\ FlattenSeq(g)[1] = g[1][1] /\ FlattenSeq(g)[2] = g[1][2]
         /\ FlattenSeq(g)[3] = g[2][1] /\ FlattenSeq(g)[4] = g[2][2]
<1>. DEFINE o == [i \in 0 .. 2 |-> 2 * i]
<1>1. o[0] = 0 /\ o[1] = 2 /\ o[2] = 4 /\ o \in [0 .. 2 -> Nat]
  OBVIOUS
<1>. HIDE DEF o
<1>2. \A i \in 1 .. 2 : o[i] = o[i - 1] + Len(g[i])
  <2>1. o[1] = o[1 - 1] + Len(g[1]) /\ o[2] = o[2 - 1] + Len(g[2])
    BY <1>1
  <2>2. \A i \in 1 .. 2 : i = 1 \/ i = 2
    OBVIOUS
  <2>3. QED
    BY <2>1, <2>2
<1>3. Pieces(g, o, 2, T)
  BY <1>1, <1>2 DEF Pieces
<1>4. Laid(FlattenSeq(g), g, o, 2, T)
  BY <1>3, FlattenBlocks
<1>5. /\ FlattenSeq(g) \in Seq(T) /\ Len(FlattenSeq(g)) = o[2]
      /\ \A i \in 1 .. 2 : \A k \in 1 .. Len(g[i]) : FlattenSeq(g)[o[i - 1] + k] = g[i][k]
  BY <1>4, Zenon DEF Laid
<1>6. /\ FlattenSeq(g)[o[1 - 1] + 1] = g[1][1] /\ FlattenSeq(g)[o[1 - 1] + 2] = g[1][2]
      /\ FlattenSeq(g)[o[2 - 1] + 1] = g[2][1] /\ FlattenSeq(g)[o[2 - 1] + 2] = g[2][2]
  BY <1>5
<1>7. QED
  BY <1>1, <1>5, <1>6

\* Two bytes of each of two rows, low byte first: the arguments of SEED and of RDP.
LEMMA RowByteCycles ==
  ASSUME TwoByTwo, NEW cmd \in CmdSet, NEW s,
         s = FlattenSeq([i \in 1 .. ROWS |-> [b \in 1 .. PsumBytes |-> Cycle(cmd, RowByteArg(i - 1, b - 1), 0)]])
  PROVE  /\ s \in Seq(CycleSet) /\ Len(s) = 4
         /\ s[1] = Cycle(cmd, 0, 0) /\ s[2] = Cycle(cmd, 2, 0)
         /\ s[3] = Cycle(cmd, 1, 0) /\ s[4] = Cycle(cmd, 3, 0)
<1>. DEFINE p(i) == [b \in 1 .. PsumBytes |-> Cycle(cmd, RowByteArg(i - 1, b - 1), 0)]
            g == [i \in 1 .. ROWS |-> p(i)]
<1>1. ROWS = 2 /\ PsumBytes = 2
  BY DEF TwoByTwo, PsumBytes
<1>2. /\ RowByteArg(1 - 1, 1 - 1) = 0 /\ RowByteArg(1 - 1, 2 - 1) = 2
      /\ RowByteArg(2 - 1, 1 - 1) = 1 /\ RowByteArg(2 - 1, 2 - 1) = 3
  BY TwoFacts DEF RowByteArg, RowArg
<1>3. \A a \in Nat : Cycle(cmd, a, 0) \in CycleSet
  BY CycleType
<1>4. /\ p(1)[1] = Cycle(cmd, 0, 0) /\ p(1)[2] = Cycle(cmd, 2, 0)
      /\ p(2)[1] = Cycle(cmd, 1, 0) /\ p(2)[2] = Cycle(cmd, 3, 0)
  BY <1>1, <1>2
<1>5. p(1) \in Seq(CycleSet) /\ Len(p(1)) = 2 /\ p(2) \in Seq(CycleSet) /\ Len(p(2)) = 2
  <2>1. ASSUME NEW i \in {1, 2} PROVE p(i) \in [1 .. 2 -> CycleSet]
    <3>1. ASSUME NEW b \in 1 .. 2 PROVE RowByteArg(i - 1, b - 1) \in Nat
      <4>1. b = 1 \/ b = 2
        OBVIOUS
      <4>2. QED
        BY <1>2, <4>1
    <3>2. QED
      BY <1>1, <1>3, <3>1
  <2>2. \A x : x \in [1 .. 2 -> CycleSet] => x \in Seq(CycleSet) /\ Len(x) = 2
    <3>1. 2 \in Nat
      OBVIOUS
    <3>2. QED
      BY ONLY <3>1, FunIsSeq
  <2>3. QED
    BY <2>1, <2>2
<1>. HIDE DEF p
<1>6. g \in [1 .. 2 -> Seq(CycleSet)] /\ g[1] = p(1) /\ g[2] = p(2)
  <2>1. \A i \in 1 .. 2 : p(i) \in Seq(CycleSet)
    <3>1. \A i \in 1 .. 2 : i = 1 \/ i = 2
      OBVIOUS
    <3>2. QED
      BY <1>5, <3>1
  <2>2. QED
    BY <1>1, <2>1
<1>7. s = FlattenSeq(g)
  BY Zenon DEF p
<1>. HIDE DEF g
<1>8. /\ FlattenSeq(g) \in Seq(CycleSet) /\ Len(FlattenSeq(g)) = 4
      /\ FlattenSeq(g)[1] = g[1][1] /\ FlattenSeq(g)[2] = g[1][2]
      /\ FlattenSeq(g)[3] = g[2][1] /\ FlattenSeq(g)[4] = g[2][2]
  BY <1>5, <1>6, FlattenTwo
<1>9. QED
  BY <1>4, <1>6, <1>7, <1>8

\* A concatenation, element by element.
LEMMA Concat ==
  ASSUME NEW T, NEW s \in Seq(T), NEW u \in Seq(T), NEW t, t = s \o u, NEW l, l = Len(s)
  PROVE  /\ t \in Seq(T) /\ Len(t) = l + Len(u) /\ l \in Nat /\ Len(u) \in Nat
         /\ \A x \in 1 .. l : t[x] = s[x]
         /\ \A k \in 1 .. Len(u) : t[l + k] = u[k]
<1>1. t \in Seq(T) /\ Len(t) = l + Len(u) /\ l \in Nat /\ Len(u) \in Nat
  OBVIOUS
<1>2. QED
  BY <1>1, ConcatPlaces

\* Where START is in the cycles of a tile, and how many there are.
StartPlace(op) == IF op.starts_run THEN 11 ELSE 5
\* How many cycles a tile takes, the reads of a run's last tile included.
NumCycles(op) == StartPlace(op) + 1 + PAD + (IF op.ends_run THEN 4 ELSE 0)
\* How many cycles clear the tile at the head of a run.
ClearCycles(op) == IF op.starts_run THEN 2 ELSE 0

\* The pieces a tile's cycles are made of.
LEMMA TilePieces ==
  ASSUME TwoByTwo, PAD \in Nat, NEW op \in OpSet
  PROVE  LET h == IF op.starts_run THEN <<Cycle("CLEAR", 0, 0)>> \o Nops(1) ELSE <<>>
             w == [i \in 1 .. ROWS |-> Cycle("LDW", RowArg(i - 1), PackBits(op.weights[i - 1]))]
             a == [i \in 1 .. COLS |-> Cycle("LDA", ColArg(i - 1), ToByte(op.acts[i - 1]))]
             sd == IF op.starts_run THEN SeedCycles(op.seeds) ELSE <<>>
             rd == IF op.ends_run THEN RdpCycles ELSE <<>>
         IN  /\ h \in Seq(CycleSet) /\ Len(h) = ClearCycles(op)
             /\ op.starts_run => h[1] = Cycle("CLEAR", 0, 0) /\ h[2] = NOP
             /\ w \in Seq(CycleSet) /\ Len(w) = 2
             /\ w[1] = Cycle("LDW", 0, PackBits(op.weights[0]))
             /\ w[2] = Cycle("LDW", 1, PackBits(op.weights[1]))
             /\ a \in Seq(CycleSet) /\ Len(a) = 2
             /\ a[1] = Cycle("LDA", 0, ToByte(op.acts[0]))
             /\ a[2] = Cycle("LDA", 1, ToByte(op.acts[1]))
             /\ sd \in Seq(CycleSet) /\ Len(sd) = IF op.starts_run THEN 4 ELSE 0
             /\ op.starts_run => /\ sd[1] = Cycle("SEED", 0, 0) /\ sd[2] = Cycle("SEED", 2, 0)
                                 /\ sd[3] = Cycle("SEED", 1, 0) /\ sd[4] = Cycle("SEED", 3, 0)
             /\ <<Cycle("START", 0, 0)>> \in Seq(CycleSet)
             /\ Nops(1) \in Seq(CycleSet) /\ Len(Nops(1)) = 1 /\ Nops(1)[1] = NOP
             /\ Nops(PAD) \in Seq(CycleSet) /\ Len(Nops(PAD)) = PAD /\ \A i \in 1 .. PAD : Nops(PAD)[i] = NOP
             /\ rd \in Seq(CycleSet) /\ Len(rd) = IF op.ends_run THEN 4 ELSE 0
             /\ op.ends_run => /\ rd[1] = Cycle("RDP", 0, 0) /\ rd[2] = Cycle("RDP", 2, 0)
                               /\ rd[3] = Cycle("RDP", 1, 0) /\ rd[4] = Cycle("RDP", 3, 0)
<1>. DEFINE h == IF op.starts_run THEN <<Cycle("CLEAR", 0, 0)>> \o Nops(1) ELSE <<>>
            w == [i \in 1 .. ROWS |-> Cycle("LDW", RowArg(i - 1), PackBits(op.weights[i - 1]))]
            a == [i \in 1 .. COLS |-> Cycle("LDA", ColArg(i - 1), ToByte(op.acts[i - 1]))]
            sd == IF op.starts_run THEN SeedCycles(op.seeds) ELSE <<>>
            rd == IF op.ends_run THEN RdpCycles ELSE <<>>
<1>1. NOP \in CycleSet /\ Cycle("START", 0, 0) \in CycleSet /\ Cycle("CLEAR", 0, 0) \in CycleSet
  <2>1. 0 \in Nat /\ 0 \in 0 .. 255 /\ "NOP" \in CmdSet /\ "START" \in CmdSet /\ "CLEAR" \in CmdSet
    BY DEF CmdSet
  <2>2. QED
    BY <2>1, CycleType DEF NOP
<1>2. ASSUME NEW n \in Nat
      PROVE  Nops(n) \in Seq(CycleSet) /\ Len(Nops(n)) = n /\ \A i \in 1 .. n : Nops(n)[i] = NOP
  <2>1. Nops(n) \in [1 .. n -> CycleSet] /\ \A i \in 1 .. n : Nops(n)[i] = NOP
    BY <1>1 DEF Nops, NOP
  <2>2. QED
    BY <2>1, FunIsSeq
<1>3. <<Cycle("START", 0, 0)>> \in Seq(CycleSet) /\ <<Cycle("CLEAR", 0, 0)>> \in Seq(CycleSet)
  BY <1>1
<1>4. Nops(1) \in Seq(CycleSet) /\ Len(Nops(1)) = 1 /\ Nops(1)[1] = NOP
  <2>1. 1 \in Nat /\ 1 \in 1 .. 1
    OBVIOUS
  <2>2. QED
    BY <1>2, <2>1
<1>5. h \in Seq(CycleSet) /\ Len(h) = ClearCycles(op) /\ (op.starts_run => h[1] = Cycle("CLEAR", 0, 0) /\ h[2] = NOP)
  <2>1. CASE op.starts_run
    <3>. DEFINE u == <<Cycle("CLEAR", 0, 0)>>
    <3>1. u \in Seq(CycleSet) /\ Len(u) = 1 /\ u[1] = Cycle("CLEAR", 0, 0)
      BY <1>3
    <3>2. Nops(1) \in Seq(CycleSet) /\ Len(Nops(1)) = 1 /\ Nops(1)[1] = NOP
      BY <1>4
    <3>3. h = u \o Nops(1)
      BY <2>1
    <3>. HIDE DEF u, h
    <3>4. /\ h \in Seq(CycleSet) /\ Len(h) = Len(u) + Len(Nops(1))
          /\ \A x \in 1 .. Len(u) : h[x] = u[x]
          /\ \A k \in 1 .. Len(Nops(1)) : h[Len(u) + k] = Nops(1)[k]
      BY <3>1, <3>2, <3>3, Concat
    <3>5. QED
      BY <2>1, <3>1, <3>2, <3>4 DEF ClearCycles
  <2>2. CASE ~op.starts_run
    BY <2>2 DEF ClearCycles
  <2>3. QED
    BY <2>1, <2>2
<1>6. w \in Seq(CycleSet) /\ Len(w) = 2 /\ w[1] = Cycle("LDW", 0, PackBits(op.weights[0]))
      /\ w[2] = Cycle("LDW", 1, PackBits(op.weights[1]))
  <2>1. ROWS = 2 /\ RowArg(0) = 0 /\ RowArg(1) = 1
    BY TwoFacts DEF RowArg, TwoByTwo
  <2>2. PackBits(op.weights[0]) \in 0 .. 255 /\ PackBits(op.weights[1]) \in 0 .. 255
    BY Packed
  <2>3. w[1] = Cycle("LDW", 0, PackBits(op.weights[0])) /\ w[2] = Cycle("LDW", 1, PackBits(op.weights[1]))
        /\ w = [i \in 1 .. 2 |-> w[i]]
    BY <2>1
  <2>. HIDE DEF w
  <2>4. w[1] \in CycleSet /\ w[2] \in CycleSet
    <3>1. "LDW" \in CmdSet /\ 0 \in Nat /\ 1 \in Nat
      BY DEF CmdSet
    <3>2. \A n \in Nat, d \in 0 .. 255 : Cycle("LDW", n, d) \in CycleSet
      BY <3>1, CycleType
    <3>3. QED
      BY <2>2, <2>3, <3>1, <3>2
  <2>5. w \in [1 .. 2 -> CycleSet]
    <3>1. \A i \in 1 .. 2 : i = 1 \/ i = 2
      OBVIOUS
    <3>2. \A i \in 1 .. 2 : w[i] \in CycleSet
      BY <2>4, <3>1
    <3>3. QED
      BY <2>3, <3>2
  <2>6. QED
    BY <2>3, <2>5, FunIsSeq
<1>7. a \in Seq(CycleSet) /\ Len(a) = 2 /\ a[1] = Cycle("LDA", 0, ToByte(op.acts[0]))
      /\ a[2] = Cycle("LDA", 1, ToByte(op.acts[1]))
  <2>1. COLS = 2 /\ ColArg(0) = 0 /\ ColArg(1) = 1
    BY TwoFacts DEF ColArg, TwoByTwo
  <2>2. ToByte(op.acts[0]) \in 0 .. 255 /\ ToByte(op.acts[1]) \in 0 .. 255
    <3>1. op.acts \in [Col -> Act]
      BY DEF OpSet
    <3>2. op.acts[0] \in Int /\ op.acts[1] \in Int
      BY <3>1, TwoFacts
    <3>3. QED
      BY <3>2 DEF ToByte, TwoByTwo
  <2>3. a[1] = Cycle("LDA", 0, ToByte(op.acts[0])) /\ a[2] = Cycle("LDA", 1, ToByte(op.acts[1]))
        /\ a = [i \in 1 .. 2 |-> a[i]]
    BY <2>1
  <2>. HIDE DEF a
  <2>4. a[1] \in CycleSet /\ a[2] \in CycleSet
    <3>1. "LDA" \in CmdSet /\ 0 \in Nat /\ 1 \in Nat
      BY DEF CmdSet
    <3>2. \A n \in Nat, d \in 0 .. 255 : Cycle("LDA", n, d) \in CycleSet
      BY <3>1, CycleType
    <3>3. QED
      BY <2>2, <2>3, <3>1, <3>2
  <2>5. a \in [1 .. 2 -> CycleSet]
    <3>1. \A i \in 1 .. 2 : i = 1 \/ i = 2
      OBVIOUS
    <3>2. \A i \in 1 .. 2 : a[i] \in CycleSet
      BY <2>4, <3>1
    <3>3. QED
      BY <2>3, <3>2
  <2>6. QED
    BY <2>3, <2>5, FunIsSeq
<1>8. /\ sd \in Seq(CycleSet) /\ Len(sd) = IF op.starts_run THEN 4 ELSE 0
      /\ op.starts_run => /\ sd[1] = Cycle("SEED", 0, 0) /\ sd[2] = Cycle("SEED", 2, 0)
                          /\ sd[3] = Cycle("SEED", 1, 0) /\ sd[4] = Cycle("SEED", 3, 0)
  <2>1. \A i \in 1 .. ROWS : \A b \in 1 .. PsumBytes : GetByte(ToPsum(op.seeds[i - 1]), b - 1) = 0
    <3>1. \A i \in 1 .. ROWS : op.seeds[i - 1] = 0
      BY DEF OpSet, Row, TwoByTwo
    <3>2. \A b \in 1 .. PsumBytes : GetByte(ToPsum(0), b - 1) = 0
      BY DEF GetByte, ToPsum, TwoByTwo
    <3>3. QED
      BY <3>1, <3>2
  <2>2. SeedCycles(op.seeds)
          = FlattenSeq([i \in 1 .. ROWS |-> [b \in 1 .. PsumBytes |-> Cycle("SEED", RowByteArg(i - 1, b - 1), 0)]])
    <3>1. [i \in 1 .. ROWS |-> [b \in 1 .. PsumBytes |->
              Cycle("SEED", RowByteArg(i - 1, b - 1), GetByte(ToPsum(op.seeds[i - 1]), b - 1))]]
           = [i \in 1 .. ROWS |-> [b \in 1 .. PsumBytes |-> Cycle("SEED", RowByteArg(i - 1, b - 1), 0)]]
      BY <2>1
    <3>2. QED
      BY <3>1, Zenon DEF SeedCycles
  <2>3. "SEED" \in CmdSet
    BY DEF CmdSet
  <2>4. CASE op.starts_run
    BY <2>2, <2>3, <2>4, RowByteCycles
  <2>5. CASE ~op.starts_run
    BY <2>5
  <2>6. QED
    BY <2>4, <2>5
<1>9. /\ rd \in Seq(CycleSet) /\ Len(rd) = IF op.ends_run THEN 4 ELSE 0
      /\ op.ends_run => /\ rd[1] = Cycle("RDP", 0, 0) /\ rd[2] = Cycle("RDP", 2, 0)
                        /\ rd[3] = Cycle("RDP", 1, 0) /\ rd[4] = Cycle("RDP", 3, 0)
  <2>1. RdpCycles
          = FlattenSeq([i \in 1 .. ROWS |-> [b \in 1 .. PsumBytes |-> Cycle("RDP", RowByteArg(i - 1, b - 1), 0)]])
    BY Zenon DEF RdpCycles
  <2>2. "RDP" \in CmdSet
    BY DEF CmdSet
  <2>3. CASE op.ends_run
    BY <2>1, <2>2, <2>3, RowByteCycles
  <2>4. CASE ~op.ends_run
    BY <2>4
  <2>5. QED
    BY <2>3, <2>4
<1>. HIDE DEF h, w, a, sd, rd
<1>10. QED
  BY <1>2, <1>3, <1>5, <1>6, <1>7, <1>8, <1>9, <1>4, Zenon DEF h, w, a, sd, rd

\* The cycles of a tile, place by place.
Places(op, m) ==
  /\ m \in Seq(CycleSet) /\ Len(m) = NumCycles(op)
  /\ op.starts_run => m[1] = Cycle("CLEAR", 0, 0) /\ m[2] = NOP
  /\ m[ClearCycles(op) + 1] = Cycle("LDW", 0, PackBits(op.weights[0]))
  /\ m[ClearCycles(op) + 2] = Cycle("LDW", 1, PackBits(op.weights[1]))
  /\ m[ClearCycles(op) + 3] = Cycle("LDA", 0, ToByte(op.acts[0]))
  /\ m[ClearCycles(op) + 4] = Cycle("LDA", 1, ToByte(op.acts[1]))
  /\ op.starts_run => /\ m[7] = Cycle("SEED", 0, 0) /\ m[8] = Cycle("SEED", 2, 0)
                      /\ m[9] = Cycle("SEED", 1, 0) /\ m[10] = Cycle("SEED", 3, 0)
  /\ m[StartPlace(op)] = Cycle("START", 0, 0)
  /\ \A i \in 1 .. PAD + 1 : m[StartPlace(op) + i] = NOP
  /\ op.ends_run => LET e == StartPlace(op) + 1 + PAD
                    IN  /\ m[e + 1] = Cycle("RDP", 0, 0) /\ m[e + 2] = Cycle("RDP", 2, 0)
                        /\ m[e + 3] = Cycle("RDP", 1, 0) /\ m[e + 4] = Cycle("RDP", 3, 0)

\* The cycles of a tile are in those places.
LEMMA TilePlaces ==
  ASSUME TwoByTwo, PAD \in Nat, NEW op \in OpSet
  PROVE  Places(op, BuildTilePairs(op))
<1>. DEFINE h == IF op.starts_run THEN <<Cycle("CLEAR", 0, 0)>> \o Nops(1) ELSE <<>>
            w == [i \in 1 .. ROWS |-> Cycle("LDW", RowArg(i - 1), PackBits(op.weights[i - 1]))]
            a == [i \in 1 .. COLS |-> Cycle("LDA", ColArg(i - 1), ToByte(op.acts[i - 1]))]
            sd == IF op.starts_run THEN SeedCycles(op.seeds) ELSE <<>>
            rd == IF op.ends_run THEN RdpCycles ELSE <<>>
            st == <<Cycle("START", 0, 0)>>
            c1 == h \o w
            c2 == c1 \o a
            c3 == c2 \o sd
            c4 == c3 \o st
            c5 == c4 \o Nops(1)
            c6 == c5 \o Nops(PAD)
            m == c6 \o rd
            b == ClearCycles(op)
            n == StartPlace(op)
            T == CycleSet
<1>1. BuildTilePairs(op) = m
  BY Zenon DEF BuildTilePairs
<1>2. /\ h \in Seq(T) /\ Len(h) = b
      /\ op.starts_run => h[1] = Cycle("CLEAR", 0, 0) /\ h[2] = NOP
      /\ w \in Seq(T) /\ Len(w) = 2
      /\ w[1] = Cycle("LDW", 0, PackBits(op.weights[0]))
      /\ w[2] = Cycle("LDW", 1, PackBits(op.weights[1]))
      /\ a \in Seq(T) /\ Len(a) = 2
      /\ a[1] = Cycle("LDA", 0, ToByte(op.acts[0]))
      /\ a[2] = Cycle("LDA", 1, ToByte(op.acts[1]))
      /\ sd \in Seq(T) /\ Len(sd) = IF op.starts_run THEN 4 ELSE 0
      /\ op.starts_run => /\ sd[1] = Cycle("SEED", 0, 0) /\ sd[2] = Cycle("SEED", 2, 0)
                          /\ sd[3] = Cycle("SEED", 1, 0) /\ sd[4] = Cycle("SEED", 3, 0)
      /\ st \in Seq(T)
      /\ Nops(1) \in Seq(T) /\ Len(Nops(1)) = 1 /\ Nops(1)[1] = NOP
      /\ Nops(PAD) \in Seq(T) /\ Len(Nops(PAD)) = PAD /\ \A i \in 1 .. PAD : Nops(PAD)[i] = NOP
      /\ rd \in Seq(T) /\ Len(rd) = IF op.ends_run THEN 4 ELSE 0
      /\ op.ends_run => /\ rd[1] = Cycle("RDP", 0, 0) /\ rd[2] = Cycle("RDP", 2, 0)
                        /\ rd[3] = Cycle("RDP", 1, 0) /\ rd[4] = Cycle("RDP", 3, 0)
  BY TilePieces, Zenon
<1>3. Len(st) = 1 /\ st[1] = Cycle("START", 0, 0)
  OBVIOUS
<1>4. /\ op.starts_run \in BOOLEAN /\ op.ends_run \in BOOLEAN
      /\ op.starts_run => b = 2 /\ n = 11
      /\ ~op.starts_run => b = 0 /\ n = 5
  BY DEF ClearCycles, StartPlace, OpSet
<1>. HIDE DEF h, w, a, sd, rd, st, b, n, T
<1>5. /\ c1 \in Seq(T) /\ Len(c1) = b + 2 /\ \A x \in 1 .. b : c1[x] = h[x]
      /\ c1[b + 1] = w[1] /\ c1[b + 2] = w[2]
  <2>1. c1 = h \o w
    OBVIOUS
  <2>. HIDE DEF c1
  <2>2. /\ c1 \in Seq(T) /\ Len(c1) = b + Len(w)
        /\ \A x \in 1 .. b : c1[x] = h[x]
        /\ \A k \in 1 .. Len(w) : c1[b + k] = w[k]
    <3>1. h \in Seq(T) /\ w \in Seq(T) /\ c1 = h \o w /\ b = Len(h)
      BY <1>2, <2>1
    <3>2. QED
      BY ONLY <3>1, Concat
  <2>3. QED
    BY <1>2, <2>2
<1>. HIDE DEF c1
<1>6. /\ c2 \in Seq(T) /\ Len(c2) = b + 4 /\ \A x \in 1 .. b + 2 : c2[x] = c1[x]
      /\ c2[b + 3] = a[1] /\ c2[b + 4] = a[2]
  <2>1. c2 = c1 \o a
    OBVIOUS
  <2>. HIDE DEF c2
  <2>. DEFINE l == b + 2
  <2>2. /\ c2 \in Seq(T) /\ Len(c2) = l + Len(a)
        /\ \A x \in 1 .. l : c2[x] = c1[x]
        /\ \A k \in 1 .. Len(a) : c2[l + k] = a[k]
    <3>. HIDE DEF l
    <3>1. l = Len(c1)
      BY <1>5 DEF l
    <3>2. QED
      <4>1. c1 \in Seq(T) /\ a \in Seq(T) /\ c2 = c1 \o a /\ l = Len(c1)
        BY <1>2, <1>5, <2>1, <3>1
      <4>2. QED
        BY ONLY <4>1, Concat
  <2>3. QED
    <3>1. l + 1 = b + 3 /\ l + 2 = b + 4 /\ l + 2 = b + 4 /\ 1 \in 1 .. Len(a) /\ 2 \in 1 .. Len(a)
      BY <1>2, <1>4
    <3>. HIDE DEF l
    <3>2. c2[l + 1] = a[1] /\ c2[l + 2] = a[2] /\ Len(c2) = b + 4
      BY <1>2, <2>2, <3>1
    <3>3. \A x \in 1 .. b + 2 : c2[x] = c1[x]
      BY <2>2 DEF l
    <3>4. QED
      BY <2>2, <3>1, <3>2, <3>3
<1>. HIDE DEF c2
<1>7. /\ c3 \in Seq(T) /\ Len(c3) = n - 1 /\ \A x \in 1 .. b + 4 : c3[x] = c2[x]
      /\ op.starts_run => c3[7] = sd[1] /\ c3[8] = sd[2] /\ c3[9] = sd[3] /\ c3[10] = sd[4]
  <2>1. c3 = c2 \o sd
    OBVIOUS
  <2>. HIDE DEF c3
  <2>. DEFINE l == b + 4
  <2>2. /\ c3 \in Seq(T) /\ Len(c3) = l + Len(sd)
        /\ \A x \in 1 .. l : c3[x] = c2[x]
        /\ \A k \in 1 .. Len(sd) : c3[l + k] = sd[k]
    <3>. HIDE DEF l
    <3>1. l = Len(c2)
      BY <1>6 DEF l
    <3>2. QED
      <4>1. c2 \in Seq(T) /\ sd \in Seq(T) /\ c3 = c2 \o sd /\ l = Len(c2)
        BY <1>2, <1>6, <2>1, <3>1
      <4>2. QED
        BY ONLY <4>1, Concat
  <2>3. QED
    <3>1. CASE op.starts_run
      <4>1. l = 6 /\ Len(sd) = 4 /\ n = 11
        BY <1>2, <1>4, <3>1
      <4>2. c3[l + 1] = sd[1] /\ c3[l + 2] = sd[2] /\ c3[l + 3] = sd[3] /\ c3[l + 4] = sd[4]
        <5>. HIDE DEF l
        <5>1. QED
          BY <2>2, <4>1
      <4>3. c3[7] = sd[1] /\ c3[8] = sd[2] /\ c3[9] = sd[3] /\ c3[10] = sd[4] /\ Len(c3) = n - 1
        <5>. HIDE DEF l
        <5>1. QED
          BY <2>2, <4>1, <4>2
      <4>4. QED
        BY <2>2, <4>3
    <3>2. CASE ~op.starts_run
      <4>1. l = 4 /\ Len(sd) = 0 /\ n = 5
        BY <1>2, <1>4, <3>2
      <4>2. QED
        BY <2>2, <3>2, <4>1
    <3>3. QED
      BY <3>1, <3>2
<1>. HIDE DEF c3
<1>8. c4 \in Seq(T) /\ Len(c4) = n /\ (\A x \in 1 .. n - 1 : c4[x] = c3[x]) /\ c4[n] = st[1]
  <2>1. c4 = c3 \o st
    OBVIOUS
  <2>. HIDE DEF c4
  <2>. DEFINE l == n - 1
  <2>2. /\ c4 \in Seq(T) /\ Len(c4) = l + Len(st)
        /\ \A x \in 1 .. l : c4[x] = c3[x]
        /\ \A k \in 1 .. Len(st) : c4[l + k] = st[k]
    <3>. HIDE DEF l
    <3>1. l = Len(c3)
      BY <1>7 DEF l
    <3>2. QED
      <4>1. c3 \in Seq(T) /\ st \in Seq(T) /\ c4 = c3 \o st /\ l = Len(c3)
        BY <1>2, <1>7, <2>1, <3>1
      <4>2. QED
        BY ONLY <4>1, Concat
  <2>3. QED
    BY <1>3, <1>4, <2>2
<1>. HIDE DEF c4
<1>9. c5 \in Seq(T) /\ Len(c5) = n + 1 /\ (\A x \in 1 .. n : c5[x] = c4[x]) /\ c5[n + 1] = NOP
  <2>1. c5 = c4 \o Nops(1)
    OBVIOUS
  <2>. HIDE DEF c5
  <2>2. /\ c5 \in Seq(T) /\ Len(c5) = n + Len(Nops(1))
        /\ \A x \in 1 .. n : c5[x] = c4[x]
        /\ \A k \in 1 .. Len(Nops(1)) : c5[n + k] = Nops(1)[k]
    <3>1. c4 \in Seq(T) /\ Nops(1) \in Seq(T) /\ c5 = c4 \o Nops(1) /\ n = Len(c4)
      BY <1>2, <1>8, <2>1
    <3>2. QED
      BY ONLY <3>1, Concat
  <2>3. QED
    <3>1. 1 \in 1 .. Len(Nops(1))
      <4>1. Len(Nops(1)) = 1
        BY <1>2
      <4>2. QED
        BY ONLY <4>1
    <3>2. c5[n + 1] = Nops(1)[1]
      BY <2>2, <3>1
    <3>3. QED
      BY <1>2, <2>2, <3>2
<1>. HIDE DEF c5
<1>10. c6 \in Seq(T) /\ Len(c6) = n + 1 + PAD /\ (\A x \in 1 .. n + 1 : c6[x] = c5[x])
       /\ \A i \in 1 .. PAD + 1 : c6[n + i] = NOP
  <2>1. c6 = c5 \o Nops(PAD)
    OBVIOUS
  <2>. HIDE DEF c6
  <2>. DEFINE l == n + 1
  <2>2. /\ c6 \in Seq(T) /\ Len(c6) = l + Len(Nops(PAD))
        /\ \A x \in 1 .. l : c6[x] = c5[x]
        /\ \A k \in 1 .. Len(Nops(PAD)) : c6[l + k] = Nops(PAD)[k]
    <3>. HIDE DEF l
    <3>1. l = Len(c5)
      BY <1>9 DEF l
    <3>2. QED
      <4>1. c5 \in Seq(T) /\ Nops(PAD) \in Seq(T) /\ c6 = c5 \o Nops(PAD) /\ l = Len(c5)
        BY <1>2, <1>9, <2>1, <3>1
      <4>2. QED
        BY ONLY <4>1, Concat
  <2>3. ASSUME NEW i \in 1 .. PAD + 1 PROVE c6[n + i] = NOP
    <3>1. CASE i = 1
      <4>1. n + 1 \in 1 .. l
        BY <1>4
      <4>2. QED
        BY <1>9, <2>2, <3>1, <4>1
    <3>2. CASE i # 1
      <4>1. i - 1 \in 1 .. PAD /\ l + (i - 1) = n + i
        BY <1>4, <3>2
      <4>2. c6[l + (i - 1)] = NOP
        <5>. HIDE DEF l
        <5>1. QED
          BY <1>2, <2>2, <4>1
      <4>3. QED
        BY <4>1, <4>2
    <3>3. QED
      BY <3>1, <3>2
  <2>4. QED
    BY <1>2, <2>2, <2>3
<1>. HIDE DEF c6
<1>11. /\ m \in Seq(T) /\ Len(m) = n + 1 + PAD + Len(rd) /\ \A x \in 1 .. n + 1 + PAD : m[x] = c6[x]
       /\ \A k \in 1 .. Len(rd) : m[n + 1 + PAD + k] = rd[k]
  <2>1. m = c6 \o rd
    OBVIOUS
  <2>. HIDE DEF m
  <2>. DEFINE l == n + 1 + PAD
  <2>. HIDE DEF l
  <2>1a. l = Len(c6)
    BY <1>10 DEF l
  <2>2. /\ m \in Seq(T) /\ Len(m) = l + Len(rd)
        /\ \A x \in 1 .. l : m[x] = c6[x]
        /\ \A k \in 1 .. Len(rd) : m[l + k] = rd[k]
    <3>1. c6 \in Seq(T) /\ rd \in Seq(T) /\ m = c6 \o rd /\ l = Len(c6)
      BY <1>2, <1>10, <2>1, <2>1a
    <3>2. QED
      BY ONLY <3>1, Concat
  <2>3. QED
    BY <2>2, Zenon DEF l
<1>. HIDE DEF m
<1>12. \A x \in 1 .. n - 1 : m[x] = c3[x]
  <2>1. SUFFICES ASSUME NEW x \in 1 .. n - 1 PROVE m[x] = c3[x]
    OBVIOUS
  <2>2. n \in Nat /\ x \in 1 .. n /\ x \in 1 .. n + 1 /\ x \in 1 .. n + 1 + PAD
    BY <1>4
  <2>3. m[x] = c6[x]
    BY <1>11, <2>2
  <2>4. c6[x] = c5[x]
    BY <1>10, <2>2
  <2>5. c5[x] = c4[x]
    BY <1>9, <2>2
  <2>6. c4[x] = c3[x]
    BY <1>8, <2>1
  <2>7. QED
    BY <2>3, <2>4, <2>5, <2>6
<1>13. m[n] = st[1] /\ \A i \in 1 .. PAD + 1 : m[n + i] = NOP
  <2>1. n \in 1 .. n /\ n \in 1 .. n + 1 /\ n \in 1 .. n + 1 + PAD
        /\ \A i \in 1 .. PAD + 1 : n + i \in 1 .. n + 1 + PAD
    BY <1>4
  <2>2. m[n] = c6[n] /\ c6[n] = c5[n] /\ c5[n] = c4[n]
    BY <1>9, <1>10, <1>11, <2>1
  <2>3. \A i \in 1 .. PAD + 1 : m[n + i] = c6[n + i]
    BY <1>11, <2>1
  <2>4. QED
    BY <1>8, <1>10, <2>2, <2>3
<1>14. \A x \in 1 .. b + 4 : m[x] = c2[x]
  <2>1. \A x \in 1 .. b + 4 : x \in 1 .. n - 1
    BY <1>4
  <2>2. QED
    BY <1>7, <1>12, <2>1
<1>15. /\ m[b + 1] = w[1] /\ m[b + 2] = w[2] /\ m[b + 3] = a[1] /\ m[b + 4] = a[2]
       /\ op.starts_run => m[1] = h[1] /\ m[2] = h[2]
  <2>1. /\ b + 1 \in 1 .. b + 4 /\ b + 2 \in 1 .. b + 4 /\ b + 3 \in 1 .. b + 4 /\ b + 4 \in 1 .. b + 4
        /\ b + 1 \in 1 .. b + 2 /\ b + 2 \in 1 .. b + 2
    BY <1>4
  <2>2. ASSUME op.starts_run PROVE m[1] = h[1] /\ m[2] = h[2]
    <3>1. 1 \in 1 .. b /\ 2 \in 1 .. b /\ 1 \in 1 .. b + 2 /\ 2 \in 1 .. b + 2 /\ 1 \in 1 .. b + 4 /\ 2 \in 1 .. b + 4
      BY <1>4, <2>2
    <3>2. QED
      BY <1>5, <1>6, <1>14, <3>1
  <2>3. QED
    BY <1>5, <1>6, <1>14, <2>1, <2>2
<1>16. op.starts_run => m[7] = sd[1] /\ m[8] = sd[2] /\ m[9] = sd[3] /\ m[10] = sd[4]
  <2>1. SUFFICES ASSUME op.starts_run PROVE m[7] = sd[1] /\ m[8] = sd[2] /\ m[9] = sd[3] /\ m[10] = sd[4]
    OBVIOUS
  <2>2. 7 \in 1 .. n - 1 /\ 8 \in 1 .. n - 1 /\ 9 \in 1 .. n - 1 /\ 10 \in 1 .. n - 1
    BY <1>4, <2>1
  <2>3. QED
    BY <1>7, <1>12, <2>1, <2>2
<1>17. Len(m) = NumCycles(op)
  BY <1>2, <1>11 DEF NumCycles, n
<1>18. op.ends_run => /\ m[n + 1 + PAD + 1] = rd[1] /\ m[n + 1 + PAD + 2] = rd[2]
                      /\ m[n + 1 + PAD + 3] = rd[3] /\ m[n + 1 + PAD + 4] = rd[4]
  BY <1>2, <1>11
<1>19. Places(op, m)
  BY <1>2, <1>3, <1>11, <1>13, <1>15, <1>16, <1>17, <1>18, Zenon DEF Places, b, n, T
<1>20. QED
  BY <1>1, <1>19

-----------------------------------------------------------------------------
(* One edge of the chip, for the commands the firmware drives. *)

\* The chip as frames leave it: its own invariant, and no error latched.
ChipInv == IInv /\ PsumInv /\ ~error_latched

\* The edges a busy chip still needs: none when it is idle.
LEMMA RemainingFacts ==
  ASSUME IInv
  PROVE  Remaining \in Nat /\ (Remaining = 0 <=> Idle)
<1>. USE TileAssumption
<1>1. step \in Nat /\ step <= COMPUTE_LAST_STEP /\ (LoadPhase => step < COLS) /\ COMPUTE_LAST_STEP \in Nat
  BY DEF IInv, TypeOK, PipelineInv, LoadInv, COMPUTE_LAST_STEP
<1>2. CASE Idle
  BY <1>2 DEF Remaining
<1>3. CASE ~Idle /\ LoadPhase
  BY <1>1, <1>3 DEF Remaining
<1>4. CASE ~Idle /\ ~LoadPhase
  BY <1>1, <1>4 DEF Remaining
<1>5. QED
  BY <1>2, <1>3, <1>4

\* Any edge keeps the chip's invariants and counts down.
LEMMA NextChip ==
  ASSUME IInv, PsumInv, Next
  PROVE  /\ IInv' /\ PsumInv' /\ Countdown /\ Remaining' \in Nat
         /\ Idle' => Acc' = acc_q'
<1>1. IInv'
  BY IInvInductive
<1>2. PsumInv'
  BY NextPsumInv
<1>3. acc_q' \in [Row -> Psum]
  BY <1>1 DEF IInv, TypeOK
<1>4. Idle' => Acc' = acc_q'
  BY <1>3 DEF Acc
<1>5. Remaining' \in Nat
  <2>1. Remaining \in Nat /\ (Remaining = 0 <=> Idle) /\ TileLatency \in Nat
    BY RemainingFacts, TileAssumption DEF TileLatency
  <2>2. Countdown
    BY EdgeCounts
  <2>3. QED
    BY <2>1, <2>2 DEF Countdown
<1>6. QED
  BY <1>1, <1>2, <1>4, <1>5, EdgeCounts

\* A cycle that only looks, or only passes.
LEMMA QuietEdge ==
  ASSUME ChipInv, Observe
  PROVE  /\ ChipInv' /\ UNCHANGED <<weight_mem, act_mem, error_latched>> /\ Acc' = Acc
         /\ Idle => Idle' /\ acc_q' = Acc
         /\ ~Idle => Remaining' < Remaining
         /\ Remaining' \in Nat
<1>1. Next
  BY DEF Next
<1>2. IInv /\ PsumInv
  BY DEF ChipInv
<1>3. IInv' /\ PsumInv' /\ Countdown /\ (Idle' => Acc' = acc_q') /\ Remaining' \in Nat
  BY <1>1, <1>2, NextChip
<1>4. UNCHANGED <<weight_mem, act_mem, error_latched>> /\ TileCtrl(FALSE) /\ acc_q' = Captured
  BY DEF Observe, Capture
<1>5. ASSUME Idle PROVE Idle' /\ acc_q' = Acc
  <2>1. Captured = acc_q /\ Acc = acc_q /\ UNCHANGED ctrl
    BY <1>2, <1>4, <1>5, IdleStill
  <2>2. QED
    BY <1>4, <1>5, <2>1 DEF ctrl, Idle
<1>6. ASSUME ~Idle PROVE Acc' = Acc /\ Remaining' < Remaining
  <2>1. ~Clear /\ ~Reset
    <3>1. step' \in Int /\ step \in Int
      BY <1>2, <1>3, TileAssumption DEF IInv, TypeOK, COMPUTE_LAST_STEP
    <3>2. ASSUME done_latched' = FALSE, state' = "IDLE" PROVE FALSE
      BY <1>2, <1>4, <1>6, <3>2, Zenon DEF TileCtrl, Idle, LoadPhase, RunPhase, ctrl
    <3>3. QED
      BY <3>2 DEF Clear, Reset, ClearCtrl
  <2>2. Acc' = Acc
    BY <1>1, <1>2, <1>6, <2>1, BusyKeepsAcc
  <2>3. Remaining \in Nat /\ Remaining # 0
    BY <1>2, <1>6, RemainingFacts
  <2>4. QED
    BY <1>3, <1>6, <2>2, <2>3 DEF Countdown
<1>7. ChipInv'
  BY <1>3, <1>4 DEF ChipInv
<1>8. QED
  BY <1>3, <1>4, <1>5, <1>6, <1>7

\* CLEAR.
LEMMA ClearEdge ==
  ASSUME ChipInv, Clear
  PROVE  ChipInv' /\ Idle' /\ UNCHANGED weight_mem /\ Acc' = Zero(Row)
<1>1. Next
  BY DEF Next
<1>2. IInv' /\ PsumInv' /\ (Idle' => Acc' = acc_q')
  BY <1>1, NextChip DEF ChipInv
<1>3. Idle' /\ ~error_latched' /\ acc_q' = Zero(Row) /\ UNCHANGED weight_mem
  BY DEF Clear, ClearCtrl, Idle
<1>4. QED
  BY <1>2, <1>3 DEF ChipInv

\* LDW, LDA and SEED to an idle chip.
LEMMA LdwEdge ==
  ASSUME ChipInv, Idle, NEW row \in Row, row \in RowSel, NEW bits \in [Col -> Bit], Ldw(row, bits)
  PROVE  /\ ChipInv' /\ Idle' /\ Acc' = Acc
         /\ weight_mem' = [weight_mem EXCEPT ![row] = bits] /\ UNCHANGED act_mem
<1>1. Next
  BY DEF Next
<1>2. IInv' /\ PsumInv' /\ (Idle' => Acc' = acc_q')
  BY <1>1, NextChip DEF ChipInv
<1>3. row < ROWS /\ ~(row >= ROWS)
  BY TileAssumption DEF Row
<1>4. Captured = acc_q /\ Acc = acc_q /\ UNCHANGED ctrl
  BY IdleStill DEF ChipInv, Ldw
<1>5. /\ weight_mem' = [weight_mem EXCEPT ![row] = bits] /\ UNCHANGED act_mem
      /\ ~error_latched' /\ acc_q' = Captured
  BY <1>3 DEF Ldw, Capture, ChipInv, LatchError
<1>6. QED
  BY <1>2, <1>4, <1>5 DEF ChipInv, Idle, ctrl

\* LDA to an idle chip stores the activation.
LEMMA LdaEdge ==
  ASSUME ChipInv, Idle, NEW col \in Col, col \in ColSel, NEW a \in Act, Lda(col, a)
  PROVE  /\ ChipInv' /\ Idle' /\ Acc' = Acc
         /\ act_mem' = [act_mem EXCEPT ![col] = a] /\ UNCHANGED weight_mem
<1>1. Next
  BY DEF Next
<1>2. IInv' /\ PsumInv' /\ (Idle' => Acc' = acc_q')
  BY <1>1, NextChip DEF ChipInv
<1>3. col < COLS /\ ~(col >= COLS)
  BY TileAssumption DEF Col
<1>4. Captured = acc_q /\ Acc = acc_q /\ UNCHANGED ctrl
  BY IdleStill DEF ChipInv, Lda
<1>5. /\ act_mem' = [act_mem EXCEPT ![col] = a] /\ UNCHANGED weight_mem
      /\ ~error_latched' /\ acc_q' = Captured
  BY <1>3 DEF Lda, Capture, ChipInv, LatchError
<1>6. QED
  BY <1>2, <1>4, <1>5 DEF ChipInv, Idle, ctrl

\* SEED of a zero to an idle chip whose accumulators are zero changes none.
LEMMA SeedEdge ==
  ASSUME ChipInv, Idle, NEW row \in Row, row \in RowSel, NEW b \in 0 .. PsumBytes - 1, Acc = Zero(Row), Seed(row, b, 0)
  PROVE  ChipInv' /\ Idle' /\ Acc' = Acc /\ UNCHANGED <<weight_mem, act_mem>>
<1>0. 0 \in Byte /\ BYTE \in Nat \ {0}
  BY TileAssumption DEF Byte
<1>1. Next
  BY <1>0 DEF Next
<1>2. IInv' /\ PsumInv' /\ (Idle' => Acc' = acc_q')
  BY <1>1, NextChip DEF ChipInv
<1>3. row < ROWS /\ ~(row >= ROWS)
  BY TileAssumption DEF Row
<1>4. Captured = acc_q /\ Acc = acc_q /\ UNCHANGED ctrl
  BY IdleStill DEF ChipInv, Seed
<1>5. acc_q' = [Captured EXCEPT ![row] = SetByte(@, b, 0)] /\ ~error_latched' /\ UNCHANGED <<weight_mem, act_mem>>
  BY <1>3 DEF Seed, ChipInv, LatchError
<1>6. SetByte(0, b, 0) = 0
  <2>1. 0 \div BYTE = 0 /\ 0 % BYTE = 0
    BY <1>0
  <2>2. QED
    BY <1>0, <2>1 DEF SetByte
<1>7. acc_q' = acc_q
  <2>1. acc_q[row] = 0 /\ acc_q = [r \in Row |-> 0]
    BY <1>4 DEF Zero
  <2>2. QED
    BY <1>4, <1>5, <1>6, <2>1
<1>8. QED
  BY <1>2, <1>4, <1>5, <1>7 DEF ChipInv, Idle, ctrl

\* START to an idle chip: from here on the accumulators stand for the run's results.
LEMMA StartEdge ==
  ASSUME ChipInv, Idle, Start
  PROVE  /\ ChipInv' /\ UNCHANGED <<weight_mem, act_mem>> /\ Remaining' \in Nat /\ Remaining' <= TileLatency
         /\ \A r \in Row : Acc'[r] = RunResult(weight_mem[r], act_mem, Acc[r])
<1>1. Next
  BY DEF Next
<1>2. IInv' /\ PsumInv' /\ Countdown /\ Remaining' \in Nat
  BY <1>1, NextChip DEF ChipInv
<1>3. Captured = acc_q /\ Acc = acc_q
  BY IdleStill DEF ChipInv
<1>4. /\ UNCHANGED <<weight_mem, act_mem, error_latched>> /\ acc_q' = Captured /\ acc_done' = {}
      /\ TileCtrl(TRUE)
  BY DEF Start
<1>5. ~Idle'
  BY <1>4, Zenon DEF TileCtrl, Idle, LoadPhase, RunPhase, ctrl
<1>6. ASSUME NEW r \in Row PROVE Acc'[r] = RunResult(weight_mem[r], act_mem, Acc[r])
  BY <1>3, <1>4, <1>5 DEF Acc
<1>7. Remaining' <= TileLatency
  BY <1>2, TileAssumption DEF Countdown, TileLatency
<1>8. QED
  BY <1>2, <1>4, <1>6, <1>7 DEF ChipInv

-----------------------------------------------------------------------------
(* The sums of a plan's runs. *)

\* Sums of g that start again where z says so.
Running(n, z, g) ==
  LET sum[k \in 0 .. n] == IF k = 0 THEN 0 ELSE (IF z[k] THEN 0 ELSE sum[k - 1]) + g[k]
  IN  sum

\* They are integers, and satisfy their recursion.
LEMMA RunningSums ==
  ASSUME NEW n \in Nat, NEW z \in [1 .. n -> BOOLEAN], NEW g \in [1 .. n -> Int]
  PROVE  /\ Running(n, z, g)[0] = 0
         /\ \A k \in 1 .. n : Running(n, z, g)[k] = (IF z[k] THEN 0 ELSE Running(n, z, g)[k - 1]) + g[k]
         /\ \A k \in 0 .. n : Running(n, z, g)[k] \in Int
<1>. DEFINE S == [k \in 0 .. n |-> Int]
            F == [k \in 1 .. n |-> [m \in Int |-> (IF z[k] THEN 0 ELSE m) + g[k]]]
            Solves(f) == f = [k \in 0 .. n |-> IF k = 0 THEN 0 ELSE (IF z[k] THEN 0 ELSE f[k - 1]) + g[k]]
            d == CHOOSE f : Solves(f)
<1>1. 0 \in 0 .. n /\ \A k \in 1 .. n : k \in 0 .. n /\ k - 1 \in 0 .. n /\ k # 0
  OBVIOUS
<1>3. /\ \A k \in 0 .. n : S[k] = Int
      /\ \A k \in 1 .. n : \A m \in Int : F[k][m] = (IF z[k] THEN 0 ELSE m) + g[k]
  OBVIOUS
<1>. HIDE DEF S, F
<1>4. \A k \in 1 .. n : \A m \in Int : (IF z[k] THEN 0 ELSE m) + g[k] \in Int
  OBVIOUS
<1>5. \E f : Solves(f)
  <2>1. 0 \in S[0]
    BY <1>1, <1>3
  <2>2. \A k \in 1 .. n : \A m \in S[k - 1] : F[k][m] \in S[k]
    <3>1. SUFFICES ASSUME NEW k \in 1 .. n, NEW m \in S[k - 1] PROVE F[k][m] \in S[k]
      OBVIOUS
    <3>2. S[k - 1] = Int /\ S[k] = Int
      BY <1>1, <1>3
    <3>3. m \in Int
      BY <3>2
    <3>4. F[k][m] = (IF z[k] THEN 0 ELSE m) + g[k] /\ (IF z[k] THEN 0 ELSE m) + g[k] \in Int
      BY <1>3, <1>4, <3>3
    <3>5. QED
      BY <3>2, <3>4
  <2>3. PICK f : Iterates(f, n, 0, F, S)
    BY <1>1, <2>1, <2>2, IterationExists
  <2>4. /\ f = [k \in 0 .. n |-> f[k]] /\ f[0] = 0
        /\ \A k \in 1 .. n : f[k] = F[k][f[k - 1]]
        /\ \A k \in 0 .. n : f[k] \in S[k]
    BY <2>3, Zenon DEF Iterates
  <2>5. \A k \in 0 .. n : f[k] = IF k = 0 THEN 0 ELSE (IF z[k] THEN 0 ELSE f[k - 1]) + g[k]
    <3>1. SUFFICES ASSUME NEW k \in 0 .. n, k # 0 PROVE f[k] = (IF z[k] THEN 0 ELSE f[k - 1]) + g[k]
      BY <2>4
    <3>2. k \in 1 .. n /\ k - 1 \in 0 .. n
      BY <3>1
    <3>3. f[k - 1] \in Int /\ f[k] = F[k][f[k - 1]]
      BY <1>3, <2>4, <3>2
    <3>4. QED
      BY <1>3, <3>2, <3>3
  <2>6. [k \in 0 .. n |-> f[k]] = [k \in 0 .. n |-> IF k = 0 THEN 0 ELSE (IF z[k] THEN 0 ELSE f[k - 1]) + g[k]]
    BY <2>5
  <2>7. Solves(f)
    BY <2>4, <2>6
  <2>8. QED
    BY <2>7
<1>6. Running(n, z, g) = d
  BY Zenon DEF Running
<1>7. Solves(d)
  BY <1>5
<1>. HIDE DEF d
<1>8. d[0] = 0 /\ \A k \in 1 .. n : d[k] = (IF z[k] THEN 0 ELSE d[k - 1]) + g[k]
  BY <1>1, <1>7
<1>9. \A k \in 1 .. n : d[k - 1] \in S[k - 1] => d[k] \in S[k]
  <2>1. SUFFICES ASSUME NEW k \in 1 .. n, d[k - 1] \in S[k - 1] PROVE d[k] \in S[k]
    OBVIOUS
  <2>2. S[k - 1] = Int /\ S[k] = Int
    BY <1>1, <1>3
  <2>3. QED
    BY <1>4, <1>8, <2>1, <2>2
<1>10. d[0] \in S[0]
  BY <1>1, <1>3, <1>8
<1>11. \A k \in 0 .. n : d[k] \in S[k]
  BY <1>9, <1>10, IterationStays
<1>12. QED
  BY <1>3, <1>6, <1>8, <1>11

\* What one tile adds to row r, and the sum of row r's run so far at each tile of a plan.
TileDot(op, r) == RowDot(op.weights[r], op.acts)

\* The sums of row r's runs over the plan P, without a width.
RunSums(P, r) ==
  Running(Len(P), [k \in 1 .. Len(P) |-> P[k].starts_run], [k \in 1 .. Len(P) |-> TileDot(P[k], r)])

\* Two products make a row.
LEMMA DotTwo ==
  ASSUME TwoByTwo, NEW w \in [Col -> Bit], NEW a \in [Col -> Act]
  PROVE  RowDot(w, a) = Contrib(w[0], a[0]) + Contrib(w[1], a[1]) /\ RowDot(w, a) \in Int
<1>. DEFINE d == DotUpto(w, a)
<1>1. d[0] = 0 /\ (\A n \in 0 .. COLS : d[n] \in Int) /\ \A n \in 1 .. COLS : d[n] = d[n - 1] + Contrib(w[n - 1], a[n - 1])
  BY DotFacts
<1>2. COLS = 2 /\ RowDot(w, a) = d[2]
  BY DEF RowDot, TwoByTwo
<1>. HIDE DEF d
<1>3. 1 \in 1 .. COLS /\ 2 \in 1 .. COLS /\ 2 \in 0 .. COLS
  BY <1>2
<1>4. d[1] = d[1 - 1] + Contrib(w[1 - 1], a[1 - 1]) /\ d[2] = d[2 - 1] + Contrib(w[2 - 1], a[2 - 1])
  BY <1>1, <1>3
<1>5. Contrib(w[0], a[0]) \in Int
  <2>1. a[0] \in Int
    BY TwoFacts
  <2>2. QED
    BY <2>1 DEF Contrib
<1>6. d[1] = Contrib(w[0], a[0]) /\ d[2] = d[1] + Contrib(w[1], a[1])
  BY <1>1, <1>4, <1>5
<1>7. QED
  BY <1>1, <1>2, <1>3, <1>6

\* The dot product of a 2 x 2 tile operation, written out.
LEMMA OpDot ==
  ASSUME TwoByTwo, NEW op \in OpSet, NEW r \in Row
  PROVE  /\ TileDot(op, r) \in Int
         /\ TileDot(op, r) = Contrib(op.weights[r][0], op.acts[0]) + Contrib(op.weights[r][1], op.acts[1])
<1>1. op.weights \in [Row -> [Col -> Bit]] /\ op.acts \in [Col -> Act]
  BY DEF OpSet
<1>2. op.weights[r] \in [Col -> Bit]
  BY <1>1
<1>3. QED
  BY <1>1, <1>2, DotTwo DEF TileDot

\* One more tile adds its dot product, from zero where a run starts.
LEMMA RunSumSteps ==
  ASSUME TwoByTwo, NEW P \in Seq(OpSet), NEW r \in Row
  PROVE  /\ \A k \in 0 .. Len(P) : RunSums(P, r)[k] \in Int
         /\ \A k \in 1 .. Len(P) :
              RunSums(P, r)[k] = (IF P[k].starts_run THEN 0 ELSE RunSums(P, r)[k - 1]) + TileDot(P[k], r)
<1>. DEFINE n == Len(P)
            z == [k \in 1 .. n |-> P[k].starts_run]
            g == [k \in 1 .. n |-> TileDot(P[k], r)]
<1>1. n \in Nat /\ \A k \in 1 .. n : P[k] \in OpSet
  OBVIOUS
<1>2. \A k \in 1 .. n : P[k].starts_run \in BOOLEAN /\ TileDot(P[k], r) \in Int
  BY <1>1, OpDot DEF OpSet
<1>. HIDE DEF n
<1>3. z \in [1 .. n -> BOOLEAN] /\ g \in [1 .. n -> Int]
  BY <1>2
<1>4. /\ \A k \in 1 .. n : z[k] = P[k].starts_run /\ g[k] = TileDot(P[k], r)
      /\ RunSums(P, r) = Running(n, z, g)
  BY Zenon DEF RunSums, n
<1>. HIDE DEF z, g
<1>5. /\ \A k \in 1 .. n : Running(n, z, g)[k] = (IF z[k] THEN 0 ELSE Running(n, z, g)[k - 1]) + g[k]
      /\ \A k \in 0 .. n : Running(n, z, g)[k] \in Int
  BY <1>1, <1>3, RunningSums
<1>6. QED
  BY <1>4, <1>5 DEF n

\* The same sum, wrapped before the tile or after.
LEMMA RunWraps ==
  ASSUME TwoByTwo, NEW op \in OpSet, NEW r \in Row, NEW v \in Int
  PROVE  RunResult(op.weights[r], op.acts, ToPsum(v)) = ToPsum(v + TileDot(op, r))
<1>1. TileDot(op, r) \in Int /\ BYTE * BYTE \in Nat \ {0}
  BY OpDot DEF TwoByTwo
<1>2. ((v % (BYTE * BYTE)) + TileDot(op, r)) % (BYTE * BYTE) = (v + TileDot(op, r)) % (BYTE * BYTE)
  BY <1>1, WrapEarly
<1>3. QED
  BY <1>2 DEF RunResult, TileDot, ToPsum

-----------------------------------------------------------------------------
(* Conversions. *)

\* The chip unpacks the weight bits the host packed.
LEMMA Unpacked ==
  ASSUME TwoByTwo, NEW b \in [Col -> Bit]
  PROVE  UnpackBits(PackBits(b)) = b
<1>1. b \in [0 .. 1 -> {0, 1}] /\ COLS = 2 /\ b = [c \in 0 .. 1 |-> b[c]]
  BY TwoFacts DEF Bit, TwoByTwo
<1>2. PackBits(b) = b[0] + 2 * b[1] /\ b[0] \in {0, 1} /\ b[1] \in {0, 1}
  BY <1>1, PackTwo
<1>3. (PackBits(b) \div 2^0) % 2 = b[0] /\ (PackBits(b) \div 2^1) % 2 = b[1]
  BY <1>2, Powers
<1>4. \A c \in 0 .. 1 : (PackBits(b) \div 2^c) % 2 = b[c]
  <2>1. \A c \in 0 .. 1 : c = 0 \/ c = 1
    OBVIOUS
  <2>2. QED
    BY <1>3, <2>1, Zenon
<1>5. UnpackBits(PackBits(b)) = [c \in 0 .. 1 |-> (PackBits(b) \div 2^c) % 2]
  BY <1>1 DEF UnpackBits
<1>. HIDE DEF PackBits
<1>6. QED
  BY <1>1, <1>4, <1>5, Zenon

\* An activation survives its byte.
LEMMA ActKept ==
  ASSUME TwoByTwo, NEW a \in Act
  PROVE  ToAct(ToByte(a)) = a
<1>1. BYTE = 256 /\ a \in -128 .. 127
  BY TwoFacts DEF TwoByTwo
<1>2. ToByte(a) = IF a < 0 THEN a + 256 ELSE a
  <2>1. CASE a < 0
    BY <1>1, <2>1 DEF ToByte
  <2>2. CASE a >= 0
    BY <1>1, <2>2 DEF ToByte
  <2>3. QED
    BY <1>1, <2>1, <2>2
<1>3. QED
  BY <1>1, <1>2 DEF ToAct

\* A sum that fits an int16.
Fits(v) == v \in Int /\ -32768 <= v /\ v <= 32767

\* It comes back from its two bytes.
LEMMA PsumKept ==
  ASSUME TwoByTwo, NEW v, Fits(v)
  PROVE  SignExtend(GetByte(ToPsum(v), 0) + GetByte(ToPsum(v), 1) * BYTE) = v
<1>0. v \in Int /\ -32768 <= v /\ v <= 32767
  BY DEF Fits
<1>1. BYTE = 256
  BY DEF TwoByTwo
<1>2. PICK m \in Nat \ {0} : m = 65536 /\ m = BYTE * BYTE
  BY <1>1
<1>3. PICK p \in Int : p = v % m
  BY <1>0, <1>2
<1>4. p = IF v < 0 THEN v + m ELSE v
  <2>0. m = 65536
    BY <1>2
  <2>1. CASE v < 0
    <3>1. v + m \in 0 .. m - 1 /\ v = m * (-1) + (v + m) /\ -1 \in Int
      <4>1. v + m >= 0 /\ v + m <= m - 1
        BY ONLY <1>0, <2>0, <2>1
      <4>2. m \in Int
        OBVIOUS
      <4>3. QED
        BY ONLY <1>0, <4>1, <4>2
    <3>2. p = v + m
      BY <1>0, <1>3, <3>1, RemainderUnique
    <3>3. QED
      BY <2>1, <3>2
  <2>2. CASE v >= 0
    <3>1. v \in 0 .. m - 1 /\ v = m * 0 + v /\ 0 \in Int
      <4>1. v >= 0 /\ v <= m - 1
        BY ONLY <1>0, <2>0, <2>2
      <4>2. m \in Int
        OBVIOUS
      <4>3. QED
        BY ONLY <1>0, <4>1, <4>2
    <3>2. p = v
      BY <1>0, <1>3, <3>1, RemainderUnique
    <3>3. QED
      BY <1>0, <2>2, <3>2
  <2>3. QED
    BY <1>0, <2>1, <2>2
<1>5. ToPsum(v) = p
  BY <1>2, <1>3 DEF ToPsum
<1>6. GetByte(p, 0) + GetByte(p, 1) * BYTE = p
  <2>1. GetByte(p, 0) = p % 256 /\ GetByte(p, 1) = p \div 256
    BY <1>1 DEF GetByte
  <2>2. (p % 256) + (p \div 256) * 256 = p
    BY <1>3
  <2>3. QED
    BY <1>1, <2>1, <2>2
<1>7. SignExtend(p) = IF p >= 32768 THEN p - 65536 ELSE p
  BY <1>1, <1>2 DEF SignExtend
<1>8. QED
  BY <1>0, <1>2, <1>4, <1>5, <1>6, <1>7

-----------------------------------------------------------------------------
(* How many runs of a plan end before tile i. *)

\* The runs of P that ended before tile i.
Tails(P, i) == Cardinality({j \in 1 .. i - 1 : P[j].ends_run})

\* Each tile that ends a run adds one.
LEMMA TailSteps ==
  ASSUME NEW P \in Seq(OpSet)
  PROVE  /\ Tails(P, 0) = 0 /\ Tails(P, 1) = 0
         /\ \A i \in Nat : Tails(P, i) \in Nat
         /\ \A i \in Nat \ {0} : Tails(P, i + 1) = Tails(P, i) + (IF P[i].ends_run THEN 1 ELSE 0)
<1>. DEFINE T(i) == {j \in 1 .. i - 1 : P[j].ends_run}
<1>1. T(0) = {} /\ T(1) = {}
  OBVIOUS
<1>2. \A i \in Nat : IsFiniteSet(T(i))
  <2>1. SUFFICES ASSUME NEW i \in Nat PROVE IsFiniteSet(T(i))
    OBVIOUS
  <2>2. IsFiniteSet(1 .. i - 1)
    BY FS_Interval
  <2>3. T(i) \subseteq 1 .. i - 1
    OBVIOUS
  <2>4. QED
    BY <2>2, <2>3, FS_Subset
<1>3. \A i \in Nat \ {0} : T(i + 1) = (IF P[i].ends_run THEN T(i) \cup {i} ELSE T(i)) /\ i \notin T(i)
  OBVIOUS
<1>. HIDE DEF T
<1>4. \A i \in Nat : Cardinality(T(i)) \in Nat
  BY <1>2, FS_CardinalityType
<1>5. Cardinality(T(0)) = 0 /\ Cardinality(T(1)) = 0
  BY <1>1, FS_EmptySet
<1>6. \A i \in Nat \ {0} : Cardinality(T(i + 1)) = Cardinality(T(i)) + (IF P[i].ends_run THEN 1 ELSE 0)
  <2>1. SUFFICES ASSUME NEW i \in Nat \ {0}
                 PROVE  Cardinality(T(i + 1)) = Cardinality(T(i)) + (IF P[i].ends_run THEN 1 ELSE 0)
    OBVIOUS
  <2>2. CASE P[i].ends_run
    BY <1>2, <1>3, <2>2, FS_AddElement
  <2>3. CASE ~P[i].ends_run
    <3>1. T(i + 1) = T(i) /\ Cardinality(T(i)) \in Nat
      BY <1>3, <1>4, <2>3
    <3>2. QED
      BY <2>3, <3>1
  <2>4. QED
    BY <2>2, <2>3
<1>7. QED
  BY <1>4, <1>5, <1>6 DEF Tails, T

\* They never decrease.
LEMMA TailsGrow ==
  ASSUME NEW P \in Seq(OpSet), NEW t \in Nat, NEW i \in 1 .. t, i < t, P[i].ends_run
  PROVE  Tails(P, i) + 1 <= Tails(P, t)
<1>. DEFINE A == {j \in 1 .. i - 1 : P[j].ends_run}
            B == {j \in 1 .. t - 1 : P[j].ends_run}
<1>1. IsFiniteSet(A) /\ IsFiniteSet(B)
  <2>1. IsFiniteSet(1 .. i - 1) /\ IsFiniteSet(1 .. t - 1)
    <3>1. i - 1 \in Int /\ t - 1 \in Int /\ 1 \in Int
      OBVIOUS
    <3>2. QED
      BY ONLY <3>1, FS_Interval
  <2>2. A \subseteq 1 .. i - 1 /\ B \subseteq 1 .. t - 1
    OBVIOUS
  <2>3. QED
    BY <2>1, <2>2, FS_Subset
<1>2. A \cup {i} \subseteq B /\ i \notin A
  OBVIOUS
<1>. HIDE DEF A, B
<1>3. Cardinality(A \cup {i}) = Cardinality(A) + 1 /\ IsFiniteSet(A \cup {i})
  BY <1>1, <1>2, FS_AddElement
<1>4. Cardinality(A \cup {i}) <= Cardinality(B)
  BY <1>1, <1>2, FS_Subset
<1>5. QED
  BY <1>3, <1>4 DEF Tails, A, B

-----------------------------------------------------------------------------
(* One cycle of a tile. *)

\* The chip's size, and the padding: long enough for a run.
Setup == TwoByTwo /\ PAD \in Nat /\ PAD + 1 >= TileLatency

\* With 2 x 2 the padding is at least 6 and the latency 7.
LEMMA SetupFacts ==
  ASSUME Setup
  PROVE  TwoByTwo /\ PAD \in Nat /\ PAD >= 6 /\ TileLatency = 7
BY TwoFacts DEF Setup

\* What the chip is sent on each cycle of a tile.
LEMMA CycleKinds ==
  ASSUME TwoByTwo, PAD \in Nat, NEW op \in OpSet, NEW p \in Nat, p < NumCycles(op),
         NEW c, c = BuildTilePairs(op)[p + 1]
  PROVE  LET b == ClearCycles(op)
             s == StartPlace(op)
         IN  \/ op.starts_run /\ p = 0 /\ c = Cycle("CLEAR", 0, 0)
             \/ op.starts_run /\ p = 1 /\ c = NOP
             \/ \E r \in Row : p = b + r /\ c = Cycle("LDW", r, PackBits(op.weights[r]))
             \/ \E l \in Col : p = b + 2 + l /\ c = Cycle("LDA", l, ToByte(op.acts[l]))
             \/ op.starts_run /\ 6 <= p /\ p <= 9 /\ \E a \in 0 .. 3 : c = Cycle("SEED", a, 0)
             \/ p = s - 1 /\ c = Cycle("START", 0, 0)
             \/ s <= p /\ p <= s + PAD /\ c = NOP
             \/ op.ends_run /\ \E k \in 1 .. 4, a \in 0 .. 3 :
                  /\ p = s + PAD + k /\ c = Cycle("RDP", a, 0)
                  /\ ArgRow(a) = (k - 1) \div 2 /\ ArgByte(a) = (k - 1) % 2
<1>. DEFINE m == BuildTilePairs(op)
            b == ClearCycles(op)
            s == StartPlace(op)
<1>1. Places(op, m)
  BY TilePlaces
<1>2. /\ op.starts_run \in BOOLEAN /\ op.ends_run \in BOOLEAN
      /\ op.starts_run => b = 2 /\ s = 11
      /\ ~op.starts_run => b = 0 /\ s = 5
      /\ NumCycles(op) = s + 1 + PAD + (IF op.ends_run THEN 4 ELSE 0)
  BY DEF ClearCycles, StartPlace, NumCycles, OpSet
<1>3. 0 \in Row /\ 1 \in Row /\ 0 \in Col /\ 1 \in Col
  BY TwoFacts
<1>4. /\ op.starts_run => m[1] = Cycle("CLEAR", 0, 0) /\ m[2] = NOP
      /\ m[b + 1] = Cycle("LDW", 0, PackBits(op.weights[0]))
      /\ m[b + 2] = Cycle("LDW", 1, PackBits(op.weights[1]))
      /\ m[b + 3] = Cycle("LDA", 0, ToByte(op.acts[0]))
      /\ m[b + 4] = Cycle("LDA", 1, ToByte(op.acts[1]))
      /\ op.starts_run => /\ m[7] = Cycle("SEED", 0, 0) /\ m[8] = Cycle("SEED", 2, 0)
                          /\ m[9] = Cycle("SEED", 1, 0) /\ m[10] = Cycle("SEED", 3, 0)
      /\ m[s] = Cycle("START", 0, 0)
      /\ \A i \in 1 .. PAD + 1 : m[s + i] = NOP
      /\ op.ends_run => /\ m[s + 1 + PAD + 1] = Cycle("RDP", 0, 0) /\ m[s + 1 + PAD + 2] = Cycle("RDP", 2, 0)
                        /\ m[s + 1 + PAD + 3] = Cycle("RDP", 1, 0) /\ m[s + 1 + PAD + 4] = Cycle("RDP", 3, 0)
  BY <1>1, Zenon DEF Places
<1>. HIDE DEF m, b, s
<1>5. c = m[p + 1]
  BY DEF m
<1>6. CASE p < b
  <2>1. op.starts_run /\ (p = 0 \/ p = 1)
    BY <1>2, <1>6
  <2>2. CASE p = 0
    <3>1. c = m[1]
      BY <1>5, <2>2
    <3>2. QED
      BY <1>4, <2>1, <2>2, <3>1
  <2>3. CASE p = 1
    <3>1. c = m[2]
      BY <1>5, <2>3
    <3>2. QED
      BY <1>4, <2>1, <2>3, <3>1
  <2>4. QED
    BY <2>1, <2>2, <2>3
<1>7. CASE p = b \/ p = b + 1
  <2>1. CASE p = b
    <3>1. p = b + 0 /\ c = Cycle("LDW", 0, PackBits(op.weights[0]))
      BY <1>2, <1>4, <1>5, <2>1
    <3>2. QED
      BY <1>3, <3>1, Zenon DEF b
  <2>2. CASE p = b + 1
    <3>1. c = m[b + 2]
      BY <1>2, <1>5, <2>2
    <3>2. QED
      BY <1>3, <1>4, <2>2, <3>1, Zenon DEF b
  <2>3. QED
    BY <1>7, <2>1, <2>2
<1>8. CASE p = b + 2 \/ p = b + 3
  <2>1. CASE p = b + 2
    <3>1. p = b + 2 + 0 /\ c = m[b + 3]
      BY <1>2, <1>5, <2>1
    <3>2. QED
      BY <1>3, <1>4, <3>1, Zenon DEF b
  <2>2. CASE p = b + 3
    <3>1. p = b + 2 + 1 /\ c = m[b + 4]
      BY <1>2, <1>5, <2>2
    <3>2. QED
      BY <1>3, <1>4, <3>1, Zenon DEF b
  <2>3. QED
    BY <1>8, <2>1, <2>2
<1>9. CASE b + 4 <= p /\ p < s - 1
  <2>1. op.starts_run /\ 6 <= p /\ p <= 9
    BY <1>2, <1>9
  <2>2. \E a \in 0 .. 3 : c = Cycle("SEED", a, 0)
    <3>1. p = 6 \/ p = 7 \/ p = 8 \/ p = 9
      BY <2>1
    <3>2. c = m[7] \/ c = m[8] \/ c = m[9] \/ c = m[10]
      BY <1>5, <3>1
    <3>3. 0 \in 0 .. 3 /\ 1 \in 0 .. 3 /\ 2 \in 0 .. 3 /\ 3 \in 0 .. 3
      OBVIOUS
    <3>4. QED
      BY <1>4, <2>1, <3>2, <3>3, Zenon
  <2>3. QED
    BY <2>1, <2>2
<1>10. CASE p = s - 1
  <2>1. c = m[s]
    BY <1>2, <1>5, <1>10
  <2>2. QED
    BY <1>4, <1>10, <2>1 DEF s
<1>11. CASE s <= p /\ p <= s + PAD
  <2>1. PICK i \in 1 .. PAD + 1 : p + 1 = s + i
    <3>1. s \in Int /\ p - s + 1 \in 1 .. PAD + 1 /\ p + 1 = s + (p - s + 1)
      BY <1>2, <1>11
    <3>2. QED
      BY <3>1, Zenon
  <2>2. c = NOP
    BY <1>4, <1>5, <2>1
  <2>3. QED
    BY <1>11, <2>2 DEF s
<1>12. CASE s + PAD < p
  <2>1. op.ends_run /\ (p = s + PAD + 1 \/ p = s + PAD + 2 \/ p = s + PAD + 3 \/ p = s + PAD + 4)
    BY <1>2, <1>12
  <2>2. SelSpan(ROWS) = 2 /\ PsumBytes = 2
    BY TwoFacts
  <2>. DEFINE K(k, a) == /\ p = s + PAD + k /\ c = Cycle("RDP", a, 0)
                         /\ ArgRow(a) = (k - 1) \div 2 /\ ArgByte(a) = (k - 1) % 2
  <2>3. /\ ArgRow(0) = (1 - 1) \div 2 /\ ArgByte(0) = (1 - 1) % 2
        /\ ArgRow(2) = (2 - 1) \div 2 /\ ArgByte(2) = (2 - 1) % 2
        /\ ArgRow(1) = (3 - 1) \div 2 /\ ArgByte(1) = (3 - 1) % 2
        /\ ArgRow(3) = (4 - 1) \div 2 /\ ArgByte(3) = (4 - 1) % 2
    BY <2>2 DEF ArgRow, ArgByte
  <2>4. /\ 1 \in 1 .. 4 /\ 2 \in 1 .. 4 /\ 3 \in 1 .. 4 /\ 4 \in 1 .. 4
        /\ 0 \in 0 .. 3 /\ 1 \in 0 .. 3 /\ 2 \in 0 .. 3 /\ 3 \in 0 .. 3 /\ s \in Int
    BY <1>2
  <2>5. CASE p = s + PAD + 1
    <3>1. p + 1 = s + 1 + PAD + 1
      BY <2>4, <2>5
    <3>2. K(1, 0)
      BY <1>4, <1>5, <2>1, <2>3, <2>5, <3>1, Zenon
    <3>3. \E k \in 1 .. 4, a \in 0 .. 3 : K(k, a)
      BY <2>4, <3>2, Zenon
    <3>4. QED
      BY <2>1, <3>3 DEF s
  <2>6. CASE p = s + PAD + 2
    <3>1. p + 1 = s + 1 + PAD + 2
      BY <2>4, <2>6
    <3>2. K(2, 2)
      BY <1>4, <1>5, <2>1, <2>3, <2>6, <3>1, Zenon
    <3>3. \E k \in 1 .. 4, a \in 0 .. 3 : K(k, a)
      BY <2>4, <3>2, Zenon
    <3>4. QED
      BY <2>1, <3>3 DEF s
  <2>7. CASE p = s + PAD + 3
    <3>1. p + 1 = s + 1 + PAD + 3
      BY <2>4, <2>7
    <3>2. K(3, 1)
      BY <1>4, <1>5, <2>1, <2>3, <2>7, <3>1, Zenon
    <3>3. \E k \in 1 .. 4, a \in 0 .. 3 : K(k, a)
      BY <2>4, <3>2, Zenon
    <3>4. QED
      BY <2>1, <3>3 DEF s
  <2>8. CASE p = s + PAD + 4
    <3>1. p + 1 = s + 1 + PAD + 4
      BY <2>4, <2>8
    <3>2. K(4, 3)
      BY <1>4, <1>5, <2>1, <2>3, <2>8, <3>1, Zenon
    <3>3. \E k \in 1 .. 4, a \in 0 .. 3 : K(k, a)
      BY <2>4, <3>2, Zenon
    <3>4. QED
      BY <2>1, <3>3 DEF s
  <2>9. QED
    BY <2>1, <2>5, <2>6, <2>7, <2>8
<1>13. QED
  <2>1. b \in Nat /\ s \in Nat /\ b + 4 <= s - 1
    BY <1>2
  <2>2. \/ p < b \/ (p = b \/ p = b + 1) \/ (p = b + 2 \/ p = b + 3) \/ (b + 4 <= p /\ p < s - 1)
        \/ p = s - 1 \/ (s <= p /\ p <= s + PAD) \/ s + PAD < p
    BY <2>1
  <2>3. QED
    BY <1>6, <1>7, <1>8, <1>9, <1>10, <1>11, <1>12, <2>2

\* When a run of the tile's may be on: from START to TileLatency edges later.
Timed(op, p) ==
  /\ p < StartPlace(op) => Idle
  /\ p >= StartPlace(op) => Idle \/ Remaining + (p - StartPlace(op)) <= TileLatency

\* What p cycles of a tile have stored; u and v are the exact sums before and after it.
Loaded(op, u, v, p) ==
  /\ \A r \in Row : p > ClearCycles(op) + r => weight_mem[r] = op.weights[r]
  /\ \A l \in Col : p > ClearCycles(op) + 2 + l => act_mem[l] = op.acts[l]
  /\ p < StartPlace(op) /\ (op.starts_run => p > 0) => \A r \in Row : Acc[r] = ToPsum(u[r])
  /\ p >= StartPlace(op) => \A r \in Row : Acc[r] = ToPsum(v[r])

\* The byte of the sums v that is read k-th.
ReplyByte(v, k) == GetByte(ToPsum(v[(k - 1) \div 2]), (k - 1) % 2)

\* The action of the chip each command is.
LEMMA DriveIs ==
  ASSUME NEW c, Drive(c)
  PROVE  /\ c.cmd = "CLEAR" => Clear
         /\ c.cmd = "LDW" => Ldw(ArgRow(c.arg), UnpackBits(c.data))
         /\ c.cmd = "LDA" => Lda(ArgCol(c.arg), ToAct(c.data))
         /\ c.cmd = "SEED" => Seed(ArgRow(c.arg), ArgByte(c.arg), c.data)
         /\ c.cmd = "START" => Start
         /\ c.cmd \in {"RDP", "STATUS", "NOP"} => Observe
BY DEF Drive

\* The fields of a cycle.
LEMMA CycleFields ==
  ASSUME NEW cmd, NEW arg, NEW data
  PROVE  /\ Cycle(cmd, arg, data).cmd = cmd /\ Cycle(cmd, arg, data).arg = arg
         /\ Cycle(cmd, arg, data).data = data
BY DEF Cycle

\* What one cycle of the tile does to the chip.
TileEdgeOK(op, u, v, p, c) ==
  /\ ChipInv' /\ Timed(op, p + 1)' /\ Loaded(op, u, v, p + 1)'
  /\ c.cmd \in {"LDW", "LDA", "SEED", "START", "RDP"} => Idle
  /\ c.cmd # "STATUS"
  /\ IF op.ends_run /\ p >= StartPlace(op) + PAD + 1
     THEN c.cmd = "RDP" /\ GetByte(acc_q'[ArgRow(c.arg)], ArgByte(c.arg)) = ReplyByte(v, p - StartPlace(op) - PAD)
     ELSE c.cmd # "RDP"

\* Cycle p of a tile leaves the chip as the tile's cycle p + 1 expects it.
LEMMA TileEdge ==
  ASSUME Setup, ChipInv, NEW op \in OpSet, NEW p \in Nat, p < NumCycles(op),
         NEW u, NEW v, \A r \in Row : u[r] \in Int /\ v[r] = u[r] + TileDot(op, r),
         op.starts_run => \A r \in Row : u[r] = 0,
         Timed(op, p), Loaded(op, u, v, p),
         NEW c, c = BuildTilePairs(op)[p + 1], Drive(c)
  PROVE  TileEdgeOK(op, u, v, p, c)
<1>. DEFINE b == ClearCycles(op)
            s == StartPlace(op)
<1>0. TwoByTwo /\ PAD \in Nat /\ PAD >= 6 /\ TileLatency = 7
  BY SetupFacts
<1>1. /\ op.starts_run \in BOOLEAN /\ op.ends_run \in BOOLEAN
      /\ op.starts_run => b = 2 /\ s = 11
      /\ ~op.starts_run => b = 0 /\ s = 5
      /\ NumCycles(op) = s + 1 + PAD + (IF op.ends_run THEN 4 ELSE 0)
  BY DEF ClearCycles, StartPlace, NumCycles, OpSet
<1>2. /\ p < s => Idle
      /\ p >= s => Idle \/ Remaining + (p - s) <= 7
  BY <1>0 DEF Timed
<1>3. /\ \A r \in Row : p > b + r => weight_mem[r] = op.weights[r]
      /\ \A l \in Col : p > b + 2 + l => act_mem[l] = op.acts[l]
      /\ p < s /\ (op.starts_run => p > 0) => \A r \in Row : Acc[r] = ToPsum(u[r])
      /\ p >= s => \A r \in Row : Acc[r] = ToPsum(v[r])
  BY DEF Loaded
<1>4. /\ \A r \in Row : r \in {0, 1} /\ r \in RowSel /\ ArgRow(r) = r
      /\ \A l \in Col : l \in {0, 1} /\ l \in ColSel /\ ArgCol(l) = l
  <2>1. Row = 0 .. 1 /\ Col = 0 .. 1 /\ RowSel = 0 .. 1 /\ ColSel = 0 .. 1 /\ SelSpan(ROWS) = 2 /\ SelSpan(COLS) = 2
    BY <1>0, TwoFacts
  <2>2. 0 % 2 = 0 /\ 1 % 2 = 1
    OBVIOUS
  <2>3. \A r \in 0 .. 1 : r \in {0, 1} /\ r % 2 = r
    <3>1. \A r \in 0 .. 1 : r = 0 \/ r = 1
      OBVIOUS
    <3>2. QED
      BY <2>2, <3>1
  <2>4. QED
    BY <2>1, <2>3 DEF ArgRow, ArgCol
<1>5. op.weights \in [Row -> [Col -> Bit]] /\ op.acts \in [Col -> Act]
  BY DEF OpSet
<1>6. IInv /\ weight_mem \in [Row -> [Col -> Bit]] /\ act_mem \in [Col -> Act] /\ Remaining \in Nat
      /\ (Remaining = 0 <=> Idle)
  BY RemainingFacts DEF ChipInv, IInv, TypeOK
<1>7. /\ b \in Nat /\ s \in Nat /\ b + 5 <= s
  BY <1>1
<1>. DEFINE G == /\ ChipInv'
                 /\ p + 1 < s => Idle'
                 /\ p + 1 >= s => Idle' \/ Remaining' + ((p + 1) - s) <= 7
                 /\ \A r \in Row : p + 1 > b + r => weight_mem'[r] = op.weights[r]
                 /\ \A l \in Col : p + 1 > b + 2 + l => act_mem'[l] = op.acts[l]
                 /\ p + 1 < s /\ (op.starts_run => p + 1 > 0) => \A r \in Row : Acc'[r] = ToPsum(u[r])
                 /\ p + 1 >= s => \A r \in Row : Acc'[r] = ToPsum(v[r])
                 /\ c.cmd \in {"LDW", "LDA", "SEED", "START", "RDP"} => Idle
                 /\ c.cmd # "STATUS"
                 /\ IF op.ends_run /\ p >= s + PAD + 1
                    THEN c.cmd = "RDP" /\ GetByte(acc_q'[ArgRow(c.arg)], ArgByte(c.arg)) = ReplyByte(v, p - s - PAD)
                    ELSE c.cmd # "RDP"
<1>8. SUFFICES G
  BY <1>0 DEF TileEdgeOK, Timed, Loaded
<1>. HIDE DEF b, s
<1>9. CASE op.starts_run /\ p = 0 /\ c = Cycle("CLEAR", 0, 0)
  <2>1. c.cmd = "CLEAR"
    BY <1>9, CycleFields
  <2>2. Clear
    BY <2>1, DriveIs
  <2>3. ChipInv' /\ Idle' /\ Acc' = Zero(Row)
    BY <2>2, ClearEdge
  <2>4. \A r \in Row : Acc'[r] = ToPsum(u[r])
    <3>1. ToPsum(0) = 0
      BY <1>0 DEF ToPsum, TwoByTwo
    <3>2. \A r \in Row : u[r] = 0 /\ Zero(Row)[r] = 0
      BY <1>9 DEF Zero
    <3>3. QED
      BY <2>3, <3>1, <3>2
  <2>5. b = 2 /\ s = 11 /\ p = 0
    BY <1>1, <1>9
  <2>6. /\ \A r \in Row : ~(p + 1 > b + r)
        /\ \A l \in Col : ~(p + 1 > b + 2 + l)
    BY <1>4, <2>5
  <2>7. ~(p + 1 >= s) /\ ~(p >= s + PAD + 1)
    BY <1>0, <2>5
  <2>8. QED
    BY <2>1, <2>3, <2>4, <2>6, <2>7
<1>10. CASE c = NOP /\ ((op.starts_run /\ p = 1) \/ (s <= p /\ p <= s + PAD))
  <2>1. c.cmd = "NOP"
    BY <1>10, CycleFields DEF NOP
  <2>2. Observe
    BY <2>1, DriveIs
  <2>3. /\ ChipInv' /\ UNCHANGED <<weight_mem, act_mem, error_latched>> /\ Acc' = Acc
        /\ (Idle => Idle')
        /\ (~Idle => Remaining' < Remaining)
        /\ Remaining' \in Nat
    BY <2>2, QuietEdge
  <2>4. CASE op.starts_run /\ p = 1
    <3>1. b = 2 /\ s = 11 /\ p = 1
      BY <1>1, <2>4
    <3>2. /\ \A r \in Row : ~(p + 1 > b + r)
          /\ \A l \in Col : ~(p + 1 > b + 2 + l)
      BY <1>4, <3>1
    <3>3. ~(p + 1 >= s) /\ ~(p >= s + PAD + 1) /\ p < s /\ p > 0
      BY <1>0, <3>1
    <3>4. Idle' /\ \A r \in Row : Acc'[r] = ToPsum(u[r])
      BY <1>2, <1>3, <2>3, <3>3
    <3>5. QED
      BY <2>1, <2>3, <3>2, <3>3, <3>4
  <2>5. CASE s <= p /\ p <= s + PAD
    <3>1. /\ \A r \in Row : p > b + r
          /\ \A l \in Col : p > b + 2 + l
      BY <1>4, <1>7, <2>5
    <3>2. ~(p + 1 < s) /\ ~(p >= s + PAD + 1) /\ p >= s
      BY <1>0, <1>7, <2>5
    <3>3. Idle' \/ Remaining' + ((p + 1) - s) <= 7
      <4>1. CASE Idle
        BY <2>3, <4>1
      <4>2. CASE ~Idle
        <5>1. PICK x \in Nat, y \in Nat : x = Remaining' /\ y = Remaining
          BY <1>6, <2>3
        <5>2. x < y /\ y + (p - s) <= 7
          BY <1>2, <2>3, <3>2, <4>2, <5>1
        <5>3. x + ((p + 1) - s) <= 7
          BY ONLY <1>7, <5>2
        <5>4. QED
          BY <5>1, <5>3
      <4>3. QED
        BY <4>1, <4>2
    <3>4. QED
      BY <1>3, <2>1, <2>3, <3>1, <3>2, <3>3
  <2>6. QED
    BY <1>10, <2>4, <2>5
<1>11. ASSUME NEW r \in Row, p = b + r, c = Cycle("LDW", r, PackBits(op.weights[r])) PROVE G
  <2>1. c.cmd = "LDW" /\ ArgRow(c.arg) = r /\ UnpackBits(c.data) = op.weights[r]
    BY <1>0, <1>4, <1>5, <1>11, CycleFields, Unpacked
  <2>2. Ldw(r, op.weights[r]) /\ op.weights[r] \in [Col -> Bit]
    BY <1>5, <2>1, DriveIs
  <2>3. Idle /\ p < s /\ (op.starts_run => p > 0) /\ p + 1 < s
    BY <1>1, <1>2, <1>4, <1>7, <1>11
  <2>4. /\ ChipInv' /\ Idle' /\ Acc' = Acc
        /\ weight_mem' = [weight_mem EXCEPT ![r] = op.weights[r]] /\ UNCHANGED act_mem
    BY <1>4, <2>2, <2>3, LdwEdge
  <2>5. ASSUME NEW q \in Row, p + 1 > b + q PROVE weight_mem'[q] = op.weights[q]
    <3>1. q = r \/ p > b + q
      BY <1>4, <1>7, <1>11, <2>5
    <3>2. QED
      BY <1>3, <1>6, <2>4, <3>1
  <2>6. \A l \in Col : ~(p + 1 > b + 2 + l)
    BY <1>4, <1>7, <1>11
  <2>7. ~(p + 1 >= s) /\ ~(p >= s + PAD + 1)
    BY <1>0, <1>7, <2>3
  <2>8. QED
    BY <1>0, <1>3, <2>1, <2>3, <2>4, <2>5, <2>6, <2>7
<1>12. ASSUME NEW l \in Col, p = b + 2 + l, c = Cycle("LDA", l, ToByte(op.acts[l])) PROVE G
  <2>1. c.cmd = "LDA" /\ ArgCol(c.arg) = l /\ ToAct(c.data) = op.acts[l]
    BY <1>0, <1>4, <1>5, <1>12, CycleFields, ActKept
  <2>2. Lda(l, op.acts[l]) /\ op.acts[l] \in Act
    BY <1>5, <2>1, DriveIs
  <2>3. Idle /\ p < s /\ (op.starts_run => p > 0) /\ p + 1 < s
    BY <1>1, <1>2, <1>4, <1>7, <1>12
  <2>4. /\ ChipInv' /\ Idle' /\ Acc' = Acc
        /\ act_mem' = [act_mem EXCEPT ![l] = op.acts[l]] /\ UNCHANGED weight_mem
    BY <1>4, <2>2, <2>3, LdaEdge
  <2>5. ASSUME NEW q \in Col, p + 1 > b + 2 + q PROVE act_mem'[q] = op.acts[q]
    <3>1. q = l \/ p > b + 2 + q
      BY <1>4, <1>7, <1>12, <2>5
    <3>2. QED
      BY <1>3, <1>6, <2>4, <3>1
  <2>6. \A r \in Row : p > b + r
    BY <1>4, <1>7, <1>12
  <2>7. ~(p + 1 >= s) /\ ~(p >= s + PAD + 1)
    BY <1>0, <1>7, <2>3
  <2>8. QED
    BY <1>0, <1>3, <2>1, <2>3, <2>4, <2>5, <2>6, <2>7
<1>13. CASE op.starts_run /\ 6 <= p /\ p <= 9 /\ \E a \in 0 .. 3 : c = Cycle("SEED", a, 0)
  <2>1. PICK a \in 0 .. 3 : c = Cycle("SEED", a, 0)
    BY <1>13
  <2>2. c.cmd = "SEED" /\ c.arg = a /\ c.data = 0
    BY <2>1, CycleFields
  <2>3. ArgRow(a) \in Row /\ ArgRow(a) \in RowSel /\ ArgByte(a) \in 0 .. PsumBytes - 1
    BY <1>0, TwoFacts DEF ArgRow, ArgByte
  <2>5. Idle /\ p < s /\ p > 0 /\ p + 1 < s /\ b = 2 /\ s = 11
    BY <1>1, <1>2, <1>13
  <2>6. Acc = Zero(Row)
    <3>1. ToPsum(0) = 0
      BY <1>0 DEF ToPsum, TwoByTwo
    <3>2. \A r \in Row : Acc[r] = 0
      BY <1>3, <1>13, <2>5, <3>1
    <3>3. Acc = [r \in Row |-> Acc[r]]
      BY DEF Acc
    <3>4. QED
      BY <3>2, <3>3 DEF Zero
  <2>7. Seed(ArgRow(a), ArgByte(a), 0)
    BY <2>2, DriveIs
  <2>8. ChipInv' /\ Idle' /\ Acc' = Acc /\ UNCHANGED <<weight_mem, act_mem>>
    BY <2>3, <2>5, <2>6, <2>7, SeedEdge
  <2>9. /\ \A r \in Row : p > b + r
        /\ \A l \in Col : p > b + 2 + l
    BY <1>4, <1>13, <2>5
  <2>10. ~(p + 1 >= s) /\ ~(p >= s + PAD + 1)
    BY <1>0, <2>5
  <2>11. QED
    BY <1>3, <2>2, <2>5, <2>8, <2>9, <2>10
<1>14. CASE p = s - 1 /\ c = Cycle("START", 0, 0)
  <2>1. c.cmd = "START"
    BY <1>14, CycleFields
  <2>2. Start
    BY <2>1, DriveIs
  <2>3. Idle /\ p < s /\ (op.starts_run => p > 0) /\ p + 1 = s
    BY <1>1, <1>2, <1>7, <1>14
  <2>4. /\ ChipInv' /\ UNCHANGED <<weight_mem, act_mem>> /\ Remaining' \in Nat /\ Remaining' <= TileLatency
        /\ \A r \in Row : Acc'[r] = RunResult(weight_mem[r], act_mem, Acc[r])
    BY <2>2, <2>3, StartEdge
  <2>5. /\ \A r \in Row : p > b + r
        /\ \A l \in Col : p > b + 2 + l
    BY <1>1, <1>4, <1>14
  <2>6. (\A r \in Row : weight_mem[r] = op.weights[r]) /\ act_mem = op.acts
    <3>1. (\A r \in Row : weight_mem[r] = op.weights[r]) /\ \A l \in Col : act_mem[l] = op.acts[l]
      BY <1>3, <2>5
    <3>2. QED
      BY <1>5, <1>6, <3>1
  <2>7. ASSUME NEW r \in Row PROVE Acc'[r] = ToPsum(v[r])
    <3>1. Acc'[r] = RunResult(op.weights[r], op.acts, ToPsum(u[r]))
      BY <1>3, <2>3, <2>4, <2>6
    <3>2. RunResult(op.weights[r], op.acts, ToPsum(u[r])) = ToPsum(u[r] + TileDot(op, r))
      BY <1>0, RunWraps
    <3>3. QED
      BY <3>1, <3>2
  <2>8. Remaining' + ((p + 1) - s) <= 7
    <3>1. PICK x \in Nat : x = Remaining'
      BY <2>4
    <3>2. x <= 7
      BY <1>0, <2>4, <3>1
    <3>3. x + ((p + 1) - s) <= 7
      BY ONLY <1>7, <2>3, <3>2
    <3>4. QED
      BY <3>1, <3>3
  <2>9. ~(p + 1 < s) /\ ~(p >= s + PAD + 1)
    BY <1>0, <1>7, <2>3
  <2>10. QED
    BY <1>3, <2>1, <2>3, <2>4, <2>5, <2>7, <2>8, <2>9
<1>15. ASSUME op.ends_run, NEW k \in 1 .. 4, NEW a \in 0 .. 3, p = s + PAD + k, c = Cycle("RDP", a, 0),
              ArgRow(a) = (k - 1) \div 2, ArgByte(a) = (k - 1) % 2
       PROVE  G
  <2>1. c.cmd = "RDP" /\ c.arg = a
    BY <1>15, CycleFields
  <2>2. Observe
    BY <2>1, DriveIs
  <2>3. p >= s /\ p - s >= 7 /\ p - s - PAD = k /\ p >= s + PAD + 1 /\ ~(p + 1 < s) /\ p + 1 >= s
    BY <1>0, <1>7, <1>15
  <2>4. Idle
    BY <1>2, <1>6, <1>7, <2>3
  <2>5. ChipInv' /\ UNCHANGED <<weight_mem, act_mem>> /\ Acc' = Acc /\ Idle' /\ acc_q' = Acc
    BY <2>2, <2>4, QuietEdge
  <2>6. /\ \A r \in Row : p > b + r
        /\ \A l \in Col : p > b + 2 + l
    BY <1>4, <1>7, <2>3
  <2>7. ArgRow(a) \in Row
    BY <1>0, TwoFacts DEF ArgRow
  <2>8. GetByte(acc_q'[ArgRow(c.arg)], ArgByte(c.arg)) = ReplyByte(v, k)
    <3>1. acc_q'[ArgRow(a)] = ToPsum(v[ArgRow(a)])
      BY <1>3, <2>3, <2>5, <2>7
    <3>2. QED
      BY <1>15, <2>1, <3>1 DEF ReplyByte
  <2>9. QED
    BY <1>0, <1>3, <1>15, <2>1, <2>3, <2>4, <2>5, <2>6, <2>8
<1>16. QED
  <2>1. \/ op.starts_run /\ p = 0 /\ c = Cycle("CLEAR", 0, 0)
        \/ op.starts_run /\ p = 1 /\ c = NOP
        \/ \E r \in Row : p = b + r /\ c = Cycle("LDW", r, PackBits(op.weights[r]))
        \/ \E l \in Col : p = b + 2 + l /\ c = Cycle("LDA", l, ToByte(op.acts[l]))
        \/ op.starts_run /\ 6 <= p /\ p <= 9 /\ \E a \in 0 .. 3 : c = Cycle("SEED", a, 0)
        \/ p = s - 1 /\ c = Cycle("START", 0, 0)
        \/ s <= p /\ p <= s + PAD /\ c = NOP
        \/ op.ends_run /\ \E k \in 1 .. 4, a \in 0 .. 3 :
             /\ p = s + PAD + k /\ c = Cycle("RDP", a, 0)
             /\ ArgRow(a) = (k - 1) \div 2 /\ ArgByte(a) = (k - 1) % 2
    BY <1>0, CycleKinds DEF b, s
  <2>2. CASE \E r \in Row : p = b + r /\ c = Cycle("LDW", r, PackBits(op.weights[r]))
    BY <1>11, <2>2
  <2>3. CASE \E l \in Col : p = b + 2 + l /\ c = Cycle("LDA", l, ToByte(op.acts[l]))
    BY <1>12, <2>3
  <2>4. CASE op.ends_run /\ \E k \in 1 .. 4, a \in 0 .. 3 :
             /\ p = s + PAD + k /\ c = Cycle("RDP", a, 0)
             /\ ArgRow(a) = (k - 1) \div 2 /\ ArgByte(a) = (k - 1) % 2
    BY <1>15, <2>4
  <2>5. QED
    BY <1>9, <1>10, <1>13, <1>14, <2>1, <2>2, <2>3, <2>4

-----------------------------------------------------------------------------
(* A frame on its way through firmware and chip. *)

\* A plan the chip can run: what a run sums up starts from zero and fits its accumulator.
Runnable(P) ==
  /\ P \in Seq(OpSet)
  /\ Len(P) > 0 => P[1].starts_run
  /\ \A r \in Row : \A i \in 1 .. Len(P) : Fits(RunSums(P, r)[i])

\* The exact sums before and after tile t.
Before(P, t) == [r \in Row |-> IF P[t].starts_run THEN 0 ELSE RunSums(P, r)[t - 1]]
After(P, t)  == [r \in Row |-> RunSums(P, r)[t]]

\* The descriptors of a frame.
DescSet == {PackDesc(op) : op \in OpSet}

\* Tiles 1 to t have left the frame; p cycles of tile t are done.
Framed(P, t) ==
  /\ frame \in Seq(DescSet) /\ Len(frame) = Len(P) - t
  /\ \A i \in 1 .. Len(P) - t : frame[i] = PackDesc(P[t + i])

\* The cycles of tile t that are still to come, and the chip as they need it.
Cycling(P, t, p) ==
  /\ cycles \in Seq(CycleSet)
  /\ t = 0 => p = 0 /\ cycles = <<>> /\ Idle
  /\ t > 0 => /\ p <= NumCycles(P[t]) /\ Len(cycles) = NumCycles(P[t]) - p
              /\ \A i \in 1 .. Len(cycles) : cycles[i] = BuildTilePairs(P[t])[p + i]
              /\ Timed(P[t], p) /\ Loaded(P[t], Before(P, t), After(P, t), p)

\* The bytes of tile t that were read back.
Read(P, t, p) ==
  IF t > 0 /\ P[t].ends_run /\ p > StartPlace(P[t]) + 1 + PAD THEN p - (StartPlace(P[t]) + 1 + PAD) ELSE 0

\* The reply so far: four bytes for every run that ended, in order.
Replied(P, t, p) ==
  /\ rx \in Seq(Int) /\ Len(rx) = 4 * Tails(P, t) + Read(P, t, p)
  /\ \A i \in 1 .. t : P[i].ends_run => \A k \in 1 .. 4 :
       4 * Tails(P, i) + k <= Len(rx) => rx[4 * Tails(P, i) + k] = ReplyByte(After(P, i), k)

\* A frame with plan P in flight, p cycles into tile t.
At(P, t, p) == /\ t \in 0 .. Len(P) /\ p \in Nat
               /\ Framed(P, t) /\ Cycling(P, t, p) /\ Replied(P, t, p)

\* A tile adds its dot product to the sum before it.
LEMMA BeforeAfter ==
  ASSUME TwoByTwo, NEW P \in Seq(OpSet), NEW t \in 1 .. Len(P)
  PROVE  /\ \A r \in Row : Before(P, t)[r] \in Int /\ After(P, t)[r] = Before(P, t)[r] + TileDot(P[t], r)
         /\ P[t].starts_run => \A r \in Row : Before(P, t)[r] = 0
<1>1. ASSUME NEW r \in Row
      PROVE  Before(P, t)[r] \in Int /\ After(P, t)[r] = Before(P, t)[r] + TileDot(P[t], r)
  <2>1. RunSums(P, r)[t - 1] \in Int
        /\ RunSums(P, r)[t] = (IF P[t].starts_run THEN 0 ELSE RunSums(P, r)[t - 1]) + TileDot(P[t], r)
    <3>1. t - 1 \in 0 .. Len(P)
      OBVIOUS
    <3>2. QED
      BY <3>1, RunSumSteps
  <2>2. QED
    BY <2>1 DEF Before, After
<1>2. P[t].starts_run => \A r \in Row : Before(P, t)[r] = 0
  BY DEF Before
<1>3. QED
  BY <1>1, <1>2

\* A frame is sent to an idle chip.
LEMMA FrameSent ==
  ASSUME NEW P \in Seq(OpSet), frame' = [i \in DOMAIN P |-> PackDesc(P[i])],
         cycles' = <<>>, rx' = <<>>, Idle'
  PROVE  At(P, 0, 0)'
<1>1. Len(P) \in Nat /\ DOMAIN P = 1 .. Len(P) /\ \A i \in 1 .. Len(P) : P[i] \in OpSet
  OBVIOUS
<1>2. frame' \in [1 .. Len(P) -> DescSet] /\ \A i \in 1 .. Len(P) : frame'[i] = PackDesc(P[i])
  BY <1>1 DEF DescSet
<1>3. frame' \in Seq(DescSet) /\ Len(frame') = Len(P)
  BY <1>1, <1>2, FunIsSeq
<1>4. Framed(P, 0)'
  <2>1. Len(P) - 0 = Len(P) /\ \A i \in 1 .. Len(P) : 0 + i = i
    BY <1>1
  <2>2. QED
    BY <1>2, <1>3, <2>1 DEF Framed
<1>5. Cycling(P, 0, 0)'
  BY DEF Cycling
<1>6. Replied(P, 0, 0)'
  <2>1. Tails(P, 0) = 0
    BY TailSteps
  <2>2. Read(P, 0, 0) = 0
    BY DEF Read
  <2>3. QED
    BY <2>1, <2>2 DEF Replied
<1>7. 0 \in 0 .. Len(P) /\ 0 \in Nat
  BY <1>1
<1>8. QED
  BY <1>4, <1>5, <1>6, <1>7 DEF At

\* A tile whose cycles are done leaves the chip idle with the sums of its runs.
LEMMA TileDone ==
  ASSUME Setup, ChipInv, NEW P \in Seq(OpSet), NEW t, NEW p, At(P, t, p), cycles = <<>>
  PROVE  /\ Idle
         /\ t > 0 => p = NumCycles(P[t]) /\ \A r \in Row : Acc[r] = ToPsum(RunSums(P, r)[t])
         /\ \A i \in 1 .. t : P[i].ends_run => 4 * Tails(P, i) + 4 <= Len(rx)
         /\ Len(rx) = IF t = 0 THEN 0 ELSE 4 * Tails(P, t + 1)
<1>0. TwoByTwo /\ PAD \in Nat /\ PAD >= 6 /\ TileLatency = 7
  BY SetupFacts
<1>1. t \in 0 .. Len(P) /\ p \in Nat /\ Len(P) \in Nat
  BY DEF At
<1>2. CASE t = 0
  <2>1. Idle /\ Len(rx) = 4 * Tails(P, 0) + Read(P, 0, p)
    BY <1>2 DEF At, Cycling, Replied
  <2>2. Tails(P, 0) = 0 /\ Read(P, 0, p) = 0
    BY TailSteps DEF Read
  <2>3. QED
    BY <1>2, <2>1, <2>2
<1>3. CASE t > 0
  <2>. DEFINE op == P[t]
              s == StartPlace(op)
  <2>1. /\ op \in OpSet /\ p <= NumCycles(op) /\ Len(cycles) = NumCycles(op) - p
        /\ Timed(op, p) /\ Loaded(op, Before(P, t), After(P, t), p)
    BY <1>1, <1>3 DEF At, Cycling
  <2>2. op.ends_run \in BOOLEAN /\ s \in Nat /\ NumCycles(op) = s + 1 + PAD + (IF op.ends_run THEN 4 ELSE 0)
    BY <2>1 DEF OpSet, StartPlace, NumCycles
  <2>. HIDE DEF op, s
  <2>3. p = NumCycles(op) /\ p >= s /\ p - s >= 7
    <3>1. Len(cycles) = 0
      OBVIOUS
    <3>2. QED
      BY <1>0, <1>1, <2>1, <2>2, <3>1
  <2>4. Idle
    <3>1. Remaining \in Nat /\ (Remaining = 0 <=> Idle)
      BY RemainingFacts DEF ChipInv
    <3>2. Idle \/ Remaining + (p - s) <= 7
      BY <1>0, <2>1, <2>3 DEF Timed, s
    <3>3. QED
      BY <1>1, <2>2, <2>3, <3>1, <3>2
  <2>5. \A r \in Row : Acc[r] = ToPsum(RunSums(P, r)[t])
    BY <2>1, <2>3 DEF Loaded, After, s
  <2>6. Read(P, t, p) = IF op.ends_run THEN 4 ELSE 0
    <3>1. op.ends_run => p > s + 1 + PAD /\ p - (s + 1 + PAD) = 4
      BY <1>0, <2>2, <2>3
    <3>2. QED
      BY <1>3, <3>1 DEF Read, op, s
  <2>7. Len(rx) = 4 * Tails(P, t) + Read(P, t, p) /\ Len(rx) \in Nat
    BY DEF At, Replied
  <2>8. t \in Nat \ {0} /\ Tails(P, t) \in Nat /\ Tails(P, t + 1) = Tails(P, t) + (IF op.ends_run THEN 1 ELSE 0)
    BY <1>1, <1>3, TailSteps DEF op
  <2>9. Len(rx) = 4 * Tails(P, t + 1)
    BY <2>6, <2>7, <2>8
  <2>10. ASSUME NEW i \in 1 .. t, P[i].ends_run PROVE 4 * Tails(P, i) + 4 <= Len(rx)
    <3>1. i \in Nat /\ Tails(P, i) \in Nat
      BY TailSteps
    <3>2. CASE i = t
      BY <2>6, <2>7, <2>10, <3>1, <3>2 DEF op
    <3>3. CASE i # t
      <4>1. Tails(P, i) + 1 <= Tails(P, t)
        BY <1>1, <2>8, <2>10, <3>3, TailsGrow
      <4>2. QED
        BY <2>6, <2>7, <2>8, <3>1, <4>1
    <3>4. QED
      BY <3>2, <3>3
  <2>11. QED
    BY <1>3, <2>3, <2>4, <2>5, <2>9, <2>10 DEF op
<1>4. QED
  BY <1>1, <1>2, <1>3

\* The chip keeps what it has while the firmware unpacks a descriptor.
LEMMA SameChip ==
  ASSUME UNCHANGED vars
  PROVE  /\ UNCHANGED <<weight_mem, act_mem, acc_q, acc_done, error_latched>>
         /\ Acc' = Acc /\ (Idle' <=> Idle) /\ Remaining' = Remaining /\ (ChipInv => ChipInv')
<1>1. UNCHANGED <<state, step, done_latched, weight_done, weight_mem, act_mem, acc_q, acc_done,
                  weight_q, act_out, psum_out, valid_out, error_latched>>
  BY DEF vars, ctrl, array
<1>2. Idle' <=> Idle
  BY <1>1 DEF Idle
<1>3. Acc' = Acc
  BY <1>1 DEF Acc, Idle
<1>4. Remaining' = Remaining
  BY <1>1 DEF Remaining, Idle, LoadPhase, AllRowsDone
<1>5. ASSUME ChipInv PROVE ChipInv'
  <2>1. IInv'
    BY <1>5, IInvInductive DEF ChipInv
  <2>2. PsumInv'
    BY <1>1, <1>5 DEF ChipInv, PsumInv, PartSum, RunPhase
  <2>3. QED
    BY <1>1, <1>5, <2>1, <2>2 DEF ChipInv
<1>6. QED
  BY <1>1, <1>2, <1>3, <1>4, <1>5

\* The firmware takes the next descriptor of the frame.
LEMMA NextTileAt ==
  ASSUME Setup, ChipInv, NEW P, Runnable(P), NEW t, NEW p, At(P, t, p), NextTile
  PROVE  At(P, t + 1, 0)' /\ ChipInv'
<1>0. TwoByTwo /\ PAD \in Nat /\ PAD >= 6 /\ TileLatency = 7
  BY SetupFacts
<1>1. P \in Seq(OpSet) /\ (Len(P) > 0 => P[1].starts_run) /\ Len(P) \in Nat
  BY DEF Runnable
<1>2. cycles = <<>> /\ frame # <<>> /\ cycles' = RunTileMacro(Head(frame)) /\ frame' = Tail(frame)
      /\ UNCHANGED vars /\ rx' = rx
  BY DEF NextTile
<1>3. /\ Idle
      /\ t > 0 => p = NumCycles(P[t]) /\ \A r \in Row : Acc[r] = ToPsum(RunSums(P, r)[t])
      /\ \A i \in 1 .. t : P[i].ends_run => 4 * Tails(P, i) + 4 <= Len(rx)
      /\ Len(rx) = IF t = 0 THEN 0 ELSE 4 * Tails(P, t + 1)
  BY <1>1, <1>2, TileDone
<1>4. t \in 0 .. Len(P) /\ Framed(P, t) /\ Replied(P, t, p)
  BY DEF At
<1>5. frame \in Seq(DescSet) /\ Len(frame) = Len(P) - t /\ \A i \in 1 .. Len(P) - t : frame[i] = PackDesc(P[t + i])
  BY <1>4 DEF Framed
<1>6. Len(frame) >= 1 /\ t + 1 \in 1 .. Len(P) /\ t < Len(P)
  <2>1. Len(frame) # 0
    BY <1>2, <1>5, EmptySeq
  <2>2. QED
    BY <1>1, <1>4, <1>5, <2>1
<1>. DEFINE op == P[t + 1]
<1>7. op \in OpSet
  BY <1>1, <1>6
<1>8. cycles' = BuildTilePairs(op)
  <2>1. Head(frame) = PackDesc(op)
    <3>1. Head(frame) = frame[1]
      BY <1>5
    <3>2. 1 \in 1 .. Len(P) - t
      BY <1>5, <1>6
    <3>3. QED
      BY <1>5, <3>1, <3>2
  <2>. HIDE DEF op
  <2>2. QED
    BY <1>0, <1>2, <1>7, <2>1, MacroIsPairs
<1>9. Framed(P, t + 1)'
  <2>1. frame' \in Seq(DescSet) /\ Len(frame') = Len(P) - (t + 1)
    BY <1>1, <1>2, <1>4, <1>5, <1>6
  <2>2. ASSUME NEW i \in 1 .. Len(P) - (t + 1) PROVE frame'[i] = PackDesc(P[(t + 1) + i])
    <3>1. frame'[i] = frame[i + 1] /\ i + 1 \in 1 .. Len(P) - t /\ t + (i + 1) = (t + 1) + i
      BY <1>1, <1>2, <1>4, <1>5, <1>6
    <3>2. frame[i + 1] = PackDesc(P[t + (i + 1)])
      BY <1>5, <3>1
    <3>3. QED
      BY <3>1, <3>2
  <2>3. QED
    BY <2>1, <2>2 DEF Framed
<1>10. /\ UNCHANGED <<weight_mem, act_mem, acc_q, acc_done, error_latched>>
       /\ Acc' = Acc /\ (Idle' <=> Idle) /\ ChipInv'
  BY <1>2, SameChip
<1>11. Cycling(P, t + 1, 0)'
  <2>1. Places(op, BuildTilePairs(op))
    BY <1>0, <1>7, TilePlaces
  <2>2. cycles' \in Seq(CycleSet) /\ Len(cycles') = NumCycles(op) /\ NumCycles(op) \in Nat
    BY <1>8, <2>1 DEF Places
  <2>3. Len(cycles') = NumCycles(op) - 0 /\ 0 <= NumCycles(op)
        /\ \A i \in 1 .. Len(cycles') : cycles'[i] = BuildTilePairs(op)[0 + i]
    BY <1>8, <2>2
  <2>4. Timed(op, 0)'
    <3>1. ~(0 >= StartPlace(op))
      BY DEF StartPlace
    <3>2. QED
      BY <1>3, <1>10, <3>1 DEF Timed
  <2>5. Loaded(op, Before(P, t + 1), After(P, t + 1), 0)'
    <3>1. /\ \A r \in Row : ~(0 > ClearCycles(op) + r)
          /\ \A l \in Col : ~(0 > ClearCycles(op) + 2 + l)
          /\ ~(0 >= StartPlace(op))
      BY <1>0, TwoFacts DEF ClearCycles, StartPlace
    <3>2. ASSUME ~op.starts_run, NEW r \in Row PROVE Acc'[r] = ToPsum(Before(P, t + 1)[r])
      <4>1. t > 0
        BY <1>1, <1>4, <1>6, <3>2
      <4>2. (t + 1) - 1 = t
        BY <1>4
      <4>3. Before(P, t + 1)[r] = RunSums(P, r)[t]
        BY <3>2, <4>2 DEF Before
      <4>4. QED
        BY <1>3, <1>10, <4>1, <4>3
    <3>3. ~(0 > 0)
      OBVIOUS
    <3>4. QED
      BY <3>1, <3>2, <3>3 DEF Loaded
  <2>6. t + 1 > 0 /\ t + 1 # 0
    BY <1>4
  <2>7. QED
    BY <2>2, <2>3, <2>4, <2>5, <2>6 DEF Cycling
<1>12. Replied(P, t + 1, 0)'
  <2>1. rx \in Seq(Int) /\ \A i \in 1 .. t : P[i].ends_run => \A k \in 1 .. 4 :
          4 * Tails(P, i) + k <= Len(rx) => rx[4 * Tails(P, i) + k] = ReplyByte(After(P, i), k)
    BY <1>4 DEF Replied
  <2>2. Read(P, t + 1, 0) = 0
    <3>1. ~(0 > StartPlace(P[t + 1]) + 1 + PAD)
      BY <1>0 DEF StartPlace
    <3>2. QED
      BY <3>1 DEF Read
  <2>3. Len(rx) = 4 * Tails(P, t + 1) /\ Tails(P, t + 1) \in Nat
    <3>1. Tails(P, 1) = 0 /\ \A i \in Nat : Tails(P, i) \in Nat
      BY <1>1, TailSteps
    <3>2. CASE t = 0
      <4>1. t + 1 = 1
        BY <3>2
      <4>2. QED
        BY <1>3, <3>1, <3>2, <4>1
    <3>3. CASE t # 0
      BY <1>3, <1>4, <3>1, <3>3
    <3>4. QED
      BY <3>2, <3>3
  <2>4. ASSUME NEW i \in 1 .. t + 1, P[i].ends_run, NEW k \in 1 .. 4, 4 * Tails(P, i) + k <= Len(rx)
        PROVE  rx[4 * Tails(P, i) + k] = ReplyByte(After(P, i), k)
    <3>1. CASE i = t + 1
      <4>1. FALSE
        BY <2>3, <2>4, <3>1
      <4>2. QED
        BY <4>1
    <3>2. CASE i # t + 1
      <4>1. i \in 1 .. t
        BY <1>4, <3>2
      <4>2. QED
        BY <2>1, <2>4, <4>1
    <3>3. QED
      BY <3>1, <3>2
  <2>5. Len(rx) = 4 * Tails(P, t + 1) + 0
    BY <2>3
  <2>6. QED
    BY <1>2, <2>1, <2>2, <2>4, <2>5 DEF Replied
<1>13. t + 1 \in 0 .. Len(P) /\ 0 \in Nat
  BY <1>6
<1>14. QED
  BY <1>9, <1>10, <1>11, <1>12, <1>13 DEF At

\* One cycle of the tile's list.
LEMMA ChipCycleAt ==
  ASSUME Setup, ChipInv, NEW P, Runnable(P), NEW t, NEW p, At(P, t, p), ChipCycle
  PROVE  /\ At(P, t, p + 1)' /\ ChipInv'
         /\ Head(cycles).cmd \in {"LDW", "LDA", "SEED", "START", "RDP"} => Idle
<1>. DEFINE op == P[t]
            c == Head(cycles)
            s == StartPlace(op)
            u == Before(P, t)
            v == After(P, t)
<1>0. TwoByTwo /\ PAD \in Nat /\ PAD >= 6 /\ TileLatency = 7
  BY SetupFacts
<1>1. P \in Seq(OpSet) /\ Len(P) \in Nat
  BY DEF Runnable
<1>2. /\ cycles # <<>> /\ Drive(c)
      /\ rx' = CASE c.cmd = "RDP"    -> Append(rx, GetByte(acc_q'[ArgRow(c.arg)], ArgByte(c.arg)))
                 [] c.cmd = "STATUS" -> Append(rx, IF error_latched' THEN 1 ELSE 0)
                 [] OTHER            -> rx
      /\ cycles' = Tail(cycles) /\ frame' = frame
  BY DEF ChipCycle
<1>3. t \in 0 .. Len(P) /\ p \in Nat /\ Framed(P, t) /\ Cycling(P, t, p) /\ Replied(P, t, p)
  BY DEF At
<1>4. t # 0 /\ t \in 1 .. Len(P)
  BY <1>1, <1>2, <1>3 DEF Cycling
<1>5. /\ cycles \in Seq(CycleSet) /\ p <= NumCycles(op) /\ Len(cycles) = NumCycles(op) - p
      /\ \A i \in 1 .. Len(cycles) : cycles[i] = BuildTilePairs(op)[p + i]
      /\ Timed(op, p) /\ Loaded(op, u, v, p)
  BY <1>3, <1>4 DEF Cycling
<1>6. op \in OpSet
  BY <1>1, <1>4
<1>7. s \in Nat /\ op.ends_run \in BOOLEAN /\ NumCycles(op) \in Nat
      /\ NumCycles(op) = s + 1 + PAD + (IF op.ends_run THEN 4 ELSE 0)
  BY <1>0, <1>6 DEF StartPlace, NumCycles, OpSet
<1>8. /\ \A r \in Row : u[r] \in Int /\ v[r] = u[r] + TileDot(op, r)
      /\ op.starts_run => \A r \in Row : u[r] = 0
  BY <1>0, <1>1, <1>4, BeforeAfter
<1>9. Len(cycles) >= 1 /\ p < NumCycles(op) /\ p + 1 <= NumCycles(op)
  <2>1. Len(cycles) # 0
    BY <1>2, <1>5, EmptySeq
  <2>2. QED
    BY <1>3, <1>5, <1>7, <2>1
<1>10. c = BuildTilePairs(op)[p + 1]
  <2>1. c = cycles[1] /\ 1 \in 1 .. Len(cycles)
    BY <1>5, <1>9
  <2>2. QED
    BY <1>5, <2>1
<1>11. TileEdgeOK(op, u, v, p, c)
  <2>. HIDE DEF op, c, u, v
  <2>1. QED
    BY <1>2, <1>3, <1>5, <1>6, <1>8, <1>9, <1>10, TileEdge
<1>12. /\ ChipInv' /\ Timed(op, p + 1)' /\ Loaded(op, u, v, p + 1)'
       /\ c.cmd \in {"LDW", "LDA", "SEED", "START", "RDP"} => Idle
       /\ c.cmd # "STATUS"
       /\ IF op.ends_run /\ p >= s + PAD + 1
          THEN c.cmd = "RDP" /\ GetByte(acc_q'[ArgRow(c.arg)], ArgByte(c.arg)) = ReplyByte(v, p - s - PAD)
          ELSE c.cmd # "RDP"
  BY <1>11 DEF TileEdgeOK
<1>13. Framed(P, t)'
  BY <1>2, <1>3 DEF Framed
<1>14. Cycling(P, t, p + 1)'
  <2>1. cycles' \in Seq(CycleSet) /\ Len(cycles') = NumCycles(op) - (p + 1)
    BY <1>2, <1>3, <1>5, <1>7, <1>9
  <2>2. ASSUME NEW i \in 1 .. Len(cycles') PROVE cycles'[i] = BuildTilePairs(op)[(p + 1) + i]
    <3>0. i \in Nat /\ i + 1 \in 1 .. Len(cycles) /\ p + (i + 1) = (p + 1) + i
      <4>1. PICK N \in Nat, l \in Nat : N = NumCycles(op) /\ l = Len(cycles)
        BY <1>5, <1>7
      <4>2. Len(cycles') = N - (p + 1) /\ l = N - p
        BY <1>5, <2>1, <4>1
      <4>3. p \in Nat /\ i \in 1 .. N - (p + 1)
        BY <1>3, <4>2
      <4>4. i \in Nat /\ i + 1 \in 1 .. l /\ p + (i + 1) = (p + 1) + i
        BY ONLY <4>2, <4>3, N \in Nat, l \in Nat
      <4>5. QED
        BY <4>1, <4>4
    <3>1. cycles'[i] = cycles[i + 1] /\ i + 1 \in 1 .. Len(cycles) /\ p + (i + 1) = (p + 1) + i
      <4>. HIDE DEF op, c
      <4>1. i \in 1 .. Len(Tail(cycles))
        BY <1>2
      <4>2. QED
        BY <1>2, <1>5, <3>0, <4>1
    <3>2. cycles[i + 1] = BuildTilePairs(op)[p + (i + 1)]
      BY <1>5, <3>1
    <3>3. QED
      BY <3>1, <3>2
  <2>3. QED
    BY <1>4, <1>9, <1>12, <2>1, <2>2 DEF Cycling
<1>15. Replied(P, t, p + 1)'
  <2>1. /\ rx \in Seq(Int) /\ Len(rx) = 4 * Tails(P, t) + Read(P, t, p) /\ Len(rx) \in Nat
        /\ \A i \in 1 .. t : P[i].ends_run => \A k \in 1 .. 4 :
             4 * Tails(P, i) + k <= Len(rx) => rx[4 * Tails(P, i) + k] = ReplyByte(After(P, i), k)
    BY <1>3 DEF Replied
  <2>2. t \in Nat /\ t > 0 /\ Tails(P, t) \in Nat
    BY <1>1, <1>4, TailSteps
  <2>3. CASE ~(op.ends_run /\ p >= s + PAD + 1)
    <3>1. rx' = rx
      BY <1>2, <1>12, <2>3
    <3>2. Read(P, t, p) = 0 /\ Read(P, t, p + 1) = 0
      <4>1. op.ends_run => ~(p > s + 1 + PAD) /\ ~(p + 1 > s + 1 + PAD)
        BY <1>0, <1>3, <1>7, <2>3
      <4>2. QED
        BY <4>1 DEF Read
    <3>3. QED
      BY <2>1, <3>1, <3>2 DEF Replied
  <2>4. CASE op.ends_run /\ p >= s + PAD + 1
    <3>. DEFINE b == GetByte(acc_q'[ArgRow(c.arg)], ArgByte(c.arg))
                k0 == p - s - PAD
    <3>1. c.cmd = "RDP" /\ b = ReplyByte(v, k0)
      BY <1>12, <2>4
    <3>2. rx' = Append(rx, b)
      BY <1>2, <3>1
    <3>3. Read(P, t, p) = k0 - 1 /\ Read(P, t, p + 1) = k0 /\ k0 \in 1 .. 4
      <4>1. /\ p + 1 > s + 1 + PAD /\ (p + 1) - (s + 1 + PAD) = k0 /\ k0 \in 1 .. 4
            /\ p > s + 1 + PAD => p - (s + 1 + PAD) = k0 - 1
            /\ ~(p > s + 1 + PAD) => 0 = k0 - 1
        <5>. HIDE DEF op, s
        <5>1. QED
          BY <1>0, <1>3, <1>7, <1>9, <2>4
      <4>2. QED
        BY <2>2, <2>4, <4>1 DEF Read
    <3>4. b \in Int
      <4>1. Row = 0 .. 1 /\ (k0 - 1) \div 2 \in 0 .. 1 /\ (k0 - 1) % 2 \in 0 .. 1
        <5>1. k0 = 1 \/ k0 = 2 \/ k0 = 3 \/ k0 = 4
          BY <3>3
        <5>2. QED
          BY <1>0, <5>1, TwoFacts
      <4>2. PICK y \in Int : y = v[(k0 - 1) \div 2]
        <5>1. v[(k0 - 1) \div 2] \in Int
          <6>. HIDE DEF v, u, op, k0
          <6>1. \A r \in Row : TileDot(op, r) \in Int
            BY <1>0, <1>6, OpDot
          <6>2. \A r \in Row : v[r] \in Int
            BY <1>8, <6>1
          <6>3. QED
            BY <4>1, <6>2
        <5>2. QED
          BY <5>1
      <4>3. BYTE = 256
        BY <1>0 DEF TwoByTwo
      <4>4. PICK m \in Nat \ {0} : m = BYTE * BYTE
        BY <4>3
      <4>5. PICK z \in Int : z = y % m
        OBVIOUS
      <4>6. (k0 - 1) % 2 = 0 \/ (k0 - 1) % 2 = 1
        BY <4>1
      <4>7. GetByte(z, (k0 - 1) % 2) \in Int
        BY <4>3, <4>6 DEF GetByte
      <4>8. QED
        BY <3>1, <4>2, <4>4, <4>5, <4>7 DEF ReplyByte, ToPsum
    <3>. HIDE DEF b, k0
    <3>5. /\ rx' \in Seq(Int) /\ Len(rx') = Len(rx) + 1 /\ rx'[Len(rx) + 1] = b
          /\ \A i \in 1 .. Len(rx) : rx'[i] = rx[i]
      BY <2>1, <3>2, <3>4
    <3>6. Len(rx) = 4 * Tails(P, t) + (k0 - 1) /\ Len(rx') = 4 * Tails(P, t) + k0
          /\ Len(rx) + 1 = 4 * Tails(P, t) + k0
      BY <2>1, <2>2, <3>3, <3>5
    <3>7. ASSUME NEW i \in 1 .. t, P[i].ends_run, NEW k \in 1 .. 4, 4 * Tails(P, i) + k <= Len(rx')
          PROVE  rx'[4 * Tails(P, i) + k] = ReplyByte(After(P, i), k)
      <4>0. i \in Nat
        BY <2>2
      <4>1. i \in Nat /\ Tails(P, i) \in Nat
        BY <1>1, <4>0, TailSteps
      <4>2. CASE 4 * Tails(P, i) + k <= Len(rx)
        <5>1. 4 * Tails(P, i) + k \in 1 .. Len(rx)
          BY <2>1, <4>1, <4>2
        <5>2. QED
          BY <2>1, <3>5, <3>7, <4>2, <5>1
      <4>3. CASE ~(4 * Tails(P, i) + k <= Len(rx))
        <5>1. 4 * Tails(P, i) + k = Len(rx) + 1
          BY <2>1, <3>5, <3>7, <4>1, <4>3
        <5>2. i = t
          <6>1. SUFFICES ASSUME i # t PROVE FALSE
            OBVIOUS
          <6>2. i < t
            BY <2>2, <6>1
          <6>3. Tails(P, i) + 1 <= Tails(P, t)
            BY <1>1, <2>2, <3>7, <6>2, TailsGrow
          <6>4. QED
            BY <2>2, <3>3, <3>6, <4>1, <5>1, <6>3
        <5>3. k = k0
          BY <2>2, <3>3, <3>6, <5>1, <5>2
        <5>4. QED
          BY <3>1, <3>5, <5>1, <5>2, <5>3 DEF v
      <4>4. QED
        BY <4>2, <4>3
    <3>8. QED
      BY <3>3, <3>5, <3>6, <3>7 DEF Replied
  <2>5. QED
    BY <2>3, <2>4
<1>16. QED
  BY <1>3, <1>12, <1>13, <1>14, <1>15 DEF At

\* A command on its way to the chip finds it idle, whether or not it is driven now.
LEMMA HeadLands ==
  ASSUME Setup, ChipInv, NEW P, Runnable(P), NEW t, NEW p, At(P, t, p), cycles # <<>>,
         Head(cycles).cmd \in {"LDW", "LDA", "SEED", "START", "RDP"}
  PROVE  Idle
<1>. DEFINE op == P[t]
            c == Head(cycles)
            s == StartPlace(op)
<1>0. TwoByTwo /\ PAD \in Nat /\ PAD >= 6 /\ TileLatency = 7
  BY SetupFacts
<1>1. P \in Seq(OpSet) /\ Len(P) \in Nat
  BY DEF Runnable
<1>3. t \in 0 .. Len(P) /\ p \in Nat /\ Cycling(P, t, p)
  BY DEF At
<1>4. t # 0 /\ t \in 1 .. Len(P)
  BY <1>1, <1>3 DEF Cycling
<1>5. /\ cycles \in Seq(CycleSet) /\ p <= NumCycles(op) /\ Len(cycles) = NumCycles(op) - p
      /\ \A i \in 1 .. Len(cycles) : cycles[i] = BuildTilePairs(op)[p + i]
      /\ Timed(op, p)
  BY <1>3, <1>4 DEF Cycling
<1>6. op \in OpSet
  BY <1>1, <1>4
<1>7. s \in Nat /\ op.ends_run \in BOOLEAN /\ NumCycles(op) \in Nat /\ ClearCycles(op) + 5 <= s
      /\ ClearCycles(op) \in Nat /\ (op.starts_run => s = 11)
  BY <1>0, <1>6 DEF StartPlace, NumCycles, OpSet, ClearCycles
<1>9. Len(cycles) >= 1 /\ p < NumCycles(op)
  <2>1. Len(cycles) # 0
    BY <1>5, EmptySeq
  <2>2. QED
    BY <1>3, <1>5, <1>7, <2>1
<1>10. c = BuildTilePairs(op)[p + 1]
  <2>1. c = cycles[1] /\ 1 \in 1 .. Len(cycles)
    BY <1>5, <1>9
  <2>2. QED
    BY <1>5, <2>1
<1>11. /\ p < s => Idle
       /\ p >= s => Idle \/ Remaining + (p - s) <= 7
  BY <1>0, <1>5 DEF Timed
<1>12. Remaining \in Nat /\ (Remaining = 0 <=> Idle)
  BY RemainingFacts DEF ChipInv
<1>13. Row = 0 .. 1 /\ Col = 0 .. 1
  BY <1>0, TwoFacts
<1>14. c.cmd # "NOP" /\ c.cmd # "CLEAR"
  OBVIOUS
<1>15. c # NOP
  BY <1>14, CycleFields DEF NOP
<1>16. p < s \/ p >= s + PAD + 1
  <2>. DEFINE b == ClearCycles(op)
  <2>1. \/ op.starts_run /\ p = 0 /\ c = Cycle("CLEAR", 0, 0)
        \/ op.starts_run /\ p = 1 /\ c = NOP
        \/ \E r \in Row : p = b + r /\ c = Cycle("LDW", r, PackBits(op.weights[r]))
        \/ \E l \in Col : p = b + 2 + l /\ c = Cycle("LDA", l, ToByte(op.acts[l]))
        \/ op.starts_run /\ 6 <= p /\ p <= 9 /\ \E a \in 0 .. 3 : c = Cycle("SEED", a, 0)
        \/ p = s - 1 /\ c = Cycle("START", 0, 0)
        \/ s <= p /\ p <= s + PAD /\ c = NOP
        \/ op.ends_run /\ \E k \in 1 .. 4, a \in 0 .. 3 :
             /\ p = s + PAD + k /\ c = Cycle("RDP", a, 0)
             /\ ArgRow(a) = (k - 1) \div 2 /\ ArgByte(a) = (k - 1) % 2
    <3>. HIDE DEF op, c
    <3>1. QED
      BY <1>0, <1>3, <1>6, <1>9, <1>10, CycleKinds
  <2>2. \/ op.starts_run /\ p = 0
        \/ \E r \in Row : p = b + r
        \/ \E l \in Col : p = b + 2 + l
        \/ op.starts_run /\ p <= 9
        \/ p = s - 1
        \/ \E k \in 1 .. 4 : p = s + PAD + k
    BY <1>15, <2>1
  <2>. HIDE DEF op, c, s, b
  <2>3. QED
    BY <1>0, <1>3, <1>7, <1>13, <2>2 DEF b
<1>. HIDE DEF op, c, s
<1>17. QED
  BY <1>0, <1>3, <1>7, <1>11, <1>12, <1>16

\* Four bytes of the reply are the sums of a run.
LEMMA ParsedRun ==
  ASSUME TwoByTwo, NEW x \in Seq(Int), NEW T \in Nat, 4 * T + 4 <= Len(x), NEW v,
         \A k \in 1 .. 4 : x[4 * T + k] = ReplyByte(v, k),
         NEW r \in Row, Fits(v[r])
  PROVE  ParsePsum(SubSeq(x, T * ROWS * PsumBytes + 1, Len(x)), r) = v[r]
<1>. DEFINE y == SubSeq(x, T * ROWS * PsumBytes + 1, Len(x))
<1>1. ROWS = 2 /\ PsumBytes = 2 /\ Row = 0 .. 1
  BY TwoFacts DEF TwoByTwo
<1>2. r = 0 \/ r = 1
  BY <1>1
<1>3. T * ROWS * PsumBytes + 1 = 4 * T + 1
  BY <1>1
<1>4. PICK a \in Nat : a = 4 * T + 1 /\ a \in 1 .. Len(x) + 1 /\ a + 3 <= Len(x)
  OBVIOUS
<1>5. Len(x) \in Nat /\ y = SubSeq(x, a, Len(x))
  <2>1. T * ROWS * PsumBytes + 1 = a /\ Len(x) \in Nat
    BY <1>3, <1>4
  <2>2. QED
    BY <2>1, Zenon
<1>6. \A i \in 1 .. 4 : y[i] = x[4 * T + i]
  <2>1. SUFFICES ASSUME NEW i \in 1 .. 4 PROVE y[i] = x[4 * T + i]
    OBVIOUS
  <2>2. i \in 1 .. Len(x) - a + 1 /\ a + i - 1 = 4 * T + i
    BY <1>4, <1>5
  <2>3. y[i] = x[a + i - 1]
    <3>. HIDE DEF y
    <3>1. QED
      BY <1>4, <1>5, <2>2
  <2>4. QED
    BY <2>2, <2>3
<1>. HIDE DEF y
<1>7. ParsePsum(y, r) = SignExtend(y[r * 2 + 1] + y[r * 2 + 2] * BYTE)
  BY <1>1 DEF ParsePsum
<1>8. \A i \in 1 .. 4 : y[i] = ReplyByte(v, i)
  BY <1>6
<1>9. SignExtend(GetByte(ToPsum(v[r]), 0) + GetByte(ToPsum(v[r]), 1) * BYTE) = v[r]
  BY PsumKept
<1>10. y[r * 2 + 1] = GetByte(ToPsum(v[r]), 0) /\ y[r * 2 + 2] = GetByte(ToPsum(v[r]), 1)
  <2>1. /\ r * 2 + 1 \in 1 .. 4 /\ ((r * 2 + 1) - 1) \div 2 = r /\ ((r * 2 + 1) - 1) % 2 = 0
        /\ r * 2 + 2 \in 1 .. 4 /\ ((r * 2 + 2) - 1) \div 2 = r /\ ((r * 2 + 2) - 1) % 2 = 1
    <3>1. CASE r = 0
      BY ONLY <3>1
    <3>2. CASE r = 1
      BY ONLY <3>2
    <3>3. QED
      BY <1>2, <3>1, <3>2
  <2>2. QED
    BY <1>8, <2>1 DEF ReplyByte
<1>11. QED
  BY <1>7, <1>9, <1>10 DEF y

\* What the host makes of a reply: the exact sum of every run, at its last tile.
PsumsRight(P, ps) ==
  \A i \in 1 .. Len(P) : P[i].ends_run => \A r \in Row : ps[i][r] = RunSums(P, r)[i]

\* When the frame is done, the host finds the sum of every run in its reply.
LEMMA ReplyAt ==
  ASSUME Setup, ChipInv, NEW P, Runnable(P), NEW t, NEW p, At(P, t, p), FrameDone, NEW i \in 1 .. Len(P),
         P[i].ends_run, NEW r \in Row
  PROVE  ParsePsum(SubSeq(rx, Tails(P, i) * ROWS * PsumBytes + 1, Len(rx)), r) = RunSums(P, r)[i]
<1>0. TwoByTwo
  BY SetupFacts
<1>1. P \in Seq(OpSet) /\ Len(P) \in Nat /\ Fits(RunSums(P, r)[i])
  BY DEF Runnable
<1>2. frame = <<>> /\ cycles = <<>>
  BY DEF FrameDone
<1>3. t \in 0 .. Len(P) /\ Len(frame) = Len(P) - t /\ Replied(P, t, p)
  BY DEF At, Framed
<1>4. t = Len(P)
  <2>1. Len(frame) = 0
    BY <1>2
  <2>2. QED
    BY <1>1, <1>3, <2>1
<1>5. 4 * Tails(P, i) + 4 <= Len(rx)
  BY <1>1, <1>2, <1>4, TileDone
<1>6. /\ rx \in Seq(Int) /\ Len(rx) \in Nat
      /\ \A k \in 1 .. 4 : 4 * Tails(P, i) + k <= Len(rx) => rx[4 * Tails(P, i) + k] = ReplyByte(After(P, i), k)
  BY <1>3, <1>4 DEF Replied
<1>7. Tails(P, i) \in Nat
  <2>1. i \in Nat
    BY <1>1
  <2>2. QED
    BY <1>1, <2>1, TailSteps
<1>8. \A k \in 1 .. 4 : rx[4 * Tails(P, i) + k] = ReplyByte(After(P, i), k)
  <2>1. \A k \in 1 .. 4 : 4 * Tails(P, i) + k <= Len(rx)
    <3>1. PICK n \in Nat : n = Len(rx)
      BY <1>6
    <3>2. PICK T \in Nat : T = Tails(P, i)
      BY <1>7
    <3>3. \A k \in 1 .. 4 : 4 * T + k <= n
      BY ONLY <1>5, <3>1, <3>2
    <3>4. QED
      BY <3>1, <3>2, <3>3
  <2>2. QED
    BY <1>6, <2>1
<1>9. After(P, i)[r] = RunSums(P, r)[i]
  BY DEF After
<1>10. PICK v : v = After(P, i)
  OBVIOUS
<1>11. PICK x \in Seq(Int) : x = rx
  BY <1>6
<1>12. PICK T \in Nat : T = Tails(P, i)
  BY <1>7
<1>13. ParsePsum(SubSeq(x, T * ROWS * PsumBytes + 1, Len(x)), r) = v[r]
  BY <1>0, <1>1, <1>5, <1>8, <1>9, <1>10, <1>11, <1>12, ParsedRun
<1>14. QED
  BY <1>9, <1>10, <1>11, <1>12, <1>13

-----------------------------------------------------------------------------
(* Sums. *)

\* The partial sums of numbers.
LEMMA PrefixSums ==
  ASSUME NEW n \in Nat, NEW f, \A i \in 1 .. n : f[i] \in Int
  PROVE  \E g \in [0 .. n -> Int] : g[0] = 0 /\ \A i \in 1 .. n : g[i] = g[i - 1] + f[i]
<1>. DEFINE S == [k \in 0 .. n |-> Int]
            F == [k \in 1 .. n |-> [m \in Int |-> m + f[k]]]
<1>1. 0 \in 0 .. n /\ \A k \in 1 .. n : k \in 0 .. n /\ k - 1 \in 0 .. n
  OBVIOUS
<1>2. /\ \A k \in 0 .. n : S[k] = Int
      /\ \A k \in 1 .. n : \A m \in Int : F[k][m] = m + f[k]
  OBVIOUS
<1>. HIDE DEF S, F
<1>3. 0 \in S[0]
  BY <1>1, <1>2
<1>4. \A k \in 1 .. n : \A m \in S[k - 1] : F[k][m] \in S[k]
  <2>1. SUFFICES ASSUME NEW k \in 1 .. n, NEW m \in S[k - 1] PROVE F[k][m] \in S[k]
    OBVIOUS
  <2>2. S[k - 1] = Int /\ S[k] = Int
    BY <1>1, <1>2
  <2>3. m \in Int /\ F[k][m] = m + f[k] /\ f[k] \in Int
    BY <1>2, <2>2
  <2>4. QED
    BY <2>2, <2>3
<1>5. PICK g : Iterates(g, n, 0, F, S)
  BY <1>1, <1>3, <1>4, IterationExists
<1>6. /\ g = [k \in 0 .. n |-> g[k]] /\ g[0] = 0
      /\ \A k \in 1 .. n : g[k] = F[k][g[k - 1]]
      /\ \A k \in 0 .. n : g[k] \in S[k]
  BY <1>5, Zenon DEF Iterates
<1>7. \A k \in 0 .. n : g[k] \in Int
  BY <1>2, <1>6
<1>8. g \in [0 .. n -> Int]
  BY <1>6, <1>7
<1>9. \A k \in 1 .. n : g[k] = g[k - 1] + f[k]
  BY <1>1, <1>2, <1>6, <1>7
<1>10. QED
  BY <1>6, <1>8, <1>9

\* g[j] is the sum of the first j of f's values from lo on.
PartialSums(lo, n, f, g) ==
  /\ lo \in Int /\ n \in Nat /\ g[0] = 0 /\ \A j \in 0 .. n : g[j] \in Int
  /\ \A j \in 1 .. n : g[j] = g[j - 1] + f[lo + j - 1]

\* A loop that adds up reaches the last of the partial sums.
LEMMA SumIs ==
  ASSUME NEW lo, NEW n, NEW f, NEW g, PartialSums(lo, n, f, g), NEW hi, hi = lo + n - 1
  PROVE  SumOver(lo, hi, f) = g[n]
<1>. USE DEF PartialSums
<1>. DEFINE Solves(s) == s = [i \in lo - 1 .. hi |-> IF i < lo THEN 0 ELSE s[i - 1] + f[i]]
            d == CHOOSE s : Solves(s)
            s0 == [i \in lo - 1 .. hi |-> g[i - lo + 1]]
<1>0. hi \in Int /\ lo - 1 <= hi
  OBVIOUS
<1>1. SumOver(lo, hi, f) = d[hi]
  BY Zenon DEF SumOver
<1>2. Solves(s0)
  <2>1. ASSUME NEW i \in lo - 1 .. hi
        PROVE  g[i - lo + 1] = IF i < lo THEN 0 ELSE s0[i - 1] + f[i]
    <3>1. CASE i < lo
      <4>1. i - lo + 1 = 0
        BY <3>1
      <4>2. QED
        BY <3>1, <4>1
    <3>2. CASE i >= lo
      <4>1. /\ i - lo + 1 \in 1 .. n /\ (i - lo + 1) - 1 = (i - 1) - lo + 1 /\ lo + (i - lo + 1) - 1 = i
            /\ i - 1 \in lo - 1 .. hi
        BY <3>2
      <4>2. s0[i - 1] = g[(i - 1) - lo + 1]
        BY <4>1
      <4>3. g[i - lo + 1] = g[(i - lo + 1) - 1] + f[lo + (i - lo + 1) - 1]
        BY <4>1
      <4>4. QED
        BY <3>2, <4>1, <4>2, <4>3
    <3>3. QED
      BY <1>0, <3>1, <3>2
  <2>2. QED
    BY <2>1
<1>3. Solves(d)
  BY <1>2
<1>. HIDE DEF d
<1>4. \A i \in lo - 1 .. hi : d[i] = IF i < lo THEN 0 ELSE d[i - 1] + f[i]
  BY <1>3, Zenon
<1>. DEFINE e == [j \in 0 .. n |-> d[lo - 1 + j]]
            S == [j \in 0 .. n |-> {g[j]}]
<1>5. e[0] \in S[0]
  <2>1. 0 \in 0 .. n /\ lo - 1 + 0 = lo - 1 /\ lo - 1 \in lo - 1 .. hi /\ lo - 1 < lo
    BY <1>0
  <2>2. e[0] = d[lo - 1] /\ d[lo - 1] = 0 /\ S[0] = {g[0]}
    BY <1>4, <2>1
  <2>3. QED
    BY <2>2
<1>6. \A j \in 1 .. n : e[j - 1] \in S[j - 1] => e[j] \in S[j]
  <2>1. SUFFICES ASSUME NEW j \in 1 .. n, e[j - 1] \in S[j - 1] PROVE e[j] \in S[j]
    OBVIOUS
  <2>2. /\ j \in 0 .. n /\ j - 1 \in 0 .. n /\ lo - 1 + j \in lo - 1 .. hi /\ ~(lo - 1 + j < lo)
        /\ (lo - 1 + j) - 1 = lo - 1 + (j - 1) /\ lo - 1 + j = lo + j - 1
    OBVIOUS
  <2>3. e[j] = d[lo - 1 + j] /\ e[j - 1] = d[lo - 1 + (j - 1)] /\ S[j] = {g[j]} /\ S[j - 1] = {g[j - 1]}
    BY <2>2
  <2>4. d[lo - 1 + j] = d[(lo - 1 + j) - 1] + f[lo - 1 + j]
    BY <1>4, <2>2
  <2>5. g[j] = g[j - 1] + f[lo + j - 1]
    OBVIOUS
  <2>. HIDE DEF e, S
  <2>6. e[j] = g[j]
    BY <2>1, <2>2, <2>3, <2>4, <2>5
  <2>7. QED
    BY <2>3, <2>6
<1>7. \A j \in 0 .. n : e[j] \in S[j]
  <2>. HIDE DEF e, S
  <2>1. QED
    BY <1>5, <1>6, IterationStays
<1>8. n \in 0 .. n /\ lo - 1 + n = hi
  BY <1>0
<1>9. e[n] = d[hi] /\ S[n] = {g[n]}
  BY <1>8
<1>10. QED
  BY <1>1, <1>7, <1>8, <1>9

-----------------------------------------------------------------------------
(* Blocks and groups of a row. *)

\* Quotient and remainder.
LEMMA Division ==
  ASSUME NEW a \in Nat, NEW d \in Nat \ {0}
  PROVE  /\ a \div d \in Nat /\ a % d \in 0 .. d - 1
         /\ a = d * (a \div d) + (a % d)
OBVIOUS

\* Multiplication by a natural number is monotone.
LEMMA MulMono ==
  ASSUME NEW a \in Nat, NEW y \in Int, NEW z \in Int, y <= z
  PROVE  a * y <= a * z
OBVIOUS

\* The smaller of two.
LEMMA MinTwo ==
  ASSUME NEW a \in Int, NEW b \in Int
  PROVE  Min({a, b}) = IF a <= b THEN a ELSE b
<1>1. Min({a, b}) = CHOOSE z \in {a, b} : \A y \in {a, b} : z =< y
  BY Zenon DEF Min
<1>2. \E z \in {a, b} : \A y \in {a, b} : z =< y
  OBVIOUS
<1>3. Min({a, b}) \in {a, b} /\ \A y \in {a, b} : Min({a, b}) =< y
  BY <1>1, <1>2
<1>4. QED
  BY <1>3

\* One pair of rows and a column, as the code has them: an int8 per activation, a weight
\* that is plus or minus the scale of its group.
IsInput(x) ==
  /\ x.k \in Nat /\ DOMAIN x.w \subseteq Row
  /\ \A r \in DOMAIN x.w : \A i \in 0 .. x.k - 1 :
       /\ x.w[r][i] \in Int
       /\ \A n \in 0 .. x.k - 1 : n \div WGROUP = i \div WGROUP => Abs(x.w[r][n]) = Abs(x.w[r][i])
  /\ \A i \in 0 .. x.k - 1 : x.q[i] \in Act /\ x.scales[i \div ABLOCK] \in Int

\* How many activation blocks a row has.
NumBlocks(x) == CeilDiv(x.k, ABLOCK)

\* Where block b ends.
Edge(x, b) == IF b * ABLOCK <= x.k THEN b * ABLOCK ELSE x.k

\* The blocks cover the row, the last one possibly in part.
LEMMA BlockCount ==
  ASSUME NEW x, x.k \in Nat
  PROVE  /\ NumBlocks(x) \in Nat /\ Edge(x, 0) = 0 /\ Edge(x, NumBlocks(x)) = x.k
         /\ \A b \in 0 .. NumBlocks(x) : Edge(x, b) \in 0 .. x.k
         /\ \A b \in 1 .. NumBlocks(x) : Edge(x, b - 1) = (b - 1) * ABLOCK /\ (b - 1) * ABLOCK < x.k
<1>. DEFINE A == ABLOCK
            k == x.k
            N == NumBlocks(x)
<1>0. A \in Nat \ {0} /\ k \in Nat
  BY BlockAssumption
<1>1. N = (k + A - 1) \div A
  BY DEF NumBlocks, CeilDiv
<1>. HIDE DEF A, k, N
<1>2. PICK y \in Nat : y = k + A - 1
  BY <1>0
<1>3. PICK t \in 0 .. A - 1 : N \in Nat /\ y = A * N + t
  BY <1>0, <1>1, <1>2, Division
<1>4. A * N >= k /\ (A * N = k \/ A * N > k) /\ N * A = A * N
  <2>1. PICK M \in Int : M = A * N
    BY <1>0, <1>3
  <2>2. QED
    BY ONLY <1>0, <1>2, <1>3, <2>1
<1>5. ASSUME NEW b \in 1 .. N PROVE (b - 1) * A < k /\ (b - 1) * A \in Nat
  <2>1. A * b <= A * N
    BY <1>0, <1>3, MulMono
  <2>2. (b - 1) * A = A * b - A
    BY <1>0, <1>3
  <2>3. PICK B \in Int : B = A * b
    BY <1>0, <1>3
  <2>4. PICK M \in Int : M = A * N
    BY <1>0, <1>3
  <2>5. B - A < k
    BY ONLY <1>0, <1>2, <1>3, <2>1, <2>3, <2>4
  <2>6. (b - 1) * A \in Nat
    BY <1>0, <1>3
  <2>7. QED
    BY <2>2, <2>3, <2>5, <2>6
<1>6. \A b \in Nat : b * A \in Nat
  BY <1>0
<1>7. N \in Nat
  BY <1>3
<1>8. 0 * A = 0 /\ 0 <= k
  BY <1>0
<1>9. Edge(x, 0) = 0
  BY <1>8 DEF Edge, A, k
<1>10. Edge(x, N) = k
  <2>1. Edge(x, N) = IF N * A <= k THEN N * A ELSE k
    BY DEF Edge, A, k
  <2>2. PICK M \in Int : M = N * A
    BY <1>0, <1>3
  <2>3. M >= k
    BY <1>4, <2>2
  <2>4. Edge(x, N) = IF M <= k THEN M ELSE k
    BY <2>1, <2>2
  <2>5. QED
    BY <1>0, <2>2, <2>3, <2>4
<1>11. \A b \in 0 .. N : Edge(x, b) \in 0 .. k
  <2>1. SUFFICES ASSUME NEW b \in 0 .. N PROVE Edge(x, b) \in 0 .. k
    OBVIOUS
  <2>2. Edge(x, b) = IF b * A <= k THEN b * A ELSE k
    BY DEF Edge, A, k
  <2>3. b * A \in Nat
    BY <1>6, <1>7
  <2>4. QED
    BY <1>0, <2>2, <2>3
<1>12. \A b \in 1 .. N : Edge(x, b - 1) = (b - 1) * A /\ (b - 1) * A < k
  <2>1. SUFFICES ASSUME NEW b \in 1 .. N PROVE Edge(x, b - 1) = (b - 1) * A /\ (b - 1) * A < k
    OBVIOUS
  <2>2. Edge(x, b - 1) = IF (b - 1) * A <= k THEN (b - 1) * A ELSE k
    BY DEF Edge, A, k
  <2>3. QED
    BY <1>0, <1>5, <2>2
<1>13. QED
  BY <1>7, <1>9, <1>10, <1>11, <1>12 DEF A, k, N

\* A block lies within its group.
LEMMA BlockFacts ==
  ASSUME NEW x, x.k \in Nat, NEW b \in 1 .. NumBlocks(x), NEW q8, q8 = (b - 1) * ABLOCK
  PROVE  /\ q8 \in Nat /\ q8 < x.k
         /\ BlockEnd(x, q8) = Edge(x, b) /\ Edge(x, b) \in Nat /\ q8 < Edge(x, b)
         /\ Edge(x, b) <= x.k /\ Edge(x, b) <= q8 + ABLOCK
         /\ GroupStart(q8) \in Nat /\ GroupStart(q8) <= q8
         /\ GroupEnd(x, q8) \in Nat /\ Edge(x, b) <= GroupEnd(x, q8) /\ GroupEnd(x, q8) <= x.k
         /\ \A i \in Nat : GroupStart(q8) <= i /\ i < GroupEnd(x, q8) => i \div WGROUP = q8 \div WGROUP
         /\ \A i \in Nat : q8 <= i /\ i < Edge(x, b) => i \div ABLOCK = b - 1
         /\ q8 \div ABLOCK = b - 1
<1>. DEFINE A == ABLOCK
            W == WGROUP
            k == x.k
            g == q8 \div W
            gs == GroupStart(q8)
            ge == GroupEnd(x, q8)
            be == Edge(x, b)
<1>0. A \in Nat \ {0} /\ W \in Nat \ {0} /\ W % A = 0 /\ k \in Nat
  BY BlockAssumption
<1>1. NumBlocks(x) \in Nat /\ q8 = (b - 1) * A /\ q8 < k /\ be \in 0 .. k /\ b \in Nat /\ b >= 1
  <2>1. NumBlocks(x) \in Nat
    BY BlockCount
  <2>2. b \in 0 .. NumBlocks(x) /\ b \in Nat /\ b >= 1
    BY <2>1
  <2>3. QED
    BY <2>1, <2>2, BlockCount
<1>2. gs = g * W
  BY DEF GroupStart
<1>3. ge = Min({gs + W, k})
  BY DEF GroupEnd
<1>4. BlockEnd(x, q8) = Min({q8 + A, ge})
  BY DEF BlockEnd
<1>5. be = IF b * A <= k THEN b * A ELSE k
  BY DEF Edge
<1>. HIDE DEF A, W, k, g, gs, ge, be
<1>6. q8 \in Nat
  BY <1>0, <1>1
<1>7. g \in Nat /\ q8 % W \in 0 .. W - 1 /\ q8 = W * g + (q8 % W)
  BY <1>0, <1>6, Division DEF g
<1>8. gs \in Nat /\ gs = W * g /\ gs <= q8 /\ q8 < gs + W
  <2>1. gs \in Nat /\ gs = W * g
    BY <1>0, <1>2, <1>7
  <2>2. QED
    BY ONLY <1>6, <1>7, <2>1, <1>0
<1>9. q8 + A <= gs + W
  <2>1. PICK c \in Nat : W = A * c
    <3>1. W \div A \in Nat /\ W = A * (W \div A) + (W % A)
      BY <1>0, Division
    <3>2. PICK c \in Nat : c = W \div A
      BY <3>1
    <3>3. W = A * c
      BY ONLY <1>0, <3>1, <3>2
    <3>4. QED
      BY <3>3
  <2>2. PICK e \in Int : e = b - 1 - c * g
    BY <1>1, <1>7
  <2>3. A * (c * g) = (A * c) * g
    BY ONLY <1>0, <1>7
  <2>4. W * g = (A * c) * g
    BY <2>1
  <2>5. c * g \in Int /\ A * (b - 1 - c * g) = A * (b - 1) - A * (c * g) /\ (b - 1) * A = A * (b - 1)
    <3>1. PICK z \in Int : z = c * g
      BY <1>7
    <3>2. A * (b - 1 - z) = A * (b - 1) - A * z
      BY ONLY <1>0, <1>1, <3>1
    <3>3. (b - 1) * A = A * (b - 1)
      BY <1>0, <1>1
    <3>4. QED
      BY <3>1, <3>2, <3>3
  <2>6. A * e = q8 - gs
    BY <1>1, <1>8, <2>2, <2>3, <2>4, <2>5
  <2>7. A * e < A * c
    <3>1. q8 - gs < W
      BY <1>0, <1>6, <1>8
    <3>2. QED
      BY <2>1, <2>6, <3>1
  <2>8. e < c
    <3>1. SUFFICES ASSUME c <= e PROVE FALSE
      OBVIOUS
    <3>2. A * c <= A * e
      BY <1>0, <3>1, MulMono
    <3>3. A * c \in Int /\ A * e \in Int
      BY <1>0
    <3>4. QED
      BY ONLY <2>7, <3>2, <3>3
  <2>9. e + 1 <= c
    BY <2>8
  <2>10. A * (e + 1) <= A * c
    BY <1>0, <2>9, MulMono
  <2>11. A * (e + 1) = A * e + A
    BY <1>0
  <2>12. QED
    BY <1>0, <1>6, <1>8, <2>1, <2>6, <2>10, <2>11
<1>10. q8 + A = b * A
  BY <1>0, <1>1
<1>11. ge = (IF gs + W <= k THEN gs + W ELSE k) /\ ge \in Nat /\ ge <= k
  <2>1. gs + W \in Int
    BY <1>0, <1>8
  <2>2. ge = (IF gs + W <= k THEN gs + W ELSE k)
    BY <1>0, <1>3, <2>1, MinTwo
  <2>3. QED
    BY <1>0, <1>8, <2>2
<1>12. BlockEnd(x, q8) = IF q8 + A <= ge THEN q8 + A ELSE ge
  <2>1. q8 + A \in Int /\ ge \in Int
    BY <1>0, <1>6, <1>11
  <2>2. QED
    BY <1>4, <2>1, MinTwo
<1>13. be = IF q8 + A <= k THEN q8 + A ELSE k
  BY <1>5, <1>10
<1>14. BlockEnd(x, q8) = be /\ be \in Nat /\ q8 < be /\ be <= k /\ be <= q8 + A /\ be <= ge
  BY <1>0, <1>1, <1>6, <1>8, <1>9, <1>11, <1>12, <1>13
<1>15. ASSUME NEW i \in Nat, gs <= i, i < ge PROVE i \div W = g
  <2>1. i - gs \in 0 .. W - 1
    BY <1>0, <1>8, <1>11, <1>15
  <2>2. i = W * g + (i - gs)
    BY <1>8
  <2>3. i \in Int /\ g \in Int /\ W \in Nat \ {0}
    BY <1>0, <1>7
  <2>4. QED
    BY ONLY <2>1, <2>2, <2>3, RemainderUnique
<1>16. ASSUME NEW i \in Nat, q8 <= i, i < be PROVE i \div A = b - 1
  <2>1. i - q8 \in 0 .. A - 1
    BY <1>0, <1>6, <1>14, <1>16
  <2>2. i = A * (b - 1) + (i - q8) /\ b - 1 \in Int
    BY <1>0, <1>1, <1>6
  <2>3. i \in Int /\ A \in Nat \ {0}
    BY <1>0
  <2>4. QED
    BY ONLY <2>1, <2>2, <2>3, RemainderUnique
<1>17. q8 \div A = b - 1
  BY <1>6, <1>14, <1>16
<1>18. QED
  BY <1>1, <1>6, <1>8, <1>11, <1>14, <1>15, <1>16, <1>17 DEF A, W, k, g, gs, ge, be

\* The mean of a group whose weights are all plus or minus its scale is that scale.
LEMMA MeanIs ==
  ASSUME NEW w, NEW from \in Int, NEW to \in Int, from < to, NEW m \in Nat,
         \A i \in from .. to - 1 : Abs(w[i]) = m
  PROVE  WeightGroupScale(w, from, to) = m
<1>. DEFINE n == to - from
            f == [i \in from .. to - 1 |-> Abs(w[i])]
            g == [j \in 0 .. n |-> j * m]
<1>1. n \in Nat \ {0} /\ to - 1 = from + n - 1
  OBVIOUS
<1>2. \A j \in 1 .. n : f[from + j - 1] = m
  <2>1. SUFFICES ASSUME NEW j \in 1 .. n PROVE f[from + j - 1] = m
    OBVIOUS
  <2>2. from + j - 1 \in from .. to - 1
    OBVIOUS
  <2>3. QED
    BY <2>2
<1>3. WeightGroupScale(w, from, to) = SumOver(from, to - 1, f) \div n
  BY DEF WeightGroupScale
<1>. HIDE DEF n, f
<1>4. \A j \in 0 .. n : j \in Nat /\ g[j] = j * m
  BY <1>1
<1>5. /\ g[0] = 0 /\ \A j \in 0 .. n : g[j] \in Int
  <2>1. 0 \in 0 .. n /\ 0 * m = 0
    BY <1>1
  <2>2. \A j \in Nat : j * m \in Int
    OBVIOUS
  <2>3. QED
    BY <1>4, <2>1, <2>2
<1>6. \A j \in 1 .. n : g[j] = g[j - 1] + f[from + j - 1]
  <2>1. SUFFICES ASSUME NEW j \in 1 .. n PROVE g[j] = g[j - 1] + f[from + j - 1]
    OBVIOUS
  <2>2. j \in 0 .. n /\ j - 1 \in 0 .. n
    BY <1>1
  <2>3. g[j] = j * m /\ g[j - 1] = (j - 1) * m
    BY <1>4, <2>2
  <2>4. j * m = (j - 1) * m + m
    BY <1>1
  <2>5. QED
    BY <1>2, <2>3, <2>4
<1>. HIDE DEF g
<1>7. SumOver(from, to - 1, f) = g[n]
  <2>1. n \in Nat
    BY <1>1
  <2>2. PICK hi : hi = to - 1
    OBVIOUS
  <2>3. hi = from + n - 1 /\ from \in Int
    BY <1>1, <2>2
  <2>4. SumOver(from, hi, f) = g[n]
    <3>1. PartialSums(from, n, f, g)
      BY <1>5, <1>6, <2>1, <2>3 DEF PartialSums
    <3>2. QED
      BY <2>3, <3>1, SumIs
  <2>5. QED
    BY <2>2, <2>4
<1>8. g[n] = n * m + 0
  BY <1>1, <1>4
<1>9. (n * m + 0) \div n = m
  <2>1. n * m + 0 \in Int /\ 0 \in 0 .. n - 1 /\ m \in Int
    BY <1>1
  <2>2. QED
    BY ONLY <1>1, <2>1, RemainderUnique
<1>10. QED
  BY <1>3, <1>7, <1>8, <1>9

\* weight_group_scale is the magnitude of every weight of the block.
LEMMA ScaleExact ==
  ASSUME NEW x, IsInput(x), NEW b \in 1 .. NumBlocks(x), NEW q8, q8 = (b - 1) * ABLOCK,
         NEW r \in DOMAIN x.w, NEW i \in Nat, q8 <= i, i < Edge(x, b)
  PROVE  DW(x, r, q8) = Abs(x.w[r][i]) /\ DW(x, r, q8) \in Nat /\ x.w[r][i] \in Int
<1>. DEFINE gs == GroupStart(q8)
            ge == GroupEnd(x, q8)
            w == x.w[r]
            m == Abs(w[i])
<1>0. x.k \in Nat
  BY DEF IsInput
<1>1. /\ q8 \in Nat /\ Edge(x, b) \in Nat /\ Edge(x, b) <= x.k
      /\ gs \in Nat /\ gs <= q8 /\ ge \in Nat /\ Edge(x, b) <= ge /\ ge <= x.k
      /\ \A n \in Nat : gs <= n /\ n < ge => n \div WGROUP = q8 \div WGROUP
  BY <1>0, BlockFacts
<1>2. DW(x, r, q8) = WeightGroupScale(w, gs, ge)
  BY DEF DW, HasRow
<1>3. \A j \in 0 .. x.k - 1 :
        /\ w[j] \in Int
        /\ \A n \in 0 .. x.k - 1 : n \div WGROUP = j \div WGROUP => Abs(w[n]) = Abs(w[j])
  BY DEF IsInput
<1>. HIDE DEF gs, ge, w
<1>4. i \in 0 .. x.k - 1 /\ gs <= i /\ i < ge
  BY <1>0, <1>1
<1>5. w[i] \in Int
  BY <1>3, <1>4
<1>6. m \in Nat
  BY <1>5 DEF Abs
<1>7. \A n \in gs .. ge - 1 : Abs(w[n]) = m
  <2>1. SUFFICES ASSUME NEW n \in gs .. ge - 1 PROVE Abs(w[n]) = m
    OBVIOUS
  <2>2. n \in Nat /\ gs <= n /\ n < ge /\ n \in 0 .. x.k - 1
    BY <1>0, <1>1
  <2>3. n \div WGROUP = i \div WGROUP
    BY <1>1, <1>4, <2>2
  <2>4. QED
    BY <1>3, <1>4, <2>2, <2>3
<1>8. gs < ge /\ gs \in Int /\ ge \in Int
  BY <1>1, <1>4
<1>. HIDE DEF m
<1>9. WeightGroupScale(w, gs, ge) = m
  BY <1>6, <1>7, <1>8, MeanIs
<1>10. QED
  BY <1>2, <1>5, <1>6, <1>9 DEF m, w

-----------------------------------------------------------------------------
(* The activations of a row, with the signs of its weights, and their partial sums. *)

Signed(x, r, i) == IF HasRow(x, r) /\ x.w[r][i] >= 0 THEN x.q[i] ELSE -x.q[i]

\* g[i] is the sum of the first i of them.
SignedSums(x, r, g) ==
  /\ g \in [0 .. x.k -> Int] /\ g[0] = 0
  /\ \A i \in 1 .. x.k : g[i] = g[i - 1] + Signed(x, r, i - 1)

\* The partial sums of a row's signed activations.
LEMMA SignedSumsExist ==
  ASSUME TwoByTwo, NEW x, IsInput(x), NEW r \in Row
  PROVE  \E g : SignedSums(x, r, g)
<1>. DEFINE f == [i \in 1 .. x.k |-> Signed(x, r, i - 1)]
<1>1. x.k \in Nat
  BY DEF IsInput
<1>2. \A i \in 1 .. x.k : Signed(x, r, i - 1) \in Int
  <2>1. SUFFICES ASSUME NEW i \in 1 .. x.k PROVE Signed(x, r, i - 1) \in Int
    OBVIOUS
  <2>2. i - 1 \in 0 .. x.k - 1
    BY <1>1
  <2>3. x.q[i - 1] \in Act
    BY <2>2 DEF IsInput
  <2>4. x.q[i - 1] \in Int
    BY <2>3, TwoFacts
  <2>5. QED
    BY <2>4 DEF Signed
<1>3. \A i \in 1 .. x.k : f[i] = Signed(x, r, i - 1) /\ f[i] \in Int
  BY <1>2
<1>. HIDE DEF f
<1>4. PICK g \in [0 .. x.k -> Int] : g[0] = 0 /\ \A i \in 1 .. x.k : g[i] = g[i - 1] + f[i]
  <2>1. PICK k \in Nat : k = x.k
    BY <1>1
  <2>2. \E g \in [0 .. k -> Int] : g[0] = 0 /\ \A i \in 1 .. k : g[i] = g[i - 1] + f[i]
    BY <1>3, <2>1, PrefixSums
  <2>3. QED
    BY <2>1, <2>2
<1>5. QED
  BY <1>3, <1>4 DEF SignedSums

\* They change by an int8 at a time.
LEMMA SumsSpread ==
  ASSUME TwoByTwo, NEW x, IsInput(x), NEW r \in Row, NEW g, SignedSums(x, r, g),
         NEW a \in 0 .. x.k, NEW n \in Nat, a + n <= x.k
  PROVE  -(128 * n) <= g[a + n] - g[a] /\ g[a + n] - g[a] <= 128 * n
<1>1. x.k \in Nat /\ g \in [0 .. x.k -> Int] /\ \A i \in 1 .. x.k : g[i] = g[i - 1] + Signed(x, r, i - 1)
  BY DEF IsInput, SignedSums
<1>. DEFINE e == [j \in 0 .. n |-> g[a + j]]
            S == [j \in 0 .. n |-> {z \in Int : -(128 * j) <= z - g[a] /\ z - g[a] <= 128 * j}]
<1>2. \A j \in 0 .. n : a + j \in 0 .. x.k /\ e[j] = g[a + j] /\ e[j] \in Int
                        /\ S[j] = {z \in Int : -(128 * j) <= z - g[a] /\ z - g[a] <= 128 * j}
  <2>1. \A j \in 0 .. n : a + j \in 0 .. x.k
    BY <1>1
  <2>2. \A j \in 0 .. n : e[j] = g[a + j]
    OBVIOUS
  <2>3. \A j \in 0 .. n : S[j] = {z \in Int : -(128 * j) <= z - g[a] /\ z - g[a] <= 128 * j}
    BY Zenon
  <2>4. \A i \in 0 .. x.k : g[i] \in Int
    BY <1>1
  <2>5. QED
    BY <2>1, <2>2, <2>3, <2>4
<1>. HIDE DEF e, S
<1>3. g[a] \in Int
  BY <1>1
<1>4. e[0] \in S[0]
  <2>1. 0 \in 0 .. n /\ a + 0 = a
    OBVIOUS
  <2>2. e[0] = g[a]
    BY <1>2, <2>1
  <2>3. QED
    BY <1>2, <1>3, <2>1, <2>2
<1>5. \A j \in 1 .. n : e[j - 1] \in S[j - 1] => e[j] \in S[j]
  <2>1. SUFFICES ASSUME NEW j \in 1 .. n, e[j - 1] \in S[j - 1] PROVE e[j] \in S[j]
    OBVIOUS
  <2>2. /\ j \in 0 .. n /\ j - 1 \in 0 .. n /\ (a + j) - 1 = a + (j - 1) /\ a + j \in 1 .. x.k
        /\ (a + j) - 1 \in 0 .. x.k - 1
    BY <1>1
  <2>3. e[j] = e[j - 1] + Signed(x, r, (a + j) - 1)
    BY <1>1, <1>2, <2>2
  <2>4. -128 <= Signed(x, r, (a + j) - 1) /\ Signed(x, r, (a + j) - 1) <= 128 /\ Signed(x, r, (a + j) - 1) \in Int
    <3>1. x.q[(a + j) - 1] \in Act
      BY <2>2 DEF IsInput
    <3>2. PICK y \in Int : y = x.q[(a + j) - 1] /\ -128 <= y /\ y <= 127
      BY <3>1, TwoFacts
    <3>3. Signed(x, r, (a + j) - 1) = y \/ Signed(x, r, (a + j) - 1) = -y
      BY <3>2 DEF Signed
    <3>4. QED
      BY <3>2, <3>3
  <2>5. PICK d \in Int : d = Signed(x, r, (a + j) - 1)
    BY <2>4
  <2>6. e[j - 1] \in Int /\ -(128 * (j - 1)) <= e[j - 1] - g[a] /\ e[j - 1] - g[a] <= 128 * (j - 1)
    BY <1>2, <2>1, <2>2
  <2>7. e[j] \in Int /\ -(128 * j) <= e[j] - g[a] /\ e[j] - g[a] <= 128 * j
    BY <1>3, <2>3, <2>4, <2>5, <2>6
  <2>8. QED
    BY <1>2, <2>2, <2>7
<1>6. \A j \in 0 .. n : e[j] \in S[j]
  BY <1>4, <1>5, IterationStays
<1>7. n \in 0 .. n
  OBVIOUS
<1>8. QED
  BY <1>2, <1>6, <1>7

-----------------------------------------------------------------------------
(* The tiles of a block. *)

\* Where tile t starts, or the block ends.
Upto(x, q8, t) == IF q8 + 2 * t <= BlockEnd(x, q8) THEN q8 + 2 * t ELSE BlockEnd(x, q8)

\* q8 starts a block of x.
IsBlock(x, q8) == \E b \in 1 .. NumBlocks(x) : q8 = (b - 1) * ABLOCK

\* A block has at least one tile, and tiles for all its elements.
LEMMA BlockRange ==
  ASSUME TwoByTwo, NEW x, IsInput(x), NEW q8, IsBlock(x, q8)
  PROVE  /\ x.k \in Nat /\ q8 \in Nat /\ BlockEnd(x, q8) \in Nat /\ q8 < BlockEnd(x, q8)
         /\ BlockEnd(x, q8) <= x.k /\ BlockEnd(x, q8) <= q8 + ABLOCK
         /\ NumTiles(x, q8) \in Nat \ {0}
         /\ \A t \in Nat : t < NumTiles(x, q8) <=> q8 + 2 * t < BlockEnd(x, q8)
<1>1. x.k \in Nat
  BY DEF IsInput
<1>2. PICK b \in 1 .. NumBlocks(x) : q8 = (b - 1) * ABLOCK
  BY DEF IsBlock
<1>3. PICK be : be = BlockEnd(x, q8)
  OBVIOUS
<1>4. q8 \in Nat /\ be \in Nat /\ q8 < be /\ be <= x.k /\ be <= q8 + ABLOCK
  BY <1>1, <1>2, <1>3, BlockFacts
<1>5. NumTiles(x, q8) = (be - q8 + 2 - 1) \div 2
  BY <1>3 DEF NumTiles, CeilDiv, TwoByTwo
<1>6. PICK n \in Nat : n = be - q8 /\ n > 0
  BY <1>4
<1>7. NumTiles(x, q8) = (n + 1) \div 2
  <2>1. be - q8 + 2 - 1 = n + 1
    BY <1>4, <1>6
  <2>2. QED
    BY <1>5, <2>1
<1>8. NumTiles(x, q8) \in Nat \ {0}
  BY ONLY <1>6, <1>7
<1>9. \A t \in Nat : t < (n + 1) \div 2 <=> 2 * t < n
  BY ONLY <1>6
<1>10. \A t \in Nat : 2 * t < n <=> q8 + 2 * t < be
  BY <1>4, <1>6
<1>11. QED
  BY <1>1, <1>3, <1>4, <1>7, <1>8, <1>9, <1>10

\* The negation of zero.
LEMMA NegZero ==
  ASSUME NEW z \in Int, z = 0
  PROVE  -z = 0
<1>1. -z \in Int /\ -z <= 0 /\ -z >= 0
  OBVIOUS
<1>2. PICK y \in Int : y = -z
  BY <1>1
<1>3. y = 0
  BY ONLY <1>1, <1>2
<1>4. QED
  BY <1>2, <1>3

\* A tile of a block: a legal operation whose dot product is the signed sum of its lanes.
LEMMA TileFacts ==
  ASSUME TwoByTwo, NEW x, IsInput(x), NEW q8, IsBlock(x, q8), NEW t \in Nat, t < NumTiles(x, q8)
  PROVE  /\ TileOp(x, q8, t) \in OpSet
         /\ TileOp(x, q8, t).starts_run <=> t = 0
         /\ TileOp(x, q8, t).ends_run <=> t = NumTiles(x, q8) - 1
         /\ \A r \in Row : \A g : SignedSums(x, r, g) =>
              TileDot(TileOp(x, q8, t), r) = g[Upto(x, q8, t + 1)] - g[Upto(x, q8, t)]
<1>. DEFINE op == TileOp(x, q8, t)
            be == BlockEnd(x, q8)
            K(lane) == q8 + t * COLS + lane
            Wt == [r \in Row |-> [lane \in Col |->
                     IF K(lane) < be /\ HasRow(x, r) /\ x.w[r][K(lane)] >= 0 THEN 1 ELSE 0]]
            Ac == [lane \in Col |-> IF K(lane) < be THEN x.q[K(lane)] ELSE 0]
<1>1. /\ op.weights = Wt /\ op.acts = Ac /\ op.starts_run = (t = 0) /\ op.ends_run = (t = NumTiles(x, q8) - 1)
      /\ op = [weights |-> Wt, acts |-> Ac, seeds |-> [r \in Row |-> 0],
               starts_run |-> t = 0, ends_run |-> t = NumTiles(x, q8) - 1]
  BY DEF TileOp
<1>2. Row = 0 .. 1 /\ Col = 0 .. 1 /\ COLS = 2 /\ 0 \in Act /\ \A a \in Act : a \in Int
  BY TwoFacts DEF TwoByTwo
<1>3. /\ x.k \in Nat /\ q8 \in Nat /\ be \in Nat /\ be <= x.k /\ q8 + 2 * t < be
  BY BlockRange
<1>. HIDE DEF op, be
<1>4. K(0) = q8 + 2 * t /\ K(1) = q8 + 2 * t + 1
  BY <1>2, <1>3
<1>5. \A i \in Nat : i < be => x.q[i] \in Act
  <2>1. \A i \in Nat : i < be => i \in 0 .. x.k - 1
    BY <1>3
  <2>2. QED
    BY <2>1 DEF IsInput
<1>6. \A lane \in Col : K(lane) \in Nat
  BY <1>2, <1>3
<1>7. Ac \in [Col -> Act]
  BY <1>2, <1>5, <1>6
<1>8. Wt \in [Row -> [Col -> Bit]]
  BY DEF Bit
<1>9. \A l \in Col : Ac[l] = IF K(l) < be THEN x.q[K(l)] ELSE 0
  OBVIOUS
<1>10. \A r \in Row : \A l \in Col : Wt[r][l] = IF K(l) < be /\ HasRow(x, r) /\ x.w[r][K(l)] >= 0 THEN 1 ELSE 0
  OBVIOUS
<1>11. op \in OpSet
  <2>. HIDE DEF Wt, Ac, K
  <2>1. [r \in Row |-> 0] \in [Row -> {0}] /\ (t = 0) \in BOOLEAN /\ (t = NumTiles(x, q8) - 1) \in BOOLEAN
    OBVIOUS
  <2>2. QED
    BY <1>1, <1>7, <1>8, <2>1 DEF OpSet
<1>12. ASSUME NEW r \in Row, NEW g, SignedSums(x, r, g)
       PROVE  TileDot(op, r) = g[Upto(x, q8, t + 1)] - g[Upto(x, q8, t)]
  <2>1. TileDot(op, r) = Contrib(op.weights[r][0], op.acts[0]) + Contrib(op.weights[r][1], op.acts[1])
    BY <1>11, OpDot
  <2>2. ASSUME NEW l \in Col, K(l) < be PROVE Contrib(op.weights[r][l], op.acts[l]) = Signed(x, r, K(l))
                                             /\ Signed(x, r, K(l)) \in Int
    <3>. HIDE DEF Wt, Ac
    <3>1. op.acts[l] = x.q[K(l)] /\ x.q[K(l)] \in Int
      BY <1>1, <1>2, <1>5, <1>6, <1>9, <2>2
    <3>2. op.weights[r][l] = IF HasRow(x, r) /\ x.w[r][K(l)] >= 0 THEN 1 ELSE 0
      BY <1>1, <1>10, <2>2
    <3>. HIDE DEF K
    <3>3. QED
      BY <3>1, <3>2 DEF Contrib, Signed
  <2>3. ASSUME NEW l \in Col, ~(K(l) < be) PROVE Contrib(op.weights[r][l], op.acts[l]) = 0
    <3>. HIDE DEF Wt, Ac
    <3>1. op.acts[l] = 0
      BY <1>1, <1>9, <2>3
    <3>2. PICK a \in Int : a = op.acts[l] /\ a = 0
      BY <3>1
    <3>3. -a = 0
      BY <3>2, NegZero
    <3>4. QED
      BY <3>2, <3>3, Zenon DEF Contrib
  <2>4. /\ g \in [0 .. x.k -> Int]
        /\ \A i \in 1 .. x.k : g[i] = g[i - 1] + Signed(x, r, i - 1)
    BY <1>12 DEF SignedSums
  <2>. DEFINE a == q8 + 2 * t
  <2>5. a \in Nat /\ a < be /\ a <= x.k /\ a + 1 \in 1 .. x.k /\ (a + 1) - 1 = a
    BY <1>3
  <2>6. g[a + 1] = g[a] + Signed(x, r, a) /\ g[a] \in Int /\ g[a + 1] \in Int
    BY <2>4, <2>5
  <2>7. Contrib(op.weights[r][0], op.acts[0]) = Signed(x, r, a) /\ Signed(x, r, a) \in Int
    <3>1. 0 \in Col /\ K(0) = a /\ K(0) < be
      BY <1>2, <1>4, <2>5
    <3>2. QED
      BY <2>2, <3>1
  <2>8. Upto(x, q8, t) = a
    BY <1>3, <2>5 DEF Upto, be
  <2>9. CASE a + 1 < be
    <3>1. K(1) = a + 1 /\ 1 \in Col /\ K(1) < be
      BY <1>2, <1>4, <2>9
    <3>2. Contrib(op.weights[r][1], op.acts[1]) = Signed(x, r, a + 1) /\ Signed(x, r, a + 1) \in Int
      BY <2>2, <3>1
    <3>3. a + 2 \in 1 .. x.k /\ (a + 2) - 1 = a + 1 /\ q8 + 2 * (t + 1) = a + 2 /\ a + 2 <= be
      BY <1>3, <2>5, <2>9
    <3>4. g[a + 2] = g[a + 1] + Signed(x, r, a + 1) /\ g[a + 2] \in Int
      BY <2>4, <3>3
    <3>5. Upto(x, q8, t + 1) = a + 2
      BY <3>3 DEF Upto, be
    <3>. HIDE DEF a
    <3>6. TileDot(op, r) = g[a + 2] - g[a]
      BY <2>1, <2>6, <2>7, <3>2, <3>4
    <3>7. QED
      BY <2>8, <3>5, <3>6
  <2>10. CASE ~(a + 1 < be)
    <3>1. K(1) = a + 1 /\ 1 \in Col /\ ~(K(1) < be) /\ be = a + 1
      BY <1>2, <1>3, <1>4, <2>5, <2>10
    <3>2. Contrib(op.weights[r][1], op.acts[1]) = 0
      BY <2>3, <3>1
    <3>3. q8 + 2 * (t + 1) = a + 2 /\ ~(a + 2 <= be)
      BY <1>3, <2>5, <3>1
    <3>4. Upto(x, q8, t + 1) = a + 1
      BY <3>1, <3>3 DEF Upto, be
    <3>. HIDE DEF a
    <3>5. TileDot(op, r) = g[a + 1] - g[a]
      BY <2>1, <2>6, <2>7, <3>2
    <3>6. QED
      BY <2>8, <3>4, <3>5
  <2>11. QED
    BY <2>9, <2>10
<1>13. (op.starts_run <=> t = 0) /\ (op.ends_run <=> t = NumTiles(x, q8) - 1)
  BY DEF TileOp, op
<1>14. QED
  BY <1>11, <1>12, <1>13 DEF op

\* The tiles of a block follow place o of a plan.
TilesAt(x, q8, P, o) ==
  /\ o \in Nat /\ o + NumTiles(x, q8) <= Len(P)
  /\ \A k \in 1 .. NumTiles(x, q8) : P[o + k] = TileOp(x, q8, k - 1)

\* The run of a block, wherever the plan has it.
LEMMA BlockRun ==
  ASSUME TwoByTwo, NEW x, IsInput(x), NEW q8, IsBlock(x, q8), NEW P \in Seq(OpSet), NEW o,
         TilesAt(x, q8, P, o), NEW r \in Row, NEW g, SignedSums(x, r, g), NEW k0 \in 1 .. NumTiles(x, q8)
  PROVE  RunSums(P, r)[o + k0] = g[Upto(x, q8, k0)] - g[q8]
<1>. DEFINE n == NumTiles(x, q8)
            R == RunSums(P, r)
            e == [j \in 0 .. n |-> IF j = 0 THEN 0 ELSE R[o + j]]
            S == [j \in 0 .. n |-> {g[Upto(x, q8, j)] - g[q8]}]
<1>0. /\ n \in Nat \ {0} /\ x.k \in Nat /\ q8 \in Nat /\ BlockEnd(x, q8) \in Nat /\ q8 < BlockEnd(x, q8)
      /\ BlockEnd(x, q8) <= x.k /\ Len(P) \in Nat
  BY BlockRange
<1>t. o \in Nat /\ o + n <= Len(P) /\ \A k \in 1 .. n : P[o + k] = TileOp(x, q8, k - 1)
  BY DEF TilesAt
<1>1. /\ \A k \in 0 .. Len(P) : R[k] \in Int
      /\ \A k \in 1 .. Len(P) : R[k] = (IF P[k].starts_run THEN 0 ELSE R[k - 1]) + TileDot(P[k], r)
  BY RunSumSteps
<1>2. /\ \A j \in 0 .. n : S[j] = {g[Upto(x, q8, j)] - g[q8]}
      /\ \A j \in 0 .. n : e[j] = IF j = 0 THEN 0 ELSE R[o + j]
  BY Zenon
<1>3. g \in [0 .. x.k -> Int]
  BY DEF SignedSums
<1>4. \A j \in Nat : Upto(x, q8, j) \in 0 .. x.k
  BY <1>0 DEF Upto
<1>5. Upto(x, q8, 0) = q8 /\ q8 \in 0 .. x.k
  BY <1>0 DEF Upto
<1>n. k0 \in 1 .. n /\ n = NumTiles(x, q8)
  OBVIOUS
<1>. HIDE DEF R, e, S, n
<1>6. e[0] \in S[0]
  <2>1. 0 \in 0 .. n
    BY <1>0
  <2>2. e[0] = 0 /\ S[0] = {g[q8] - g[q8]}
    BY <1>2, <1>5, <2>1
  <2>3. g[q8] - g[q8] = 0
    BY <1>3, <1>5
  <2>4. QED
    BY <2>2, <2>3
<1>7. \A j \in 1 .. n : e[j - 1] \in S[j - 1] => e[j] \in S[j]
  <2>1. SUFFICES ASSUME NEW j \in 1 .. n, e[j - 1] \in S[j - 1] PROVE e[j] \in S[j]
    OBVIOUS
  <2>2. /\ j \in 0 .. n /\ j - 1 \in 0 .. n /\ j \in Nat /\ j - 1 \in Nat /\ j # 0 /\ j - 1 < n
        /\ o + j \in 1 .. Len(P) /\ (o + j) - 1 = o + (j - 1) /\ (j - 1) + 1 = j
    BY <1>0, <1>t
  <2>3. P[o + j] = TileOp(x, q8, j - 1)
    BY <1>t
  <2>4. /\ (TileOp(x, q8, j - 1).starts_run <=> j - 1 = 0)
        /\ TileDot(TileOp(x, q8, j - 1), r) = g[Upto(x, q8, (j - 1) + 1)] - g[Upto(x, q8, j - 1)]
    BY <1>n, <2>2, TileFacts
  <2>5. R[o + j] = (IF j - 1 = 0 THEN 0 ELSE R[o + (j - 1)]) + (g[Upto(x, q8, j)] - g[Upto(x, q8, j - 1)])
    BY <1>1, <2>2, <2>3, <2>4
  <2>6. e[j - 1] = (IF j - 1 = 0 THEN 0 ELSE R[o + (j - 1)]) /\ e[j] = R[o + j]
    BY <1>2, <2>2
  <2>7. e[j - 1] = g[Upto(x, q8, j - 1)] - g[q8]
    BY <1>2, <2>1, <2>2
  <2>8. PICK a \in Int, b \in Int, c \in Int : a = g[Upto(x, q8, j)] /\ b = g[Upto(x, q8, j - 1)] /\ c = g[q8]
    BY <1>3, <1>4, <1>5, <2>2
  <2>9. e[j] = (b - c) + (a - b)
    BY <2>5, <2>6, <2>7, <2>8
  <2>10. (b - c) + (a - b) = a - c
    OBVIOUS
  <2>11. QED
    BY <1>2, <2>2, <2>8, <2>9, <2>10
<1>8. \A j \in 0 .. n : e[j] \in S[j]
  <2>1. n \in Nat
    BY <1>0
  <2>2. QED
    BY <1>6, <1>7, <2>1, IterationStays
<1>9. k0 \in 0 .. n /\ k0 # 0
  BY <1>0, <1>n
<1>10. R[o + k0] = g[Upto(x, q8, k0)] - g[q8]
  BY <1>2, <1>8, <1>9
<1>11. QED
  BY <1>10 DEF R

-----------------------------------------------------------------------------
(* The live blocks. *)

\* The first blocks that are live, one more at each step.
LEMMA LiveSteps ==
  ASSUME NEW x, x.k \in Nat
  PROVE  \E L : /\ L[0] = <<>> /\ LiveBlocks(x) = L[NumBlocks(x)]
                /\ \A b \in 1 .. NumBlocks(x) :
                     L[b] = IF Skipped(x, (b - 1) * ABLOCK) THEN L[b - 1] ELSE Append(L[b - 1], (b - 1) * ABLOCK)
<1>. DEFINE N == NumBlocks(x)
            S == [k \in 0 .. N |-> Seq(Nat)]
            F == [k \in 1 .. N |-> [z \in Seq(Nat) |->
                    IF Skipped(x, (k - 1) * ABLOCK) THEN z ELSE Append(z, (k - 1) * ABLOCK)]]
            Solves(f) == f = [k \in 0 .. N |-> IF k = 0 THEN <<>>
                                ELSE IF Skipped(x, (k - 1) * ABLOCK) THEN f[k - 1]
                                ELSE Append(f[k - 1], (k - 1) * ABLOCK)]
            d == CHOOSE f : Solves(f)
<1>0. N \in Nat
  BY BlockCount
<1>1. 0 \in 0 .. N /\ \A k \in 1 .. N : k \in 0 .. N /\ k - 1 \in 0 .. N /\ k # 0
  BY <1>0
<1>2. LiveBlocks(x) = d[N]
  BY Zenon DEF LiveBlocks, NumBlocks
<1>. HIDE DEF N
<1>3. /\ \A k \in 0 .. N : S[k] = Seq(Nat)
      /\ \A k \in 1 .. N : \A z \in Seq(Nat) :
           F[k][z] = IF Skipped(x, (k - 1) * ABLOCK) THEN z ELSE Append(z, (k - 1) * ABLOCK)
  BY Zenon
<1>. HIDE DEF S, F
<1>4. \A k \in 1 .. N : (k - 1) * ABLOCK \in Nat
  BY <1>0, BlockAssumption
<1>5. \E f : Solves(f)
  <2>1. <<>> \in S[0]
    <3>1. <<>> \in Seq(Nat)
      OBVIOUS
    <3>2. QED
      BY <1>1, <1>3, <3>1, Zenon
  <2>2. \A k \in 1 .. N : \A z \in S[k - 1] : F[k][z] \in S[k]
    <3>1. SUFFICES ASSUME NEW k \in 1 .. N, NEW z \in S[k - 1] PROVE F[k][z] \in S[k]
      OBVIOUS
    <3>2. S[k - 1] = Seq(Nat) /\ S[k] = Seq(Nat)
      BY <1>1, <1>3
    <3>3. z \in Seq(Nat)
      BY <3>2
    <3>4. PICK q \in Nat : q = (k - 1) * ABLOCK
      BY <1>4
    <3>5. Append(z, q) \in Seq(Nat)
      BY <3>3
    <3>6. QED
      BY <1>3, <3>2, <3>3, <3>4, <3>5
  <2>3. PICK f : Iterates(f, N, <<>>, F, S)
    BY <1>0, <2>1, <2>2, IterationExists
  <2>4. /\ f = [k \in 0 .. N |-> f[k]] /\ f[0] = <<>>
        /\ \A k \in 1 .. N : f[k] = F[k][f[k - 1]]
        /\ \A k \in 0 .. N : f[k] \in S[k]
    BY <2>3, Zenon DEF Iterates
  <2>5. \A k \in 0 .. N : f[k] = IF k = 0 THEN <<>>
                                 ELSE IF Skipped(x, (k - 1) * ABLOCK) THEN f[k - 1]
                                 ELSE Append(f[k - 1], (k - 1) * ABLOCK)
    <3>1. SUFFICES ASSUME NEW k \in 0 .. N, k # 0
                   PROVE  f[k] = IF Skipped(x, (k - 1) * ABLOCK) THEN f[k - 1]
                                 ELSE Append(f[k - 1], (k - 1) * ABLOCK)
      BY <2>4, Zenon
    <3>2. k \in 1 .. N /\ k - 1 \in 0 .. N
      BY <1>0, <3>1
    <3>3. f[k - 1] \in Seq(Nat) /\ f[k] = F[k][f[k - 1]]
      BY <1>3, <2>4, <3>2
    <3>4. QED
      BY <1>3, <3>2, <3>3, Zenon
  <2>6. [k \in 0 .. N |-> f[k]] = [k \in 0 .. N |-> IF k = 0 THEN <<>>
                                 ELSE IF Skipped(x, (k - 1) * ABLOCK) THEN f[k - 1]
                                 ELSE Append(f[k - 1], (k - 1) * ABLOCK)]
    BY <2>5, Zenon
  <2>7. Solves(f)
    BY <2>4, <2>6, Zenon
  <2>8. QED
    BY <2>7
<1>7. Solves(d)
  BY <1>5, Zenon
<1>. HIDE DEF d
<1>8. \A k \in 0 .. N : d[k] = IF k = 0 THEN <<>>
                               ELSE IF Skipped(x, (k - 1) * ABLOCK) THEN d[k - 1]
                               ELSE Append(d[k - 1], (k - 1) * ABLOCK)
  BY <1>7, Zenon
<1>9. d[0] = <<>> /\ \A b \in 1 .. N :
        d[b] = IF Skipped(x, (b - 1) * ABLOCK) THEN d[b - 1] ELSE Append(d[b - 1], (b - 1) * ABLOCK)
  BY <1>1, <1>8, Zenon
<1>10. QED
  BY <1>2, <1>9, Zenon DEF N

\* The live blocks are blocks of the row.
LEMMA LiveFacts ==
  ASSUME NEW x, x.k \in Nat, NEW live, live = LiveBlocks(x)
  PROVE  live \in Seq(Nat) /\ \A i \in 1 .. Len(live) : IsBlock(x, live[i])
<1>. DEFINE N == NumBlocks(x)
            Q == {z \in Seq(Nat) : \A i \in 1 .. Len(z) : IsBlock(x, z[i])}
            S == [b \in 0 .. N |-> Q]
<1>0. N \in Nat
  BY BlockCount
<1>1. PICK L : /\ L[0] = <<>> /\ live = L[N]
               /\ \A b \in 1 .. N :
                    L[b] = IF Skipped(x, (b - 1) * ABLOCK) THEN L[b - 1] ELSE Append(L[b - 1], (b - 1) * ABLOCK)
  BY LiveSteps
<1>. HIDE DEF Q
<1>2. \A b \in 0 .. N : S[b] = Q
  OBVIOUS
<1>. HIDE DEF S
<1>3. L[0] \in S[0]
  <2>1. <<>> \in Q
    BY DEF Q
  <2>2. 0 \in 0 .. N
    BY <1>0
  <2>3. QED
    BY <1>1, <1>2, <2>1, <2>2
<1>4. \A b \in 1 .. N : L[b - 1] \in S[b - 1] => L[b] \in S[b]
  <2>1. SUFFICES ASSUME NEW b \in 1 .. N, L[b - 1] \in S[b - 1] PROVE L[b] \in S[b]
    OBVIOUS
  <2>2. b \in 0 .. N /\ b - 1 \in 0 .. N
    BY <1>0
  <2>3. PICK z : z = L[b - 1] /\ z \in Q
    BY <1>2, <2>1, <2>2
  <2>4. PICK q \in Nat : q = (b - 1) * ABLOCK
    BY <1>0, BlockAssumption
  <2>5. IsBlock(x, q)
    BY <2>4 DEF IsBlock, N
  <2>6. z \in Seq(Nat) /\ \A i \in 1 .. Len(z) : IsBlock(x, z[i])
    BY <2>3 DEF Q
  <2>7. Append(z, q) \in Q
    <3>1. /\ Append(z, q) \in Seq(Nat) /\ Len(Append(z, q)) = Len(z) + 1 /\ Append(z, q)[Len(z) + 1] = q
          /\ \A i \in 1 .. Len(z) : Append(z, q)[i] = z[i]
      BY <2>6
    <3>2. \A i \in 1 .. Len(z) + 1 : i \in 1 .. Len(z) \/ i = Len(z) + 1
      BY <2>6
    <3>3. \A i \in 1 .. Len(Append(z, q)) : IsBlock(x, Append(z, q)[i])
      BY <2>5, <2>6, <3>1, <3>2
    <3>4. QED
      BY <3>1, <3>3 DEF Q
  <2>8. L[b] \in Q
    BY <1>1, <2>3, <2>4, <2>7
  <2>9. QED
    BY <1>2, <2>2, <2>8
<1>5. \A b \in 0 .. N : L[b] \in S[b]
  BY <1>0, <1>3, <1>4, IterationStays
<1>6. N \in 0 .. N
  BY <1>0
<1>7. live \in Q
  BY <1>1, <1>2, <1>5, <1>6
<1>8. QED
  BY <1>7 DEF Q

-----------------------------------------------------------------------------
(* The plan of a pair of rows. *)

\* The blocks of tiles, laid end to end; o says where they end.
Planned(x, live, P, o) ==
  /\ P \in Seq(OpSet) /\ o \in [0 .. Len(live) -> Nat] /\ o[0] = 0 /\ Len(P) = o[Len(live)]
  /\ \A i \in 1 .. Len(live) :
       /\ o[i] = o[i - 1] + NumTiles(x, live[i]) /\ o[i] <= Len(P)
       /\ \A k \in 1 .. NumTiles(x, live[i]) : P[o[i - 1] + k] = TileOp(x, live[i], k - 1)

\* The plan has the tiles of the live blocks one after the other.
LEMMA PlanIsPlanned ==
  ASSUME TwoByTwo, NEW x, IsInput(x), NEW live \in Seq(Nat), \A i \in 1 .. Len(live) : IsBlock(x, live[i])
  PROVE  \E o : Planned(x, live, BuildPlan(x, live), o)
<1>. DEFINE n == Len(live)
            g == [i \in 1 .. n |-> BlockOps(x, live[i])]
            l == [i \in 1 .. n |-> NumTiles(x, live[i])]
            P == BuildPlan(x, live)
<1>0. n \in Nat
  OBVIOUS
<1>1. P = FlattenSeq(g)
  BY DEF BuildPlan
<1>2. \A i \in 1 .. n : NumTiles(x, live[i]) \in Nat \ {0}
  BY BlockRange
<1>3. l \in [1 .. n -> Nat] /\ \A i \in 1 .. n : l[i] = NumTiles(x, live[i])
  BY <1>2
<1>4. \A i \in 1 .. n : g[i] = BlockOps(x, live[i])
  OBVIOUS
<1>5. \A i \in 1 .. n : /\ g[i] \in Seq(OpSet) /\ Len(g[i]) = NumTiles(x, live[i])
                        /\ \A k \in 1 .. NumTiles(x, live[i]) : g[i][k] = TileOp(x, live[i], k - 1)
  <2>1. SUFFICES ASSUME NEW i \in 1 .. n
                 PROVE  /\ g[i] \in Seq(OpSet) /\ Len(g[i]) = NumTiles(x, live[i])
                        /\ \A k \in 1 .. NumTiles(x, live[i]) : g[i][k] = TileOp(x, live[i], k - 1)
    OBVIOUS
  <2>2. PICK q8, m \in Nat : q8 = live[i] /\ m = NumTiles(x, q8) /\ IsBlock(x, q8)
    BY <1>2
  <2>3. g[i] = [k \in 1 .. m |-> TileOp(x, q8, k - 1)]
    BY <1>4, <2>2 DEF BlockOps
  <2>4. \A k \in 1 .. m : TileOp(x, q8, k - 1) \in OpSet
    <3>1. SUFFICES ASSUME NEW k \in 1 .. m PROVE TileOp(x, q8, k - 1) \in OpSet
      OBVIOUS
    <3>2. k - 1 \in Nat /\ k - 1 < m
      OBVIOUS
    <3>3. QED
      BY <2>2, <3>2, TileFacts
  <2>. HIDE DEF g
  <2>5. g[i] \in [1 .. m -> OpSet] /\ \A k \in 1 .. m : g[i][k] = TileOp(x, q8, k - 1)
    BY <2>3, <2>4
  <2>6. g[i] \in Seq(OpSet) /\ Len(g[i]) = m
    BY <2>5, FunIsSeq
  <2>7. QED
    BY <2>2, <2>5, <2>6
<1>6. g = [i \in 1 .. n |-> g[i]]
  OBVIOUS
<1>. HIDE DEF g, l, P, n
<1>7. PICK o \in [0 .. n -> Nat] : o[0] = 0 /\ \A i \in 1 .. n : o[i] = o[i - 1] + l[i]
  BY <1>0, <1>3, OffsetsExist
<1>8. CASE n = 0
  <2>1. g = <<>>
    <3>1. 1 .. n = {}
      BY <1>8
    <3>2. DOMAIN g = {}
      BY <3>1 DEF g
    <3>3. g = [i \in {} |-> BlockOps(x, live[i])]
      BY <3>1 DEF g
    <3>4. QED
      BY <3>3
  <2>2. Len(<<>>) = 0
    OBVIOUS
  <2>3. P = <<>>
    BY <1>1, <2>1, <2>2, Zenon DEF FlattenSeq
  <2>4. P \in Seq(OpSet) /\ Len(P) = 0
    BY <2>3
  <2>5. Len(P) = o[n] /\ \A i \in 1 .. n : FALSE
    BY <1>7, <1>8, <2>4
  <2>6. QED
    BY <1>7, <2>4, <2>5 DEF Planned, n, P
<1>9. CASE n # 0
  <2>1. g \in [1 .. n -> Seq(OpSet)]
    BY <1>5, <1>6
  <2>2. \A i \in 1 .. n : o[i] = o[i - 1] + Len(g[i])
    BY <1>3, <1>5, <1>7
  <2>3. Pieces(g, o, n, OpSet)
    BY <1>0, <1>7, <1>9, <2>1, <2>2 DEF Pieces
  <2>4. Laid(P, g, o, n, OpSet)
    BY <1>1, <2>3, FlattenBlocks
  <2>5. \A i, j \in 0 .. n : j <= i => o[j] <= o[i]
    BY <2>3, PiecesGrow
  <2>6. P \in Seq(OpSet) /\ Len(P) = o[n] /\ \A i \in 1 .. n : \A k \in 1 .. Len(g[i]) : P[o[i - 1] + k] = g[i][k]
    BY <2>4 DEF Laid
  <2>7. ASSUME NEW i \in 1 .. n
        PROVE  /\ o[i] = o[i - 1] + NumTiles(x, live[i]) /\ o[i] <= Len(P)
               /\ \A k \in 1 .. NumTiles(x, live[i]) : P[o[i - 1] + k] = TileOp(x, live[i], k - 1)
    <3>1. i \in 0 .. n /\ n \in 0 .. n /\ i <= n
      BY <1>0
    <3>2. QED
      BY <1>3, <1>5, <1>7, <2>5, <2>6, <3>1
  <2>8. QED
    BY <1>7, <2>6, <2>7 DEF Planned, n, P
<1>10. QED
  BY <1>8, <1>9

\* Every tile of the plan is some tile of a block.
LEMMA TileOfBlock ==
  ASSUME TwoByTwo, NEW x, IsInput(x), NEW live \in Seq(Nat), \A i \in 1 .. Len(live) : IsBlock(x, live[i]),
         NEW P, NEW o, Planned(x, live, P, o), NEW y \in 1 .. Len(P)
  PROVE  \E i \in 1 .. Len(live) : \E k \in 1 .. NumTiles(x, live[i]) : y = o[i - 1] + k
<1>1. o \in [0 .. Len(live) -> Nat] /\ o[0] = 0 /\ Len(P) = o[Len(live)] /\ Len(live) \in Nat
  BY DEF Planned
<1>2. y \in 1 .. o[Len(live)]
  BY <1>1
<1>3. PICK i \in 1 .. Len(live) : o[i - 1] < y /\ y <= o[i]
  BY <1>1, <1>2, BlockOf
<1>4. o[i] = o[i - 1] + NumTiles(x, live[i]) /\ o[i - 1] \in Nat /\ NumTiles(x, live[i]) \in Nat
  <2>1. i - 1 \in 0 .. Len(live)
    BY <1>1
  <2>2. o[i] = o[i - 1] + NumTiles(x, live[i])
    BY DEF Planned
  <2>3. NumTiles(x, live[i]) \in Nat
    BY BlockRange
  <2>4. QED
    BY <1>1, <2>1, <2>2, <2>3
<1>5. y - o[i - 1] \in 1 .. NumTiles(x, live[i]) /\ y = o[i - 1] + (y - o[i - 1])
  <2>1. y \in Nat
    BY <1>1, <1>2
  <2>2. QED
    BY <1>3, <1>4, <2>1
<1>6. QED
  BY <1>5

\* The prefix of a block that t tiles cover, as a distance from the block's start.
LEMMA PrefixGap ==
  ASSUME NEW A \in Nat, NEW q \in Nat, NEW e \in Nat, NEW K \in Nat, NEW t \in Nat,
         q < e, e <= K, e <= q + A, NEW u, u = IF q + 2 * t <= e THEN q + 2 * t ELSE e
  PROVE  \E d \in Nat : u = q + d /\ d <= A /\ q + d <= K
<1>1. u \in Nat /\ q <= u /\ u <= e
  OBVIOUS
<1>2. PICK d \in Int : d = u - q
  BY <1>1
<1>3. d \in Nat /\ u = q + d /\ d <= A /\ q + d <= K
  BY <1>1, <1>2
<1>4. QED
  BY <1>3

\* The chip can run the plan: its sums stay within an int16.
LEMMA PlanRunnable ==
  ASSUME TwoByTwo, BlocksFit, NEW x, IsInput(x), NEW live \in Seq(Nat),
         \A i \in 1 .. Len(live) : IsBlock(x, live[i]), NEW P, NEW o, Planned(x, live, P, o)
  PROVE  Runnable(P)
<1>1. P \in Seq(OpSet) /\ Len(P) \in Nat /\ Len(live) \in Nat
  BY DEF Planned
<1>o. o \in [0 .. Len(live) -> Nat]
  BY Zenon DEF Planned
<1>p. \A i \in 1 .. Len(live) : \A k \in 1 .. NumTiles(x, live[i]) : P[o[i - 1] + k] = TileOp(x, live[i], k - 1)
  BY Zenon DEF Planned
<1>q. \A i \in 1 .. Len(live) : o[i] = o[i - 1] + NumTiles(x, live[i]) /\ o[i] <= Len(P)
  BY Zenon DEF Planned
<1>a. \A j \in 0 .. Len(live) : o[j] \in Nat
  BY <1>o, Zenon
<1>b. \A i \in 1 .. Len(live) : i - 1 \in 0 .. Len(live) /\ o[i - 1] \in Nat /\ IsBlock(x, live[i])
  BY <1>1, <1>a
<1>c. \A i \in 1 .. Len(live) : NumTiles(x, live[i]) \in Nat \ {0}
  BY BlockRange
<1>d. \A y \in 1 .. Len(P) : \E i \in 1 .. Len(live) : \E k \in 1 .. NumTiles(x, live[i]) : y = o[i - 1] + k
  BY TileOfBlock
<1>2. ASSUME Len(P) > 0 PROVE P[1].starts_run
  <2>1. 1 \in 1 .. Len(P)
    BY <1>1, <1>2
  <2>1a. PICK i \in 1 .. Len(live) : \E k \in 1 .. NumTiles(x, live[i]) : 1 = o[i - 1] + k
    BY <1>d, <2>1
  <2>2. PICK k \in 1 .. NumTiles(x, live[i]) : 1 = o[i - 1] + k
    BY <2>1a
  <2>3. k = 1 /\ k - 1 = 0
    <3>1. o[i - 1] \in Nat /\ NumTiles(x, live[i]) \in Nat
      BY <1>b, <1>c
    <3>2. QED
      BY <2>2, <3>1
  <2>4. P[1] = TileOp(x, live[i], 0)
    BY <1>p, <2>2, <2>3
  <2>5. IsBlock(x, live[i]) /\ 0 \in Nat /\ 0 < NumTiles(x, live[i])
    BY BlockRange
  <2>6. TileOp(x, live[i], 0).starts_run
    BY <2>5, TileFacts
  <2>7. QED
    BY <2>4, <2>6
<1>3. ASSUME NEW r \in Row, NEW y \in 1 .. Len(P) PROVE Fits(RunSums(P, r)[y])
  <2>0. PICK i \in 1 .. Len(live) : \E k \in 1 .. NumTiles(x, live[i]) : y = o[i - 1] + k
    BY <1>d
  <2>1. PICK k \in 1 .. NumTiles(x, live[i]) : y = o[i - 1] + k
    BY <2>0
  <2>2. PICK q8, m, a : q8 = live[i] /\ m = NumTiles(x, q8) /\ a = o[i - 1]
    OBVIOUS
  <2>3. PICK g : SignedSums(x, r, g)
    BY SignedSumsExist
  <2>4. IsBlock(x, q8) /\ TilesAt(x, q8, P, a)
    <3>1. IsBlock(x, q8) /\ a \in Nat
      BY <1>b, <2>2
    <3>2. a + NumTiles(x, q8) <= Len(P)
      BY <1>q, <2>2
    <3>3. \A j \in 1 .. NumTiles(x, q8) : P[a + j] = TileOp(x, q8, j - 1)
      BY <1>p, <2>2
    <3>4. QED
      BY <3>1, <3>2, <3>3 DEF TilesAt
  <2>5. RunSums(P, r)[a + k] = g[Upto(x, q8, k)] - g[q8]
    <3>1. k \in 1 .. NumTiles(x, q8)
      BY <2>2
    <3>2. QED
      BY <1>1, <2>3, <2>4, <3>1, BlockRun
  <2>6. /\ x.k \in Nat /\ q8 \in Nat /\ BlockEnd(x, q8) \in Nat /\ q8 < BlockEnd(x, q8)
        /\ BlockEnd(x, q8) <= x.k /\ BlockEnd(x, q8) <= q8 + ABLOCK /\ m \in Nat
    <3>1. m = NumTiles(x, q8)
      BY <2>2
    <3>2. QED
      BY ONLY TwoByTwo, IsInput(x), <2>4, <3>1, BlockRange
  <2>7. PICK d \in Nat : Upto(x, q8, k) = q8 + d /\ d <= ABLOCK /\ q8 + d <= x.k /\ ABLOCK \in Nat
    <3>1. ABLOCK \in Nat
      BY BlockAssumption
    <3>2. k \in Nat
      BY <2>2, <2>6
    <3>3. PICK e, K : e = BlockEnd(x, q8) /\ K = x.k
      OBVIOUS
    <3>4. PICK u : u = Upto(x, q8, k)
      OBVIOUS
    <3>5. u = IF q8 + 2 * k <= e THEN q8 + 2 * k ELSE e
      BY ONLY <3>3, <3>4, Zenon DEF Upto
    <3>6. e \in Nat /\ K \in Nat /\ q8 \in Nat /\ q8 < e /\ e <= K /\ e <= q8 + ABLOCK
      BY ONLY <2>6, <3>3, Zenon
    <3>7. \E d \in Nat : u = q8 + d /\ d <= ABLOCK /\ q8 + d <= K
      BY ONLY <3>1, <3>2, <3>5, <3>6, PrefixGap
    <3>8. QED
      BY ONLY <3>1, <3>3, <3>4, <3>7, Zenon
  <2>8. -(128 * d) <= g[q8 + d] - g[q8] /\ g[q8 + d] - g[q8] <= 128 * d
    <3>1. q8 \in 0 .. x.k
      BY <2>6
    <3>2. QED
      BY <2>3, <2>7, <3>1, SumsSpread
  <2>9. PICK v \in Int : v = g[q8 + d] - g[q8]
    <3>1. g \in [0 .. x.k -> Int] /\ q8 \in 0 .. x.k /\ q8 + d \in 0 .. x.k
      BY <2>3, <2>6, <2>7 DEF SignedSums
    <3>2. \A j \in 0 .. x.k : g[j] \in Int
      BY <3>1, Zenon
    <3>3. g[q8 + d] \in Int /\ g[q8] \in Int
      BY <3>1, <3>2
    <3>4. QED
      BY <3>3
  <2>10. -32768 <= v /\ v <= 32767
    BY ONLY <2>7, <2>8, <2>9, BlocksFit DEF BlocksFit
  <2>11. QED
    <3>1. Fits(v)
      BY <2>10 DEF Fits
    <3>2. RunSums(P, r)[y] = v
      BY <2>1, <2>2, <2>5, <2>7, <2>9
    <3>3. QED
      BY <3>1, <3>2
<1>4. QED
  BY <1>1, <1>2, <1>3 DEF Runnable

-----------------------------------------------------------------------------
(* The fold computes the dot product. *)

\* A weight is its magnitude with a sign.
LEMMA SignSplit ==
  ASSUME NEW w \in Int, NEW s \in Int, NEW q \in Int
  PROVE  w * s * q = (Abs(w) * s) * (IF w >= 0 THEN q ELSE -q)
<1>1. CASE w >= 0
  BY <1>1 DEF Abs
<1>2. CASE w < 0
  <2>1. Abs(w) = -w
    BY <1>2 DEF Abs
  <2>2. ((-w) * s) * (-q) = w * s * q
    OBVIOUS
  <2>3. QED
    BY <1>2, <2>1, <2>2
<1>3. QED
  BY <1>1, <1>2

\* Element i of the dot product, and its partial sums.
RefTerm(x, r, i) == x.w[r][i] * x.scales[i \div ABLOCK] * x.q[i]

\* The partial sums of the dot product.
RefSums(x, r, c) ==
  /\ c \in [0 .. x.k -> Int] /\ c[0] = 0
  /\ \A i \in 1 .. x.k : c[i] = c[i - 1] + RefTerm(x, r, i - 1)

\* The elements of an input are integers.
LEMMA InputTypes ==
  ASSUME TwoByTwo, NEW x, IsInput(x), NEW r \in DOMAIN x.w, NEW i \in Nat, i < x.k
  PROVE  x.w[r][i] \in Int /\ x.scales[i \div ABLOCK] \in Int /\ x.q[i] \in Int
<1>1. x.k \in Nat
  BY DEF IsInput
<1>2. i \in 0 .. x.k - 1
  BY <1>1
<1>3. x.w[r][i] \in Int /\ x.scales[i \div ABLOCK] \in Int /\ x.q[i] \in Act
  BY <1>2 DEF IsInput
<1>4. QED
  BY <1>3, TwoFacts

\* The dot product as partial sums.
LEMMA RefSumsExist ==
  ASSUME TwoByTwo, NEW x, IsInput(x), NEW r \in DOMAIN x.w
  PROVE  \E c : RefSums(x, r, c) /\ CellRef(x, r) = c[x.k]
<1>. DEFINE f == [i \in 1 .. x.k |-> RefTerm(x, r, i - 1)]
            h == [i \in 0 .. x.k - 1 |-> x.w[r][i] * x.scales[i \div ABLOCK] * x.q[i]]
<1>1. x.k \in Nat
  BY DEF IsInput
<1>2. \A i \in 1 .. x.k : RefTerm(x, r, i - 1) \in Int
  <2>1. SUFFICES ASSUME NEW i \in 1 .. x.k PROVE RefTerm(x, r, i - 1) \in Int
    OBVIOUS
  <2>2. i - 1 \in Nat /\ i - 1 < x.k
    BY <1>1
  <2>3. x.w[r][i - 1] \in Int /\ x.scales[(i - 1) \div ABLOCK] \in Int /\ x.q[i - 1] \in Int
    BY <2>2, InputTypes
  <2>4. PICK a \in Int, b \in Int, c \in Int :
          a = x.w[r][i - 1] /\ b = x.scales[(i - 1) \div ABLOCK] /\ c = x.q[i - 1]
    BY <2>3
  <2>5. a * b * c \in Int
    OBVIOUS
  <2>6. QED
    BY <2>4, <2>5 DEF RefTerm
<1>3. \A i \in 1 .. x.k : f[i] = RefTerm(x, r, i - 1) /\ f[i] \in Int
  BY <1>2
<1>4. \A i \in 1 .. x.k : h[0 + i - 1] = RefTerm(x, r, i - 1)
  <2>1. SUFFICES ASSUME NEW i \in 1 .. x.k PROVE h[0 + i - 1] = RefTerm(x, r, i - 1)
    OBVIOUS
  <2>2. 0 + i - 1 = i - 1 /\ i - 1 \in 0 .. x.k - 1
    BY <1>1
  <2>3. h[i - 1] = x.w[r][i - 1] * x.scales[(i - 1) \div ABLOCK] * x.q[i - 1]
    BY <2>2, Zenon
  <2>4. QED
    BY <2>2, <2>3 DEF RefTerm
<1>5. CellRef(x, r) = SumOver(0, x.k - 1, h)
  BY Zenon DEF CellRef
<1>. HIDE DEF f, h
<1>6. PICK k \in Nat : k = x.k
  BY <1>1
<1>7. PICK c \in [0 .. k -> Int] : c[0] = 0 /\ \A i \in 1 .. k : c[i] = c[i - 1] + f[i]
  BY <1>3, <1>6, PrefixSums
<1>8. SumOver(0, k - 1, h) = c[k]
  <2>1. k - 1 = 0 + k - 1 /\ 0 \in Int
    OBVIOUS
  <2>2. \A j \in 0 .. k : c[j] \in Int
    BY <1>7
  <2>3. \A j \in 1 .. k : c[j] = c[j - 1] + h[0 + j - 1]
    BY <1>3, <1>4, <1>6, <1>7
  <2>4. PICK hi : hi = k - 1
    OBVIOUS
  <2>5. c[0] = 0
    BY <1>7
  <2>6. PICK lo \in Int : lo = 0
    OBVIOUS
  <2>7. lo \in Int /\ k \in Nat /\ hi = lo + k - 1
    BY <2>1, <2>4, <2>6
  <2>a. \A j \in 1 .. k : c[j] = c[j - 1] + h[lo + j - 1]
    BY <2>3, <2>6
  <2>b. c[0] = 0 /\ \A j \in 0 .. k : c[j] \in Int
    BY <2>2, <2>5
  <2>8. SumOver(lo, hi, h) = c[k]
    <3>1. PartialSums(lo, k, h, c)
      BY <2>7, <2>a, <2>b DEF PartialSums
    <3>2. QED
      BY <2>7, <3>1, SumIs
  <2>9. QED
    BY <2>4, <2>6, <2>8
<1>9. RefSums(x, r, c)
  BY <1>3, <1>6, <1>7 DEF RefSums
<1>10. QED
  BY <1>5, <1>6, <1>8, <1>9

\* What a block adds to the cell.
BlockTerm(x, r, g, q8) == DW(x, r, q8) * DA(x, q8) * (g[BlockEnd(x, q8)] - g[q8])

\* A block adds its scales times the signed sum of its activations, nothing when it is skipped.
LEMMA BlockAdds ==
  ASSUME TwoByTwo, NEW x, IsInput(x), NEW r \in DOMAIN x.w, NEW g, SignedSums(x, r, g), NEW c, RefSums(x, r, c),
         NEW b \in 1 .. NumBlocks(x), NEW q8, q8 = (b - 1) * ABLOCK
  PROVE  /\ c[Edge(x, b)] = c[q8] + BlockTerm(x, r, g, q8) /\ BlockTerm(x, r, g, q8) \in Int
         /\ Skipped(x, q8) => BlockTerm(x, r, g, q8) = 0
<1>. DEFINE be == Edge(x, b)
            n == be - q8
<1>0. x.k \in Nat /\ r \in Row
  BY DEF IsInput
<1>1. /\ q8 \in Nat /\ be \in Nat /\ q8 < be /\ be <= x.k /\ BlockEnd(x, q8) = be
      /\ \A i \in Nat : q8 <= i /\ i < be => i \div ABLOCK = b - 1
      /\ q8 \div ABLOCK = b - 1
  BY <1>0, BlockFacts
<1>2. /\ DW(x, r, q8) \in Nat
      /\ \A i \in Nat : q8 <= i /\ i < be => DW(x, r, q8) = Abs(x.w[r][i])
  <2>1. \A i \in Nat : q8 <= i /\ i < be => DW(x, r, q8) = Abs(x.w[r][i]) /\ DW(x, r, q8) \in Nat
    BY ScaleExact
  <2>2. q8 \in Nat /\ q8 <= q8 /\ q8 < be
    BY <1>1
  <2>3. QED
    BY <2>1, <2>2
<1>3. DA(x, q8) \in Int /\ DA(x, q8) = x.scales[b - 1]
  <2>1. DA(x, q8) = x.scales[q8 \div ABLOCK]
    BY DEF DA
  <2>2. q8 < x.k
    BY <1>0, <1>1
  <2>3. QED
    BY <1>1, <2>1, <2>2, InputTypes
<1>4. /\ g \in [0 .. x.k -> Int]
      /\ \A i \in 1 .. x.k : g[i] = g[i - 1] + Signed(x, r, i - 1)
  BY DEF SignedSums
<1>5. /\ c \in [0 .. x.k -> Int]
      /\ \A i \in 1 .. x.k : c[i] = c[i - 1] + RefTerm(x, r, i - 1)
  BY DEF RefSums
<1>6. PICK D \in Int : D = DW(x, r, q8) * DA(x, q8)
  BY <1>2, <1>3
<1>7. n \in Nat /\ q8 + n = be
  BY <1>1
<1>. DEFINE e == [j \in 0 .. n |-> c[q8 + j]]
            S == [j \in 0 .. n |-> {c[q8] + D * (g[q8 + j] - g[q8])}]
<1>8. /\ \A j \in 0 .. n : e[j] = c[q8 + j]
      /\ \A j \in 0 .. n : S[j] = {c[q8] + D * (g[q8 + j] - g[q8])}
  BY Zenon
<1>. HIDE DEF e, S, be, n
<1>9. \A j \in 0 .. x.k : g[j] \in Int /\ c[j] \in Int
  BY <1>4, <1>5
<1>10. q8 \in 0 .. x.k /\ \A j \in 0 .. n : q8 + j \in 0 .. x.k
  BY <1>0, <1>1, <1>7
<1>11. e[0] \in S[0]
  <2>1. 0 \in 0 .. n /\ q8 + 0 = q8
    BY <1>1, <1>7
  <2>2. PICK u \in Int, v \in Int : u = g[q8] /\ v = c[q8]
    BY <1>9, <1>10
  <2>3. v + D * (u - u) = v
    OBVIOUS
  <2>4. e[0] = v /\ S[0] = {v + D * (u - u)}
    BY <1>8, <2>1, <2>2
  <2>5. QED
    BY <2>3, <2>4
<1>12. \A j \in 1 .. n : e[j - 1] \in S[j - 1] => e[j] \in S[j]
  <2>1. SUFFICES ASSUME NEW j \in 1 .. n, e[j - 1] \in S[j - 1] PROVE e[j] \in S[j]
    OBVIOUS
  <2>. DEFINE i == q8 + (j - 1)
  <2>2. /\ j \in 0 .. n /\ j - 1 \in 0 .. n /\ i \in Nat /\ q8 <= i /\ i < be /\ i < x.k
        /\ q8 + j \in 1 .. x.k /\ (q8 + j) - 1 = i
    BY <1>0, <1>1, <1>7
  <2>. HIDE DEF i
  <2>3. c[q8 + j] = c[i] + RefTerm(x, r, i) /\ g[q8 + j] = g[i] + Signed(x, r, i)
    BY <1>4, <1>5, <2>2
  <2>4. PICK w \in Int, s \in Int, q \in Int : w = x.w[r][i] /\ s = x.scales[i \div ABLOCK] /\ q = x.q[i]
    BY <2>2, InputTypes
  <2>5. RefTerm(x, r, i) = w * s * q
    BY <2>4 DEF RefTerm
  <2>6. Signed(x, r, i) = IF w >= 0 THEN q ELSE -q
    BY <2>4 DEF Signed, HasRow
  <2>7. D = Abs(w) * s
    <3>1. i \div ABLOCK = b - 1 /\ DW(x, r, q8) = Abs(x.w[r][i])
      BY <1>1, <1>2, <2>2
    <3>2. QED
      BY <1>3, <1>6, <2>4, <3>1
  <2>8. PICK y \in Int : y = Signed(x, r, i)
    BY <2>6
  <2>9. RefTerm(x, r, i) = D * y
    <3>1. w * s * q = (Abs(w) * s) * (IF w >= 0 THEN q ELSE -q)
      BY SignSplit
    <3>2. y = IF w >= 0 THEN q ELSE -q
      BY <2>6, <2>8
    <3>3. w * s * q = D * y
      BY <2>7, <3>1, <3>2, Zenon
    <3>4. QED
      BY <2>5, <3>3
  <2>10. PICK c0 \in Int, ci \in Int, g0 \in Int, gi \in Int : c0 = c[q8] /\ ci = c[i] /\ g0 = g[q8] /\ gi = g[i]
    <3>1. i \in 0 .. x.k
      BY <1>0, <2>2
    <3>2. QED
      BY <1>9, <1>10, <3>1
  <2>11. i = q8 + (j - 1)
    BY DEF i
  <2>12. ci = c0 + D * (gi - g0)
    BY <1>8, <2>1, <2>2, <2>10, <2>11
  <2>13. (c0 + D * (gi - g0)) + D * y = c0 + D * ((gi + y) - g0)
    OBVIOUS
  <2>14. e[j] = c0 + D * ((gi + y) - g0)
    <3>1. e[j] = ci + D * y
      BY <1>8, <2>2, <2>3, <2>9, <2>10
    <3>2. QED
      BY <2>12, <2>13, <3>1
  <2>15. S[j] = {c0 + D * ((gi + y) - g0)}
    <3>1. S[j] = {c[q8] + D * (g[q8 + j] - g[q8])}
      BY <1>8, <2>2
    <3>2. g[q8 + j] = gi + y
      BY <2>3, <2>8, <2>10
    <3>3. QED
      BY <2>10, <3>1, <3>2
  <2>16. QED
    BY <2>14, <2>15
<1>13. \A j \in 0 .. n : e[j] \in S[j]
  BY <1>7, <1>11, <1>12, IterationStays
<1>14. c[be] = c[q8] + D * (g[be] - g[q8])
  <2>1. n \in 0 .. n
    BY <1>7
  <2>2. QED
    BY <1>7, <1>8, <1>13, <2>1
<1>15. BlockTerm(x, r, g, q8) = D * (g[be] - g[q8])
  BY <1>1, <1>6 DEF BlockTerm
<1>16. PICK G \in Int : G = g[be] - g[q8]
  <2>1. be \in 0 .. x.k
    BY <1>0, <1>1
  <2>2. QED
    BY <1>9, <1>10, <2>1
<1>17. D * G \in Int
  OBVIOUS
<1>18. ASSUME Skipped(x, q8) PROVE D * G = 0
  <2>1. DW(x, r, q8) = 0 \/ DA(x, q8) = 0
    BY <1>0, <1>18 DEF Skipped
  <2>2. D = 0
    <3>1. CASE DW(x, r, q8) = 0
      BY <1>3, <1>6, <3>1
    <3>2. CASE DA(x, q8) = 0
      BY <1>2, <1>6, <3>2
    <3>3. QED
      BY <2>1, <3>1, <3>2
  <2>3. QED
    BY <2>2
<1>19. QED
  BY <1>14, <1>15, <1>16, <1>17, <1>18 DEF be

\* s adds up what the blocks of z contribute to row r, and reaches total.
BlockSums(x, r, g, z, s, total) ==
  /\ z \in Seq(Nat) /\ s \in [0 .. Len(z) -> Int] /\ s[0] = 0 /\ s[Len(z)] = total
  /\ \A i \in 1 .. Len(z) : s[i] = s[i - 1] + BlockTerm(x, r, g, z[i])

\* One more block.
LEMMA BlockSumsGrow ==
  ASSUME NEW x, NEW r, NEW g, NEW z, NEW s, NEW total \in Int, BlockSums(x, r, g, z, s, total),
         NEW q8 \in Nat, BlockTerm(x, r, g, q8) \in Int
  PROVE  \E s2 : BlockSums(x, r, g, Append(z, q8), s2, total + BlockTerm(x, r, g, q8))
<1>. DEFINE n == Len(z)
            y == Append(z, q8)
            T(a) == BlockTerm(x, r, g, a)
            s2 == [i \in 0 .. n + 1 |-> IF i = n + 1 THEN total + T(q8) ELSE s[i]]
<1>1. /\ z \in Seq(Nat) /\ s \in [0 .. n -> Int] /\ s[0] = 0 /\ s[n] = total /\ n \in Nat
      /\ \A i \in 1 .. n : s[i] = s[i - 1] + T(z[i])
  BY DEF BlockSums
<1>2. y \in Seq(Nat) /\ Len(y) = n + 1 /\ y[n + 1] = q8 /\ \A i \in 1 .. n : y[i] = z[i]
  BY <1>1
<1>. HIDE DEF n, y, T
<1>0. T(q8) \in Int
  BY DEF T
<1>3. /\ \A i \in 0 .. n : s2[i] = s[i] /\ i \in 0 .. n + 1 /\ s[i] \in Int
      /\ s2[n + 1] = total + T(q8)
  BY <1>1
<1>4. s2 \in [0 .. n + 1 -> Int]
  BY <1>0, <1>1
<1>. HIDE DEF s2
<1>5. \A i \in 1 .. n + 1 : s2[i] = s2[i - 1] + T(y[i])
  <2>1. SUFFICES ASSUME NEW i \in 1 .. n + 1 PROVE s2[i] = s2[i - 1] + T(y[i])
    OBVIOUS
  <2>2. CASE i = n + 1
    <3>1. i - 1 = n /\ n \in 0 .. n
      BY <1>1, <2>2
    <3>2. y[i] = q8
      BY <1>2, <2>2
    <3>3. s2[i - 1] = total
      BY <1>1, <1>3, <3>1
    <3>4. QED
      BY <1>3, <2>2, <3>2, <3>3
  <2>3. CASE i # n + 1
    <3>1. i \in 1 .. n /\ i \in 0 .. n /\ i - 1 \in 0 .. n
      BY <1>1, <2>3
    <3>2. QED
      BY <1>1, <1>2, <1>3, <3>1
  <2>4. QED
    BY <2>2, <2>3
<1>6. s2[0] = 0
  BY <1>1, <1>3
<1>7. BlockSums(x, r, g, y, s2, total + BlockTerm(x, r, g, q8))
  BY <1>2, <1>3, <1>4, <1>5, <1>6 DEF BlockSums, T
<1>8. QED
  BY <1>7 DEF y

\* The live blocks add up to the whole dot product: a skipped one adds nothing.
LEMMA LiveSum ==
  ASSUME TwoByTwo, NEW x, IsInput(x), NEW r \in DOMAIN x.w, NEW g, SignedSums(x, r, g)
  PROVE  \E s : BlockSums(x, r, g, LiveBlocks(x), s, CellRef(x, r))
<1>1. PICK c : RefSums(x, r, c) /\ CellRef(x, r) = c[x.k]
  BY RefSumsExist
<1>2. x.k \in Nat
  BY DEF IsInput
<1>3. PICK N \in Nat : N = NumBlocks(x)
  BY <1>2, BlockCount
<1>4. /\ Edge(x, 0) = 0 /\ Edge(x, N) = x.k
      /\ \A b \in 0 .. N : Edge(x, b) \in 0 .. x.k
      /\ \A b \in 1 .. N : Edge(x, b - 1) = (b - 1) * ABLOCK
  BY <1>2, <1>3, BlockCount
<1>5. PICK L : /\ L[0] = <<>> /\ LiveBlocks(x) = L[N]
               /\ \A b \in 1 .. N :
                    L[b] = IF Skipped(x, (b - 1) * ABLOCK) THEN L[b - 1] ELSE Append(L[b - 1], (b - 1) * ABLOCK)
  BY <1>2, <1>3, LiveSteps
<1>6. c \in [0 .. x.k -> Int] /\ c[0] = 0
  BY <1>1 DEF RefSums
<1>7. \A b \in 0 .. N : c[Edge(x, b)] \in Int
  BY <1>4, <1>6
<1>. DEFINE Good(b) == {z \in Seq(Nat) : \E s : BlockSums(x, r, g, z, s, c[Edge(x, b)])}
            S == [b \in 0 .. N |-> Good(b)]
<1>8. \A b \in 0 .. N : S[b] = Good(b)
  BY Zenon
<1>. HIDE DEF S, Good
<1>9. L[0] \in S[0]
  <2>. DEFINE s == [i \in 0 .. 0 |-> 0]
  <2>1. Len(<<>>) = 0 /\ <<>> \in Seq(Nat) /\ 1 .. 0 = {}
    OBVIOUS
  <2>2. s \in [0 .. 0 -> Int] /\ s[0] = 0
    OBVIOUS
  <2>. HIDE DEF s
  <2>3. c[Edge(x, 0)] = 0
    BY <1>4, <1>6
  <2>4. BlockSums(x, r, g, <<>>, s, c[Edge(x, 0)])
    BY <2>1, <2>2, <2>3 DEF BlockSums
  <2>5. <<>> \in Good(0)
    BY <2>1, <2>4 DEF Good
  <2>6. QED
    BY <1>5, <1>8, <2>5
<1>10. \A b \in 1 .. N : L[b - 1] \in S[b - 1] => L[b] \in S[b]
  <2>1. SUFFICES ASSUME NEW b \in 1 .. N, L[b - 1] \in S[b - 1] PROVE L[b] \in S[b]
    OBVIOUS
  <2>2. b \in 0 .. N /\ b - 1 \in 0 .. N
    OBVIOUS
  <2>3. PICK q \in Nat : q = (b - 1) * ABLOCK
    BY BlockAssumption
  <2>4. PICK total \in Int : total = c[q]
    BY <1>4, <1>7, <2>2, <2>3
  <2>5. PICK z : z = L[b - 1] /\ z \in Good(b - 1)
    BY <1>8, <2>1, <2>2
  <2>6. Edge(x, b - 1) = q
    BY <1>4, <2>3
  <2>7. PICK s : BlockSums(x, r, g, z, s, total)
    BY <2>4, <2>5, <2>6 DEF Good
  <2>8. /\ c[Edge(x, b)] = total + BlockTerm(x, r, g, q) /\ BlockTerm(x, r, g, q) \in Int
        /\ Skipped(x, q) => BlockTerm(x, r, g, q) = 0
    BY <1>1, <1>3, <2>3, <2>4, BlockAdds
  <2>9. z \in Seq(Nat)
    BY <2>7 DEF BlockSums
  <2>10. CASE Skipped(x, q)
    <3>1. c[Edge(x, b)] = total
      BY <2>8, <2>10
    <3>2. L[b] = z
      BY <1>5, <2>3, <2>5, <2>10
    <3>3. z \in Good(b)
      BY <2>7, <2>9, <3>1 DEF Good
    <3>4. QED
      BY <1>8, <2>2, <3>2, <3>3
  <2>11. CASE ~Skipped(x, q)
    <3>1. PICK s2 : BlockSums(x, r, g, Append(z, q), s2, total + BlockTerm(x, r, g, q))
      BY <2>7, <2>8, BlockSumsGrow
    <3>2. L[b] = Append(z, q)
      BY <1>5, <2>3, <2>5, <2>11
    <3>3. Append(z, q) \in Seq(Nat)
      BY <2>9
    <3>4. BlockSums(x, r, g, Append(z, q), s2, c[Edge(x, b)])
      BY <2>8, <3>1
    <3>5. Append(z, q) \in Good(b)
      BY <3>3, <3>4 DEF Good
    <3>6. QED
      BY <1>8, <2>2, <3>2, <3>5
  <2>12. QED
    BY <2>10, <2>11
<1>11. \A b \in 0 .. N : L[b] \in S[b]
  BY <1>9, <1>10, IterationStays
<1>12. L[N] \in Good(N)
  <2>1. N \in 0 .. N
    OBVIOUS
  <2>2. QED
    BY <1>8, <1>11, <2>1
<1>13. QED
  BY <1>1, <1>4, <1>5, <1>12 DEF Good

\* A sub-block's tail is the last of its tiles.
LEMMA TailIndex ==
  ASSUME TwoByTwo, NEW x, IsInput(x), NEW live \in Seq(Nat), \A i \in 1 .. Len(live) : IsBlock(x, live[i]),
         NEW P, NEW o, Planned(x, live, P, o), NEW i \in 1 .. Len(live)
  PROVE  SumOver(1, i, [j \in 1 .. i |-> NumTiles(x, live[j])]) = o[i]
<1>. DEFINE f == [j \in 1 .. i |-> NumTiles(x, live[j])]
<1>1. /\ o \in [0 .. Len(live) -> Nat] /\ o[0] = 0
      /\ \A j \in 1 .. Len(live) : o[j] = o[j - 1] + NumTiles(x, live[j])
  BY Zenon DEF Planned
<1>2. \A j \in 1 .. i : f[j] = NumTiles(x, live[j])
  OBVIOUS
<1>. HIDE DEF f
<1>3. PICK n \in Nat : n = i
  OBVIOUS
<1>4. \A j \in 0 .. n : o[j] \in Int
  <2>1. \A j \in 0 .. n : j \in 0 .. Len(live)
    BY <1>3
  <2>2. \A j \in 0 .. Len(live) : o[j] \in Nat
    BY <1>1
  <2>3. QED
    BY <2>1, <2>2
<1>5. \A j \in 1 .. n : o[j] = o[j - 1] + f[1 + j - 1]
  <2>1. SUFFICES ASSUME NEW j \in 1 .. n PROVE o[j] = o[j - 1] + f[1 + j - 1]
    OBVIOUS
  <2>2. 1 + j - 1 = j /\ j \in 1 .. Len(live) /\ j \in 1 .. i
    BY <1>3
  <2>3. QED
    BY <1>1, <1>2, <2>2
<1>6. PartialSums(1, n, f, o)
  BY <1>1, <1>4, <1>5 DEF PartialSums
<1>7. n = 1 + n - 1
  OBVIOUS
<1>8. SumOver(1, n, f) = o[n]
  BY <1>6, <1>7, SumIs
<1>9. QED
  BY <1>3, <1>8 DEF f

\* The fold of the run tails is the dot product.
LEMMA FoldExact ==
  ASSUME TwoByTwo, BlocksFit, NEW x, IsInput(x), NEW live, live = LiveBlocks(x), NEW ps,
         PsumsRight(BuildPlan(x, live), ps), NEW r \in DOMAIN x.w
  PROVE  FoldRow(SubBlocks(x, live), ps, r) = CellRef(x, r)
<1>0. x.k \in Nat /\ r \in Row
  BY DEF IsInput
<1>1. live \in Seq(Nat) /\ \A i \in 1 .. Len(live) : IsBlock(x, live[i])
  BY <1>0, LiveFacts
<1>2. PICK P : P = BuildPlan(x, live)
  OBVIOUS
<1>3. PICK o : Planned(x, live, P, o)
  BY <1>1, <1>2, PlanIsPlanned
<1>4. PICK g : SignedSums(x, r, g)
  BY <1>0, SignedSumsExist
<1>5. PICK s : BlockSums(x, r, g, live, s, CellRef(x, r))
  BY <1>4, LiveSum
<1>. DEFINE n == Len(live)
            sb == SubBlocks(x, live)
            f == [i \in 1 .. Len(sb) |-> sb[i].d_w[r] * sb[i].d_a * ps[sb[i].tail_op_index][r]]
<1>6. /\ n \in Nat /\ s \in [0 .. n -> Int] /\ s[0] = 0 /\ s[n] = CellRef(x, r)
      /\ \A i \in 1 .. n : s[i] = s[i - 1] + BlockTerm(x, r, g, live[i])
  BY <1>1, <1>5 DEF BlockSums
<1>7. Len(sb) = n
  BY <1>1, FunIsSeq DEF SubBlocks
<1>8. \A i \in 1 .. n :
        sb[i] = [tail_op_index |-> SumOver(1, i, [j \in 1 .. i |-> NumTiles(x, live[j])]),
                 d_w           |-> [q \in Row |-> DW(x, q, live[i])],
                 d_a           |-> DA(x, live[i])]
  BY Zenon DEF SubBlocks
<1>. HIDE DEF sb
<1>9. ASSUME NEW i \in 1 .. n PROVE f[i] = BlockTerm(x, r, g, live[i])
  <2>1. PICK q8 : q8 = live[i] /\ IsBlock(x, q8)
    BY <1>1
  <2>2. PICK T \in Nat : T = NumTiles(x, q8) /\ T # 0
    BY <2>1, BlockRange
  <2>3. /\ P \in Seq(OpSet) /\ o[i] = o[i - 1] + NumTiles(x, live[i]) /\ o[i] <= Len(P)
        /\ \A k \in 1 .. NumTiles(x, live[i]) : P[o[i - 1] + k] = TileOp(x, live[i], k - 1)
    BY <1>3, Zenon DEF Planned
  <2>4. PICK a \in Nat : a = o[i - 1]
    <3>1. i - 1 \in 0 .. n
      BY <1>6
    <3>2. o \in [0 .. n -> Nat]
      BY <1>3, Zenon DEF Planned
    <3>3. QED
      BY <3>1, <3>2
  <2>5. TilesAt(x, q8, P, a)
    BY <2>1, <2>2, <2>3, <2>4 DEF TilesAt
  <2>6. T \in 1 .. NumTiles(x, q8)
    BY <2>2
  <2>7. RunSums(P, r)[a + T] = g[Upto(x, q8, T)] - g[q8]
    BY <1>0, <1>4, <2>1, <2>3, <2>5, <2>6, BlockRun
  <2>8. Upto(x, q8, T) = BlockEnd(x, q8)
    <3>1. PICK be \in Nat : be = BlockEnd(x, q8) /\ q8 \in Nat
      BY <2>1, BlockRange
    <3>2. ~(T < T) /\ (T < T <=> q8 + 2 * T < be)
      BY <2>1, <2>2, <3>1, BlockRange
    <3>3. q8 + 2 * T >= be
      BY <3>1, <3>2
    <3>4. QED
      BY <3>1, <3>3 DEF Upto
  <2>9. P[a + T].ends_run
    <3>1. P[a + T] = TileOp(x, q8, T - 1)
      BY <2>1, <2>2, <2>3, <2>4, <2>6
    <3>2. T - 1 \in Nat /\ T - 1 < NumTiles(x, q8) /\ T - 1 = NumTiles(x, q8) - 1
      BY <2>2
    <3>3. TileOp(x, q8, T - 1).ends_run
      BY <2>1, <3>2, TileFacts
    <3>4. QED
      BY <3>1, <3>3
  <2>10. o[i] = a + T /\ a + T \in 1 .. Len(P)
    BY <2>1, <2>2, <2>3, <2>4
  <2>11. ps[a + T][r] = g[BlockEnd(x, q8)] - g[q8]
    <3>1. ps[a + T][r] = RunSums(P, r)[a + T]
      BY <1>0, <1>2, <2>9, <2>10 DEF PsumsRight
    <3>2. QED
      BY <2>7, <2>8, <3>1
  <2>12. sb[i].tail_op_index = a + T /\ sb[i].d_w[r] = DW(x, r, q8) /\ sb[i].d_a = DA(x, q8)
    <3>1. SumOver(1, i, [j \in 1 .. i |-> NumTiles(x, live[j])]) = o[i]
      BY <1>1, <1>3, TailIndex
    <3>2. PICK u : u = SumOver(1, i, [j \in 1 .. i |-> NumTiles(x, live[j])])
      OBVIOUS
    <3>3. sb[i] = [tail_op_index |-> u, d_w |-> [q \in Row |-> DW(x, q, q8)], d_a |-> DA(x, q8)]
      BY <1>8, <2>1, <3>2
    <3>4. QED
      BY ONLY <1>0, <2>10, <3>1, <3>2, <3>3
  <2>13. f[i] = sb[i].d_w[r] * sb[i].d_a * ps[sb[i].tail_op_index][r]
    BY <1>7, Zenon
  <2>14. QED
    BY <2>1, <2>11, <2>12, <2>13 DEF BlockTerm
<1>10. FoldRow(sb, ps, r) = SumOver(1, Len(sb), f)
  BY Zenon DEF FoldRow
<1>. HIDE DEF f
<1>11. PICK m \in Nat : m = n
  BY <1>6
<1>12. \A j \in 1 .. m : s[j] = s[j - 1] + f[1 + j - 1]
  <2>1. SUFFICES ASSUME NEW j \in 1 .. m PROVE s[j] = s[j - 1] + f[1 + j - 1]
    OBVIOUS
  <2>2. 1 + j - 1 = j /\ j \in 1 .. n
    BY <1>11
  <2>3. QED
    BY <1>6, <1>9, <2>2
<1>13. s[0] = 0 /\ \A j \in 0 .. m : s[j] \in Int
  BY <1>6, <1>11
<1>14. PartialSums(1, m, f, s)
  BY <1>12, <1>13 DEF PartialSums
<1>15. m = 1 + m - 1
  OBVIOUS
<1>16. SumOver(1, m, f) = s[m]
  BY <1>14, <1>15, SumIs
<1>17. QED
  BY <1>6, <1>7, <1>10, <1>11, <1>16 DEF sb

\* A pair with no live block: its plan is empty, and so are its dot products.
LEMMA EmptyPlan ==
  ASSUME TwoByTwo, NEW x, IsInput(x), NEW live, live = LiveBlocks(x), BuildPlan(x, live) = <<>>,
         NEW r \in DOMAIN x.w
  PROVE  CellRef(x, r) = 0
<1>0. x.k \in Nat /\ r \in Row
  BY DEF IsInput
<1>1. live \in Seq(Nat) /\ \A i \in 1 .. Len(live) : IsBlock(x, live[i])
  BY <1>0, LiveFacts
<1>2. PICK P : P = BuildPlan(x, live)
  OBVIOUS
<1>3. PICK o : Planned(x, live, P, o)
  BY <1>1, <1>2, PlanIsPlanned
<1>4. PICK g : SignedSums(x, r, g)
  BY <1>0, SignedSumsExist
<1>5. PICK s : BlockSums(x, r, g, live, s, CellRef(x, r))
  BY <1>4, LiveSum
<1>6. PICK n \in Nat : n = Len(live)
  BY <1>1
<1>7. Len(P) = 0
  BY <1>2
<1>8. n = 0
  <2>1. SUFFICES ASSUME n # 0 PROVE FALSE
    OBVIOUS
  <2>2. n \in 1 .. Len(live) /\ n - 1 \in 0 .. n
    BY <1>6, <2>1
  <2>3. o \in [0 .. n -> Nat] /\ o[n] = o[n - 1] + NumTiles(x, live[n]) /\ o[n] = Len(P)
    BY <1>3, <1>6, <2>2, Zenon DEF Planned
  <2>4. NumTiles(x, live[n]) \in Nat \ {0}
    BY <1>1, <2>2, BlockRange
  <2>5. o[n - 1] \in Nat
    BY <2>2, <2>3
  <2>6. QED
    BY <1>7, <2>3, <2>4, <2>5
<1>9. QED
  BY <1>5, <1>6, <1>8 DEF BlockSums

-----------------------------------------------------------------------------
(* The loops over batches, columns and row pairs, as one index. *)

\* Two nested loops of A and B rounds take A * B rounds.
LEMMA Nested ==
  ASSUME NEW A \in Nat, NEW B \in Nat, NEW a \in 0 .. A - 1, NEW b \in 0 .. B - 1
  PROVE  B * a + b \in 0 .. B * A - 1 /\ B * A = A * B
<1>1. B * a <= B * (A - 1)
  BY MulMono
<1>2. B * (A - 1) = B * A - B
  OBVIOUS
<1>3. B * a \in Nat /\ B * A \in Nat
  OBVIOUS
<1>4. QED
  BY <1>1, <1>2, <1>3

\* The outer index of a nested loop stays below its bound.
LEMMA OuterIndex ==
  ASSUME NEW A \in Nat, NEW B \in Nat, NEW i \in Nat, i < B * A
  PROVE  B # 0 /\ i \div B \in 0 .. A - 1 /\ i % B \in 0 .. B - 1
<1>1. B # 0
  BY SMT
<1>2. i \div B \in Nat /\ i % B \in 0 .. B - 1 /\ i = B * (i \div B) + (i % B)
  BY <1>1, Division
<1>3. PICK q \in Nat, m \in Nat : q = i \div B /\ m = i % B /\ i = B * q + m
  BY <1>2
<1>4. q < A
  <2>1. SUFFICES ASSUME A <= q PROVE FALSE
    OBVIOUS
  <2>2. B * A <= B * q
    BY <2>1, MulMono
  <2>3. B * A \in Nat /\ B * q \in Nat
    OBVIOUS
  <2>4. QED
    BY <1>3, <2>2, <2>3
<1>5. QED
  BY <1>1, <1>2, <1>3, <1>4

\* A job's rows come in pairs.
LEMMA PairCount ==
  ASSUME TwoByTwo, NEW j, j.n_rows \in Nat
  PROVE  /\ RowPairs(j) \in Nat
         /\ \A n \in Nat : n < RowPairs(j) <=> 2 * n < j.n_rows
<1>1. RowPairs(j) = (j.n_rows + 1) \div 2
  BY DEF RowPairs, CeilDiv, TwoByTwo
<1>2. PICK m \in Nat : m = j.n_rows
  OBVIOUS
<1>3. QED
  BY <1>1, <1>2

\* The products the loops multiply up to.
LEMMA LoopSizes ==
  ASSUME TwoByTwo, NEW j, IsJob(j)
  PROVE  \E R \in Nat, C \in Nat, D \in Nat, E \in Nat :
           /\ R = RowPairs(j) /\ C = j.n_cols /\ D = j.n_b2 /\ E = j.n_b3
           /\ NumCells(j) = ((R * C) * D) * E /\ NumCells(j) = E * D * C * R
<1>1. /\ RowPairs(j) \in Nat /\ j.n_cols \in Nat /\ j.n_b2 \in Nat /\ j.n_b3 \in Nat
  BY PairCount DEF IsJob
<1>2. PICK R \in Nat, C \in Nat, D \in Nat, E \in Nat :
        R = RowPairs(j) /\ C = j.n_cols /\ D = j.n_b2 /\ E = j.n_b3
  BY <1>1
<1>3. E * D * C * R = ((R * C) * D) * E
  OBVIOUS
<1>4. NumCells(j) = E * D * C * R
  BY <1>2 DEF NumCells
<1>5. QED
  BY <1>2, <1>3, <1>4

\* Every round of the loops is at a pair of rows, a column and a batch of the job.
LEMMA CellIndex ==
  ASSUME TwoByTwo, NEW j, IsJob(j), NEW i \in Nat, i < NumCells(j), NEW c, c = CellAt(j, i)
  PROVE  /\ c.row \in Nat /\ c.col \in 0 .. j.n_cols - 1
         /\ c.b2 \in 0 .. j.n_b2 - 1 /\ c.b3 \in 0 .. j.n_b3 - 1
<1>1. PICK R \in Nat, C \in Nat, D \in Nat, E \in Nat :
           /\ R = RowPairs(j) /\ C = j.n_cols /\ D = j.n_b2 /\ E = j.n_b3
           /\ NumCells(j) = ((R * C) * D) * E
  BY LoopSizes
<1>2. c = [row |-> (i % R) * ROWS, col |-> (i \div R) % C, b2 |-> (i \div (R * C)) % D,
           b3 |-> i \div (R * C * D)]
  BY <1>1 DEF CellAt
<1>3. PICK RC \in Nat, RCD \in Nat : RC = R * C /\ RCD = RC * D
  OBVIOUS
<1>4. i < RCD * E
  BY <1>1, <1>3
<1>5. RCD # 0 /\ i \div RCD \in 0 .. E - 1
  BY <1>4, OuterIndex
<1>6. RC # 0 /\ D # 0 /\ R # 0 /\ C # 0
  <2>1. RC # 0 /\ D # 0
    <3>1. CASE RC = 0
      BY <1>3, <1>5, <3>1
    <3>2. CASE D = 0
      BY <1>3, <1>5, <3>2
    <3>3. QED
      BY <3>1, <3>2
  <2>2. R # 0 /\ C # 0
    <3>1. CASE R = 0
      BY <1>3, <2>1, <3>1
    <3>2. CASE C = 0
      BY <1>3, <2>1, <3>2
    <3>3. QED
      BY <3>1, <3>2
  <2>3. QED
    BY <2>1, <2>2
<1>7. i \div R \in Nat /\ i \div RC \in Nat /\ i % R \in Nat
  <2>1. R \in Nat \ {0} /\ RC \in Nat \ {0}
    BY <1>6
  <2>2. i \div R \in Nat /\ i % R \in 0 .. R - 1
    BY <2>1, Division
  <2>3. i \div RC \in Nat
    BY <2>1, Division
  <2>4. QED
    BY <2>2, <2>3
<1>8. (i \div R) % C \in 0 .. C - 1 /\ (i \div RC) % D \in 0 .. D - 1
  BY <1>6, <1>7, Division
<1>9. (i % R) * ROWS \in Nat
  BY <1>7 DEF TwoByTwo
<1>10. c.b3 = i \div RCD /\ c.b2 = (i \div RC) % D /\ c.col = (i \div R) % C /\ c.row = (i % R) * ROWS
  BY <1>2, <1>3
<1>11. QED
  BY <1>1, <1>5, <1>8, <1>9, <1>10

\* What a cell of dst should hold.
Ref(j, d) ==
  SumOver(0, j.k - 1, [i \in 0 .. j.k - 1 |->
    j.w[<<d[1] \div j.src0_b3, d[2] \div j.src0_b2, d[4]>>][i]
      * j.scales[<<d[1], d[2], d[3]>>][i \div ABLOCK] * j.q[<<d[1], d[2], d[3]>>][i]])

\* A pair's input is one the lowering is about, and its rows are cells of dst.
LEMMA InputOfCell ==
  ASSUME TwoByTwo, NEW j, IsJob(j), NEW i \in Nat, i < NumCells(j), NEW c, c = CellAt(j, i)
  PROVE  /\ IsInput(CellInput(j, c)) /\ DOMAIN CellInput(j, c).w = PairRows(j, c)
         /\ \A r \in PairRows(j, c) : DstAt(c, r) \in Cells(j) /\ CellRef(CellInput(j, c), r) = Ref(j, DstAt(c, r))
<1>1. /\ c.row \in Nat /\ c.col \in 0 .. j.n_cols - 1
      /\ c.b2 \in 0 .. j.n_b2 - 1 /\ c.b3 \in 0 .. j.n_b3 - 1
  BY CellIndex
<1>. DEFINE b3 == c.b3
            b2 == c.b2
            col == c.col
            row == c.row
            x == CellInput(j, c)
            W(r) == j.w[<<b3 \div j.src0_b3, b2 \div j.src0_b2, row + r>>]
<1>2. /\ x.k = j.k /\ x.w = [r \in PairRows(j, c) |-> W(r)]
      /\ x.q = j.q[<<b3, b2, col>>] /\ x.scales = j.scales[<<b3, b2, col>>]
  BY Zenon DEF CellInput
<1>3. j.k \in Nat /\ j.n_rows \in Nat
  BY DEF IsJob
<1>4. /\ \A rw \in 0 .. j.n_rows - 1 : SignedScales(j.w[<<b3 \div j.src0_b3, b2 \div j.src0_b2, rw>>], j.k)
      /\ \A n \in 0 .. j.k - 1 : j.q[<<b3, b2, col>>][n] \in Act
      /\ \A n \in 0 .. j.k - 1 : j.scales[<<b3, b2, col>>][n \div ABLOCK] \in Int
  BY <1>1, Zenon DEF IsJob
<1>5. ASSUME NEW r \in PairRows(j, c)
      PROVE  r \in Row /\ row + r \in 0 .. j.n_rows - 1 /\ x.w[r] = W(r) /\ SignedScales(W(r), j.k)
  <2>1. r \in Row /\ row + r < j.n_rows
    BY DEF PairRows
  <2>2. r \in Nat
    BY <2>1, TwoFacts
  <2>3. row + r \in 0 .. j.n_rows - 1
    BY <1>1, <1>3, <2>1, <2>2
  <2>4. x.w[r] = W(r)
    BY <1>2
  <2>5. QED
    BY <1>4, <2>1, <2>3, <2>4
<1>6. DOMAIN x.w = PairRows(j, c)
  BY <1>2
<1>7. IsInput(x)
  <2>1. PairRows(j, c) \subseteq Row
    BY DEF PairRows
  <2>2. ASSUME NEW r \in DOMAIN x.w, NEW n \in 0 .. x.k - 1
        PROVE  /\ x.w[r][n] \in Int
               /\ \A m \in 0 .. x.k - 1 : m \div WGROUP = n \div WGROUP => Abs(x.w[r][m]) = Abs(x.w[r][n])
    <3>1. x.w[r] = W(r) /\ SignedScales(W(r), x.k)
      BY <1>2, <1>5, <1>6
    <3>. HIDE DEF W, x
    <3>2. SignedScales(x.w[r], x.k)
      BY <3>1
    <3>3. QED
      BY <3>2, Zenon DEF SignedScales
  <2>3. \A n \in 0 .. x.k - 1 : x.q[n] \in Act /\ x.scales[n \div ABLOCK] \in Int
    BY <1>2, <1>4
  <2>. HIDE DEF W, x
  <2>4. x.k \in Nat /\ DOMAIN x.w \subseteq Row
    BY <1>2, <1>3, <1>6, <2>1
  <2>5. QED
    BY <2>2, <2>3, <2>4 DEF IsInput
<1>8. ASSUME NEW r \in PairRows(j, c)
      PROVE  DstAt(c, r) \in Cells(j) /\ CellRef(x, r) = Ref(j, DstAt(c, r))
  <2>1. PICK d : d = DstAt(c, r)
    OBVIOUS
  <2>2. d = <<b3, b2, col, row + r>>
    BY <2>1 DEF DstAt
  <2>3. d \in Cells(j)
    BY <1>1, <1>5, <2>2 DEF Cells
  <2>4. d[1] = b3 /\ d[2] = b2 /\ d[3] = col /\ d[4] = row + r
    BY <2>2
  <2>5. CellRef(x, r) = SumOver(0, j.k - 1, [n \in 0 .. j.k - 1 |->
                          W(r)[n] * j.scales[<<b3, b2, col>>][n \div ABLOCK] * j.q[<<b3, b2, col>>][n]])
    <3>1. x.w[r] = W(r)
      BY <1>5
    <3>. HIDE DEF W, x
    <3>2. QED
      BY <1>2, <3>1 DEF CellRef
  <2>6. Ref(j, d) = SumOver(0, j.k - 1, [n \in 0 .. j.k - 1 |->
                          W(r)[n] * j.scales[<<b3, b2, col>>][n \div ABLOCK] * j.q[<<b3, b2, col>>][n]])
    BY <2>4 DEF Ref
  <2>7. QED
    BY <2>1, <2>3, <2>5, <2>6
<1>9. QED
  BY <1>6, <1>7, <1>8

\* The loops reach every cell.
LEMMA EveryCell ==
  ASSUME TwoByTwo, NEW j, IsJob(j), NEW d \in Cells(j)
  PROVE  \E i \in Nat : i < NumCells(j) /\ \E r \in PairRows(j, CellAt(j, i)) : d = DstAt(CellAt(j, i), r)
<1>1. PICK R \in Nat, C \in Nat, D \in Nat, E \in Nat :
           /\ R = RowPairs(j) /\ C = j.n_cols /\ D = j.n_b2 /\ E = j.n_b3
           /\ NumCells(j) = ((R * C) * D) * E
  BY LoopSizes
<1>2. PICK b3 \in 0 .. E - 1, b2 \in 0 .. D - 1, col \in 0 .. C - 1, row \in 0 .. j.n_rows - 1 :
        d = <<b3, b2, col, row>>
  BY <1>1 DEF Cells
<1>3. PICK n \in Nat : n = j.n_rows
  BY DEF IsJob
<1>4. PICK p \in Nat, r \in 0 .. 1 : row = 2 * p + r
  <2>1. row \in Nat
    BY <1>2
  <2>2. row \div 2 \in Nat /\ row % 2 \in 0 .. 1 /\ row = 2 * (row \div 2) + (row % 2)
    BY <2>1
  <2>3. QED
    BY <2>2
<1>5. p \in 0 .. R - 1
  <2>1. 2 * p < n /\ j.n_rows \in Nat
    BY <1>2, <1>3, <1>4
  <2>2. p < RowPairs(j)
    BY <1>3, <2>1, PairCount
  <2>3. QED
    BY <1>1, <2>2
<1>6. PICK RC \in Nat, RCD \in Nat : RC = R * C /\ RCD = RC * D
  OBVIOUS
<1>7. PICK u \in Nat : u = R * col + p /\ u \in 0 .. RC - 1
  BY <1>2, <1>5, <1>6, Nested
<1>8. PICK v \in Nat : v = RC * b2 + u /\ v \in 0 .. RCD - 1
  BY <1>2, <1>6, <1>7, Nested
<1>9. PICK i \in Nat : i = RCD * b3 + v /\ i \in 0 .. RCD * E - 1
  BY <1>2, <1>6, <1>8, Nested
<1>10. b3 \in Nat /\ b2 \in Nat /\ col \in Nat /\ E # 0 /\ D # 0 /\ C # 0 /\ R # 0 /\ RC # 0 /\ RCD # 0
  BY <1>2, <1>5, <1>7, <1>8
<1>11. i \div RCD = b3
  BY <1>8, <1>9, <1>10, RemainderUnique
<1>12. (i \div RC) % D = b2
  <2>1. PICK y \in Nat : y = D * b3 + b2
    BY <1>10
  <2>2. i = RC * y + u
    <3>1. (RC * D) * b3 + (RC * b2 + u) = RC * (D * b3 + b2) + u
      BY <1>10
    <3>2. QED
      BY <1>6, <1>8, <1>9, <2>1, <3>1
  <2>3. i \div RC = y
    BY <1>7, <1>10, <2>2, RemainderUnique
  <2>4. y % D = b2
    <3>1. D \in Nat \ {0} /\ b2 \in 0 .. D - 1 /\ b3 \in Int /\ y \in Int
      BY <1>2, <1>10
    <3>2. QED
      BY ONLY <3>1, <2>1, RemainderUnique
  <2>5. QED
    BY <2>3, <2>4
<1>13. (i \div R) % C = col /\ i % R = p
  <2>1. PICK y \in Nat : y = D * b3 + b2
    BY <1>10
  <2>2. PICK z \in Nat : z = C * y + col
    BY <1>10
  <2>3. i = R * z + p
    <3>1. ((R * C) * D) * b3 + ((R * C) * b2 + (R * col + p)) = R * (C * (D * b3 + b2) + col) + p
      BY <1>10
    <3>2. QED
      BY <1>6, <1>7, <1>8, <1>9, <2>1, <2>2, <3>1
  <2>4. i \div R = z /\ i % R = p
    BY <1>5, <1>10, <2>3, RemainderUnique
  <2>5. z % C = col
    <3>1. C \in Nat \ {0} /\ col \in 0 .. C - 1 /\ y \in Int /\ z \in Int
      BY <1>2, <1>10
    <3>2. QED
      BY ONLY <3>1, <2>2, RemainderUnique
  <2>6. QED
    BY <2>4, <2>5
<1>14. PICK c : c = CellAt(j, i)
  OBVIOUS
<1>15. c = [row |-> (i % R) * ROWS, col |-> (i \div R) % C, b2 |-> (i \div (R * C)) % D,
           b3 |-> i \div (R * C * D)]
  BY <1>1, <1>14 DEF CellAt
<1>16. c.row = p * 2 /\ c.col = col /\ c.b2 = b2 /\ c.b3 = b3
  BY <1>6, <1>11, <1>12, <1>13, <1>15 DEF TwoByTwo
<1>17. r \in PairRows(j, c)
  <2>1. c.row + r < j.n_rows
    BY <1>2, <1>3, <1>4, <1>16
  <2>2. r \in Row
    BY TwoFacts
  <2>3. QED
    BY <2>1, <2>2 DEF PairRows
<1>18. d = DstAt(c, r)
  <2>1. c.row + r = row
    BY <1>4, <1>16
  <2>2. QED
    BY <1>2, <1>16, <2>1 DEF DstAt
<1>19. i < NumCells(j)
  BY <1>1, <1>6, <1>9
<1>20. QED
  BY <1>14, <1>17, <1>18, <1>19

-----------------------------------------------------------------------------
(* The whole system: threads, link and chip. *)

\* What the constants give.
LEMMA Configured == Setup /\ BlocksFit /\ NoHost \notin Host /\ \A f \in Jobs : \A h \in Host : IsJob(f[h])
<1>1. TwoByTwo /\ PAD \in Nat /\ PAD >= 6
  BY MatmulAssumption DEF TwoByTwo
<1>2. BlocksFit /\ NoHost \notin Host
  BY MatmulAssumption, Zenon
<1>3. \A f \in Jobs : \A h \in Host : IsJob(f[h])
  BY MatmulAssumption, Zenon
<1>4. PAD + 1 >= TileLatency
  BY <1>1, TwoFacts
<1>5. QED
  BY <1>1, <1>2, <1>3, <1>4 DEF Setup

\* The input and the plan of round n of job j.
InputAt(j, n) == CellInput(j, CellAt(j, n))
PlanAt(j, n)  == BuildPlan(InputAt(j, n), LiveBlocks(InputAt(j, n)))

\* A thread with job j at round n of its loops, in state s.
ThreadOK(j, s, n, P, B, ps) ==
  /\ s \in {"build", "execute", "reply", "fold", "status", "error bit", "true"} /\ n \in Nat
  /\ s \in {"build", "execute", "reply", "fold"} => n < NumCells(j)
  /\ s \in {"execute", "reply", "fold"} => P = PlanAt(j, n)
  /\ s \in {"execute", "reply", "fold"} => B = SubBlocks(InputAt(j, n), LiveBlocks(InputAt(j, n)))
  /\ s = "fold" => PsumsRight(P, ps)
  /\ s = "status" => n = NumCells(j)

\* f holds the cells of the first n rounds, each with its dot product, and no other.
CellsOK(j, n, f) ==
  /\ \A d \in DOMAIN f : d \in Cells(j) /\ f[d] = Ref(j, d)
  /\ \A i \in Nat : i < n => \A r \in PairRows(j, CellAt(j, i)) : DstAt(CellAt(j, i), r) \in DOMAIN f

\* The link when no thread has it, and while a thread waits for its reply.
Quiet == FrameDone /\ rx = <<>> /\ Idle

Asked == /\ frame = <<>> /\ Idle
         /\ \/ cycles = <<Cycle("STATUS", 0, 0)>> /\ rx = <<>>
            \/ cycles = <<>> /\ rx = <<0>>

\* A thread and what it has written.
ThreadInv(h) == /\ ThreadOK(job[h], pc[h], cell[h], plan[h], sub_blocks[h], psums[h])
                /\ CellsOK(job[h], cell[h], dst[h])

\* The link belongs to the thread that holds io_mutex, in the middle of its frame.
LinkInv ==
  /\ io_mutex = NoHost => Quiet
  /\ \A h \in Host : pc[h] \in {"reply", "error bit"} <=> io_mutex = h
  /\ \A h \in Host : pc[h] = "reply" => \E P, t, p : P = plan[h] /\ At(P, t, p)
  /\ \A h \in Host : pc[h] = "error bit" => Asked

\* The threads have their jobs.
HostShape ==
  /\ job \in Jobs /\ io_mutex \in Host \cup {NoHost}
  /\ DOMAIN pc = Host /\ DOMAIN cell = Host /\ DOMAIN plan = Host /\ DOMAIN sub_blocks = Host
  /\ DOMAIN psums = Host /\ DOMAIN dst = Host

\* The inductive invariant.
MatmulInv == /\ ChipInv /\ HostShape /\ LinkInv
             /\ \A h \in Host : ThreadInv(h)

\* Setting the entry of one thread.
LEMMA SetEntry ==
  ASSUME NEW f, NEW S, DOMAIN f = S, NEW a \in S, NEW v, NEW g, g = [f EXCEPT ![a] = v]
  PROVE  DOMAIN g = S /\ g[a] = v /\ \A b \in S : b # a => g[b] = f[b]
OBVIOUS

\* A plan of a job can be run.
LEMMA JobPlan ==
  ASSUME TwoByTwo, BlocksFit, NEW j, IsJob(j), NEW n \in Nat, n < NumCells(j)
  PROVE  IsInput(InputAt(j, n)) /\ Runnable(PlanAt(j, n)) /\ DOMAIN InputAt(j, n).w = PairRows(j, CellAt(j, n))
<1>1. PICK x : x = InputAt(j, n)
  OBVIOUS
<1>2. IsInput(x) /\ DOMAIN x.w = PairRows(j, CellAt(j, n))
  BY <1>1, InputOfCell DEF InputAt
<1>3. PICK live : live = LiveBlocks(x)
  OBVIOUS
<1>4. live \in Seq(Nat) /\ \A i \in 1 .. Len(live) : IsBlock(x, live[i])
  <2>1. x.k \in Nat
    BY <1>2 DEF IsInput
  <2>2. QED
    BY <1>3, <2>1, LiveFacts
<1>5. PICK P : P = BuildPlan(x, live)
  OBVIOUS
<1>6. PICK o : Planned(x, live, P, o)
  BY <1>2, <1>4, <1>5, PlanIsPlanned
<1>7. Runnable(P)
  BY <1>2, <1>4, <1>6, PlanRunnable
<1>8. QED
  BY <1>1, <1>2, <1>3, <1>5, <1>7 DEF PlanAt

\* A pair is written.
LEMMA PairStored ==
  ASSUME TwoByTwo, NEW j, IsJob(j), NEW n \in Nat, n < NumCells(j), NEW f, CellsOK(j, n, f),
         NEW c, c = CellAt(j, n), NEW value,
         \A r \in PairRows(j, c) : value[r] = CellRef(InputAt(j, n), r)
  PROVE  CellsOK(j, n + 1, WithPair(f, c, PairRows(j, c), value))
<1>. DEFINE rows == PairRows(j, c)
            written == {DstAt(c, r) : r \in rows}
            g == WithPair(f, c, rows, value)
<1>1. /\ DOMAIN g = DOMAIN f \cup written
      /\ \A d \in DOMAIN f \cup written : g[d] = IF d \in written THEN value[d[4] - c.row] ELSE f[d]
  BY DEF WithPair
<1>2. /\ \A d \in DOMAIN f : d \in Cells(j) /\ f[d] = Ref(j, d)
      /\ \A i \in Nat : i < n => \A r \in PairRows(j, CellAt(j, i)) : DstAt(CellAt(j, i), r) \in DOMAIN f
  BY Zenon DEF CellsOK
<1>3. \A r \in rows : DstAt(c, r) \in Cells(j) /\ CellRef(InputAt(j, n), r) = Ref(j, DstAt(c, r))
  BY InputOfCell DEF InputAt
<1>4. \A r \in rows : DstAt(c, r)[4] - c.row = r
  <2>1. SUFFICES ASSUME NEW r \in rows PROVE DstAt(c, r)[4] - c.row = r
    OBVIOUS
  <2>2. r \in Nat
    BY TwoFacts DEF PairRows
  <2>3. PICK w \in Nat : w = c.row
    BY CellIndex
  <2>4. DstAt(c, r)[4] = w + r
    BY <2>3 DEF DstAt
  <2>5. QED
    BY <2>2, <2>3, <2>4
<1>. HIDE DEF g
<1>5. ASSUME NEW d \in DOMAIN g PROVE d \in Cells(j) /\ g[d] = Ref(j, d)
  <2>1. CASE d \in written
    <3>1. PICK r \in rows : d = DstAt(c, r)
      BY <2>1
    <3>2. g[d] = value[r]
      BY <1>1, <1>4, <2>1, <3>1
    <3>3. QED
      BY <1>3, <3>1, <3>2
  <2>2. CASE d \notin written
    <3>. HIDE DEF written
    <3>1. d \in DOMAIN f /\ g[d] = f[d]
      BY <1>1, <2>2
    <3>2. QED
      BY <1>2, <3>1
  <2>3. QED
    BY <2>1, <2>2
<1>6. ASSUME NEW i \in Nat, i < n + 1, NEW r \in PairRows(j, CellAt(j, i))
      PROVE  DstAt(CellAt(j, i), r) \in DOMAIN g
  <2>1. CASE i < n
    BY <1>1, <1>2, <2>1
  <2>2. CASE i = n
    <3>1. DstAt(CellAt(j, i), r) \in written
      BY <2>2
    <3>2. QED
      BY <1>1, <3>1
  <2>3. QED
    BY <1>6, <2>1, <2>2
<1>7. CellsOK(j, n + 1, g)
  BY <1>5, <1>6 DEF CellsOK
<1>8. QED
  BY <1>7 DEF g

\* Nothing reached the link or the chip.
LEMMA SameLink ==
  ASSUME UNCHANGED <<vars, frame, cycles, rx>>
  PROVE  /\ Quiet => Quiet'
         /\ Asked => Asked'
         /\ \A P, t, p : At(P, t, p) => At(P, t, p)'
<1>1. /\ UNCHANGED <<weight_mem, act_mem, acc_q, acc_done, error_latched>>
      /\ Acc' = Acc /\ (Idle' <=> Idle) /\ Remaining' = Remaining
  BY SameChip
<1>2. frame' = frame /\ cycles' = cycles /\ rx' = rx
  OBVIOUS
<1>3. Quiet => Quiet'
  BY <1>1, <1>2 DEF Quiet, FrameDone
<1>4. Asked => Asked'
  BY <1>1, <1>2 DEF Asked
<1>5. ASSUME NEW P, NEW t, NEW p, At(P, t, p) PROVE At(P, t, p)'
  <2>1. Framed(P, t) => Framed(P, t)'
    BY <1>2 DEF Framed
  <2>2. Replied(P, t, p) => Replied(P, t, p)'
    BY <1>2 DEF Replied
  <2>3. ASSUME NEW op, Timed(op, p) PROVE Timed(op, p)'
    BY <1>1, <2>3 DEF Timed
  <2>4. ASSUME NEW op, NEW u, NEW v, Loaded(op, u, v, p) PROVE Loaded(op, u, v, p)'
    BY <1>1, <2>4 DEF Loaded
  <2>5. Cycling(P, t, p) => Cycling(P, t, p)'
    <3>1. Timed(P[t], p) => Timed(P[t], p)'
      BY <2>3
    <3>2. Loaded(P[t], Before(P, t), After(P, t), p) => Loaded(P[t], Before(P, t), After(P, t), p)'
      BY <2>4
    <3>3. QED
      BY <1>1, <1>2, <3>1, <3>2 DEF Cycling
  <2>6. QED
    BY <1>5, <2>1, <2>2, <2>5 DEF At
<1>6. QED
  BY <1>3, <1>4, <1>5

\* What a step leaves of the threads other than h.
OthersSame(h) ==
  \A g \in Host : g # h =>
    /\ pc'[g] = pc[g] /\ cell'[g] = cell[g] /\ plan'[g] = plan[g]
    /\ sub_blocks'[g] = sub_blocks[g] /\ psums'[g] = psums[g] /\ dst'[g] = dst[g]

\* A step of one thread keeps the others' invariants.
LEMMA OthersKeep ==
  ASSUME \A h \in Host : ThreadInv(h), NEW h \in Host, OthersSame(h), job' = job, ThreadInv(h)'
  PROVE  \A g \in Host : ThreadInv(g)'
<1>1. SUFFICES ASSUME NEW g \in Host PROVE ThreadInv(g)'
  OBVIOUS
<1>2. CASE g = h
  BY <1>2
<1>3. CASE g # h
  BY <1>3 DEF OthersSame, ThreadInv
<1>4. QED
  BY <1>2, <1>3

\* A step of a thread that does not touch the link.
LEMMA LinkKept ==
  ASSUME LinkInv, UNCHANGED <<vars, wire>>, NEW h \in Host, OthersSame(h),
         pc[h] \notin {"reply", "error bit"}, pc'[h] \notin {"reply", "error bit"}
  PROVE  LinkInv'
<1>1. UNCHANGED <<vars, frame, cycles, rx>> /\ io_mutex' = io_mutex
  BY DEF wire
<1>2. /\ Quiet => Quiet'
      /\ Asked => Asked'
      /\ \A P, t, p : At(P, t, p) => At(P, t, p)'
  BY <1>1, SameLink
<1>3. /\ io_mutex = NoHost => Quiet
      /\ \A g \in Host : pc[g] \in {"reply", "error bit"} <=> io_mutex = g
      /\ \A g \in Host : pc[g] = "reply" => \E P, t, p : P = plan[g] /\ At(P, t, p)
      /\ \A g \in Host : pc[g] = "error bit" => Asked
  BY Zenon DEF LinkInv
<1>4. \A g \in Host : g # h => pc'[g] = pc[g] /\ plan'[g] = plan[g]
  BY DEF OthersSame
<1>5. \A g \in Host : pc'[g] \in {"reply", "error bit"} <=> io_mutex' = g
  BY <1>1, <1>3, <1>4
<1>6. ASSUME NEW g \in Host, pc'[g] = "reply" PROVE \E P, t, p : P = plan'[g] /\ At(P, t, p)'
  <2>1. g # h /\ pc[g] = "reply" /\ plan'[g] = plan[g]
    BY <1>4, <1>6
  <2>2. PICK P, t, p : P = plan[g] /\ At(P, t, p)
    BY <1>3, <2>1
  <2>3. At(P, t, p)'
    BY <1>2, <2>2
  <2>4. QED
    BY <2>1, <2>2, <2>3
<1>7. \A g \in Host : pc'[g] = "error bit" => Asked'
  BY <1>2, <1>3, <1>4
<1>8. io_mutex' = NoHost => Quiet'
  BY <1>1, <1>2, <1>3
<1>9. QED
  BY <1>5, <1>6, <1>7, <1>8 DEF LinkInv

\* The pair's cells are written: the thread goes on.
LEMMA StoreKeeps ==
  ASSUME TwoByTwo, HostShape, NEW h \in Host, IsJob(job[h]), cell[h] \in Nat, cell[h] < NumCells(job[h]),
         CellsOK(job[h], cell[h], dst[h]), NEW value, StoreCell(h, value), job' = job,
         \A r \in PairRows(job[h], CellAt(job[h], cell[h])) : value[r] = CellRef(InputAt(job[h], cell[h]), r)
  PROVE  /\ ThreadInv(h)' /\ pc'[h] \in {"status", "build"}
         /\ DOMAIN pc' = Host /\ DOMAIN cell' = Host /\ DOMAIN dst' = Host
         /\ \A g \in Host : g # h => pc'[g] = pc[g] /\ cell'[g] = cell[g] /\ dst'[g] = dst[g]
<1>1. PICK j, n, f, c : j = job[h] /\ n = cell[h] /\ f = dst[h] /\ c = CellAt(j, n)
  OBVIOUS
<1>2. /\ dst' = [dst EXCEPT ![h] = WithPair(f, c, PairRows(j, c), value)]
      /\ cell' = [cell EXCEPT ![h] = n + 1]
      /\ pc' = [pc EXCEPT ![h] = IF n + 1 = NumCells(j) THEN "status" ELSE "build"]
  BY <1>1 DEF StoreCell
<1>3. DOMAIN pc = Host /\ DOMAIN cell = Host /\ DOMAIN dst = Host
  BY DEF HostShape
<1>4. DOMAIN pc' = Host /\ pc'[h] = (IF n + 1 = NumCells(j) THEN "status" ELSE "build")
      /\ \A g \in Host : g # h => pc'[g] = pc[g]
  BY <1>2, <1>3, SetEntry
<1>5. DOMAIN cell' = Host /\ cell'[h] = n + 1 /\ \A g \in Host : g # h => cell'[g] = cell[g]
  BY <1>2, <1>3, SetEntry
<1>6. DOMAIN dst' = Host /\ dst'[h] = WithPair(f, c, PairRows(j, c), value)
      /\ \A g \in Host : g # h => dst'[g] = dst[g]
  BY <1>2, <1>3, SetEntry
<1>7. CellsOK(j, n + 1, WithPair(f, c, PairRows(j, c), value))
  BY <1>1, PairStored
<1>8. CellsOK(job[h], cell[h], dst[h])'
  BY <1>1, <1>5, <1>6, <1>7
<1>9. n \in Nat /\ n < NumCells(j) /\ NumCells(j) \in Nat
  <2>1. IsJob(j)
    BY <1>1
  <2>2. PICK R \in Nat, C \in Nat, D \in Nat, E \in Nat : NumCells(j) = E * D * C * R
    BY <2>1, LoopSizes
  <2>3. QED
    BY <1>1, <2>2
<1>10. n + 1 \in Nat /\ (n + 1 # NumCells(j) => n + 1 < NumCells(j))
  BY <1>9
<1>11. pc'[h] = "status" \/ pc'[h] = "build"
  BY <1>4
<1>12. ThreadOK(j, pc'[h], n + 1, plan'[h], sub_blocks'[h], psums'[h])
  <2>1. CASE n + 1 = NumCells(j)
    BY <1>4, <1>10, <2>1 DEF ThreadOK
  <2>2. CASE n + 1 # NumCells(j)
    BY <1>4, <1>10, <2>2 DEF ThreadOK
  <2>3. QED
    BY <2>1, <2>2
<1>13. ThreadInv(h)'
  BY <1>1, <1>5, <1>8, <1>12 DEF ThreadInv
<1>14. QED
  BY <1>4, <1>5, <1>6, <1>11, <1>13

\* A thread at work, taken apart.
LEMMA Thread ==
  ASSUME MatmulInv, NEW h \in Host
  PROVE  /\ Setup /\ TwoByTwo /\ BlocksFit /\ IsJob(job[h]) /\ cell[h] \in Nat
         /\ ThreadOK(job[h], pc[h], cell[h], plan[h], sub_blocks[h], psums[h])
         /\ CellsOK(job[h], cell[h], dst[h])
         /\ pc[h] \in {"build", "execute", "reply", "fold"} => cell[h] < NumCells(job[h])
         /\ pc[h] \in {"execute", "reply", "fold"} =>
              plan[h] = PlanAt(job[h], cell[h]) /\ Runnable(plan[h])
<1>1. Setup /\ TwoByTwo /\ BlocksFit
  BY Configured DEF Setup
<1>2. IsJob(job[h])
  BY Configured DEF MatmulInv, HostShape
<1>3. /\ ThreadOK(job[h], pc[h], cell[h], plan[h], sub_blocks[h], psums[h])
      /\ CellsOK(job[h], cell[h], dst[h])
  BY DEF MatmulInv, ThreadInv
<1>4. cell[h] \in Nat /\ (pc[h] \in {"build", "execute", "reply", "fold"} => cell[h] < NumCells(job[h]))
  BY <1>3 DEF ThreadOK
<1>5. ASSUME pc[h] \in {"execute", "reply", "fold"} PROVE plan[h] = PlanAt(job[h], cell[h]) /\ Runnable(plan[h])
  <2>1. plan[h] = PlanAt(job[h], cell[h])
    BY <1>3, <1>5 DEF ThreadOK
  <2>2. cell[h] < NumCells(job[h])
    BY <1>4, <1>5
  <2>3. QED
    BY <1>1, <1>2, <1>4, <2>1, <2>2, JobPlan
<1>6. QED
  BY <1>1, <1>2, <1>3, <1>4, <1>5

\* The link's part of the invariant, for one thread.
LEMMA Link ==
  ASSUME MatmulInv
  PROVE  /\ NoHost \notin Host /\ ChipInv /\ io_mutex \in Host \cup {NoHost}
         /\ io_mutex = NoHost => Quiet
         /\ \A h \in Host : pc[h] \in {"reply", "error bit"} <=> io_mutex = h
         /\ \A h \in Host : pc[h] = "reply" => \E P, t, p : P = plan[h] /\ At(P, t, p)
         /\ \A h \in Host : pc[h] = "error bit" => Asked
<1>1. NoHost \notin Host
  BY Configured, Zenon
<1>2. QED
  BY <1>1, Zenon DEF MatmulInv, LinkInv, HostShape

\* Build keeps the invariant: an empty plan stores zeros, and the dot products are zero.
LEMMA BuildStep ==
  ASSUME MatmulInv, NEW h \in Host, Build(h)
  PROVE  MatmulInv'
<1>1. /\ TwoByTwo /\ BlocksFit /\ IsJob(job[h]) /\ cell[h] \in Nat
      /\ CellsOK(job[h], cell[h], dst[h]) /\ pc[h] = "build" /\ cell[h] < NumCells(job[h])
  BY Thread DEF Build
<1>2. PICK x, live, P, B : /\ x = InputAt(job[h], cell[h]) /\ live = LiveBlocks(x)
                           /\ P = BuildPlan(x, live) /\ B = SubBlocks(x, live)
  OBVIOUS
<1>3. /\ plan' = [plan EXCEPT ![h] = P] /\ sub_blocks' = [sub_blocks EXCEPT ![h] = B]
      /\ \/ plan'[h] = <<>> /\ StoreCell(h, [r \in Row |-> 0])
         \/ plan'[h] # <<>> /\ pc' = [pc EXCEPT ![h] = "execute"] /\ UNCHANGED <<cell, dst>>
      /\ UNCHANGED vars /\ job' = job /\ psums' = psums /\ UNCHANGED wire
  BY <1>2 DEF Build, InputAt
<1>4. /\ job \in Jobs /\ io_mutex \in Host \cup {NoHost}
      /\ DOMAIN pc = Host /\ DOMAIN cell = Host /\ DOMAIN plan = Host /\ DOMAIN sub_blocks = Host
      /\ DOMAIN psums = Host /\ DOMAIN dst = Host
  BY DEF MatmulInv, HostShape
<1>5. DOMAIN plan' = Host /\ plan'[h] = P /\ \A g \in Host : g # h => plan'[g] = plan[g]
  BY <1>3, <1>4, SetEntry
<1>6. DOMAIN sub_blocks' = Host /\ sub_blocks'[h] = B /\ \A g \in Host : g # h => sub_blocks'[g] = sub_blocks[g]
  BY <1>3, <1>4, SetEntry
<1>. DEFINE Kept == /\ ThreadInv(h)' /\ pc'[h] \notin {"reply", "error bit"}
                    /\ DOMAIN pc' = Host /\ DOMAIN cell' = Host /\ DOMAIN dst' = Host
                    /\ \A g \in Host : g # h => pc'[g] = pc[g] /\ cell'[g] = cell[g] /\ dst'[g] = dst[g]
<1>7. ASSUME plan'[h] = <<>> /\ StoreCell(h, [r \in Row |-> 0]) PROVE Kept
  <2>1. IsInput(x) /\ DOMAIN x.w = PairRows(job[h], CellAt(job[h], cell[h]))
    BY <1>1, <1>2, JobPlan
  <2>2. P = <<>>
    BY <1>5, <1>7
  <2>3. PICK value : value = [r \in Row |-> 0]
    OBVIOUS
  <2>4. ASSUME NEW r \in PairRows(job[h], CellAt(job[h], cell[h]))
        PROVE  value[r] = CellRef(InputAt(job[h], cell[h]), r)
    <3>1. CellRef(x, r) = 0
      BY <1>1, <1>2, <2>1, <2>2, EmptyPlan
    <3>2. r \in Row
      BY DEF PairRows
    <3>3. QED
      BY <1>2, <2>3, <3>1, <3>2
  <2>5. HostShape /\ StoreCell(h, value)
    BY <1>7, <2>3 DEF MatmulInv
  <2>6. /\ ThreadInv(h)' /\ pc'[h] \in {"status", "build"}
        /\ DOMAIN pc' = Host /\ DOMAIN cell' = Host /\ DOMAIN dst' = Host
        /\ \A g \in Host : g # h => pc'[g] = pc[g] /\ cell'[g] = cell[g] /\ dst'[g] = dst[g]
    BY <1>1, <1>3, <2>4, <2>5, StoreKeeps
  <2>7. pc'[h] \notin {"reply", "error bit"}
    BY <2>6
  <2>8. QED
    BY <2>6, <2>7
<1>8. ASSUME plan'[h] # <<>> /\ pc' = [pc EXCEPT ![h] = "execute"] /\ UNCHANGED <<cell, dst>> PROVE Kept
  <2>1. DOMAIN pc' = Host /\ pc'[h] = "execute" /\ \A g \in Host : g # h => pc'[g] = pc[g]
    BY <1>4, <1>8, SetEntry
  <2>2. cell' = cell /\ dst' = dst
    BY <1>8
  <2>3. P = PlanAt(job[h], cell[h]) /\ B = SubBlocks(InputAt(job[h], cell[h]), LiveBlocks(InputAt(job[h], cell[h])))
    BY <1>2 DEF PlanAt
  <2>4. ThreadOK(job[h], "execute", cell[h], P, B, psums[h])
    BY <1>1, <2>3 DEF ThreadOK
  <2>5. ThreadInv(h)'
    BY <1>1, <1>3, <1>5, <1>6, <2>1, <2>2, <2>4 DEF ThreadInv
  <2>6. QED
    BY <1>4, <2>1, <2>2, <2>5
<1>9. Kept
  BY <1>3, <1>7, <1>8
<1>10. OthersSame(h)
  BY <1>3, <1>5, <1>6, <1>9 DEF OthersSame
<1>11. \A g \in Host : ThreadInv(g)'
  BY <1>3, <1>9, <1>10, OthersKeep DEF MatmulInv
<1>12. LinkInv'
  <2>1. LinkInv /\ UNCHANGED <<vars, wire>>
    BY <1>3 DEF MatmulInv
  <2>2. pc[h] \notin {"reply", "error bit"}
    BY <1>1
  <2>3. QED
    BY <1>9, <1>10, <2>1, <2>2, LinkKept
<1>13. ChipInv'
  BY <1>3, SameChip DEF MatmulInv
<1>14. HostShape'
  BY <1>3, <1>4, <1>5, <1>6, <1>9 DEF HostShape, wire
<1>15. QED
  BY <1>11, <1>12, <1>13, <1>14 DEF MatmulInv

\* Fold keeps it: the run tails fold into the dot products.
LEMMA FoldStep ==
  ASSUME MatmulInv, NEW h \in Host, Fold(h)
  PROVE  MatmulInv'
<1>1. /\ TwoByTwo /\ BlocksFit /\ IsJob(job[h]) /\ cell[h] \in Nat
      /\ CellsOK(job[h], cell[h], dst[h]) /\ pc[h] = "fold" /\ cell[h] < NumCells(job[h])
      /\ ThreadOK(job[h], pc[h], cell[h], plan[h], sub_blocks[h], psums[h])
  BY Thread DEF Fold
<1>2. PICK x, live, ps, value :
        /\ x = InputAt(job[h], cell[h]) /\ live = LiveBlocks(x) /\ ps = psums[h]
        /\ value = [r \in Row |-> FoldRow(sub_blocks[h], psums[h], r)]
  OBVIOUS
<1>3. StoreCell(h, value) /\ UNCHANGED <<vars, wire>> /\ UNCHANGED <<job, plan, sub_blocks, psums>>
  BY <1>2 DEF Fold
<1>4. plan[h] = BuildPlan(x, live) /\ sub_blocks[h] = SubBlocks(x, live) /\ PsumsRight(plan[h], ps)
  BY <1>1, <1>2 DEF ThreadOK, PlanAt
<1>5. IsInput(x) /\ DOMAIN x.w = PairRows(job[h], CellAt(job[h], cell[h]))
  BY <1>1, <1>2, JobPlan
<1>6. ASSUME NEW r \in PairRows(job[h], CellAt(job[h], cell[h]))
      PROVE  value[r] = CellRef(InputAt(job[h], cell[h]), r)
  <2>1. r \in Row
    BY DEF PairRows
  <2>2. value[r] = FoldRow(SubBlocks(x, live), ps, r)
    BY <1>2, <1>4, <2>1
  <2>3. PsumsRight(BuildPlan(x, live), ps)
    BY <1>4
  <2>4. FoldRow(SubBlocks(x, live), ps, r) = CellRef(x, r)
    BY <1>1, <1>2, <1>5, <2>3, FoldExact
  <2>5. QED
    BY <1>2, <2>2, <2>4
<1>7. /\ ThreadInv(h)' /\ pc'[h] \in {"status", "build"}
      /\ DOMAIN pc' = Host /\ DOMAIN cell' = Host /\ DOMAIN dst' = Host
      /\ \A g \in Host : g # h => pc'[g] = pc[g] /\ cell'[g] = cell[g] /\ dst'[g] = dst[g]
  <2>1. HostShape /\ job' = job
    BY <1>3 DEF MatmulInv
  <2>2. QED
    BY <1>1, <1>3, <1>6, <2>1, StoreKeeps
<1>8. OthersSame(h)
  BY <1>3, <1>7 DEF OthersSame
<1>9. \A g \in Host : ThreadInv(g)'
  BY <1>3, <1>7, <1>8, OthersKeep DEF MatmulInv
<1>10. LinkInv'
  <2>1. LinkInv
    BY DEF MatmulInv
  <2>2. pc[h] \notin {"reply", "error bit"} /\ pc'[h] \notin {"reply", "error bit"}
    BY <1>1, <1>7
  <2>3. QED
    BY <1>3, <1>8, <2>1, <2>2, LinkKept
<1>11. ChipInv'
  BY <1>3, SameChip DEF MatmulInv
<1>12. HostShape'
  BY <1>3, <1>7 DEF HostShape, MatmulInv, wire
<1>13. QED
  BY <1>9, <1>10, <1>11, <1>12 DEF MatmulInv

\* The steps that only move the thread's program counter and the link.
LEMMA PcStep ==
  ASSUME MatmulInv, NEW h \in Host, NEW s, pc' = [pc EXCEPT ![h] = s],
         UNCHANGED <<job, cell, plan, sub_blocks, dst>>, DOMAIN psums' = Host,
         \A g \in Host : g # h => psums'[g] = psums[g],
         ThreadOK(job[h], s, cell[h], plan[h], sub_blocks[h], psums'[h]),
         io_mutex' \in Host \cup {NoHost}
  PROVE  /\ HostShape' /\ (\A g \in Host : ThreadInv(g)')
         /\ pc'[h] = s /\ \A g \in Host : g # h => pc'[g] = pc[g]
<1>1. /\ job \in Jobs /\ DOMAIN pc = Host /\ DOMAIN cell = Host /\ DOMAIN plan = Host /\ DOMAIN sub_blocks = Host
      /\ DOMAIN dst = Host
  BY DEF MatmulInv, HostShape
<1>2. DOMAIN pc' = Host /\ pc'[h] = s /\ \A g \in Host : g # h => pc'[g] = pc[g]
  BY <1>1, SetEntry
<1>3. OthersSame(h)
  BY <1>2 DEF OthersSame
<1>4. ThreadInv(h)'
  <2>1. CellsOK(job[h], cell[h], dst[h])
    BY DEF MatmulInv, ThreadInv
  <2>2. QED
    BY <1>2, <2>1 DEF ThreadInv
<1>5. \A g \in Host : ThreadInv(g)'
  BY <1>3, <1>4, OthersKeep DEF MatmulInv
<1>6. HostShape'
  BY <1>1, <1>2 DEF HostShape
<1>7. QED
  BY <1>2, <1>5, <1>6

\* Execute keeps it: the frame is at its beginning.
LEMMA ExecuteStep ==
  ASSUME MatmulInv, NEW h \in Host, Execute(h)
  PROVE  MatmulInv'
<1>1. /\ pc[h] = "execute" /\ io_mutex = NoHost /\ io_mutex' = h
      /\ frame' = [i \in DOMAIN plan[h] |-> PackDesc(plan[h][i])]
      /\ pc' = [pc EXCEPT ![h] = "reply"] /\ UNCHANGED vars /\ psums' = psums
      /\ UNCHANGED <<job, cell, plan, sub_blocks, dst>> /\ cycles' = cycles /\ rx' = rx
  BY DEF Execute
<1>2. /\ ThreadOK(job[h], pc[h], cell[h], plan[h], sub_blocks[h], psums[h])
      /\ Runnable(plan[h])
  BY <1>1, Thread
<1>3. ThreadOK(job[h], "reply", cell[h], plan[h], sub_blocks[h], psums'[h])
  BY <1>1, <1>2 DEF ThreadOK
<1>4. /\ HostShape' /\ (\A g \in Host : ThreadInv(g)')
      /\ pc'[h] = "reply" /\ \A g \in Host : g # h => pc'[g] = pc[g]
  <2>1. DOMAIN psums' = Host /\ \A g \in Host : g # h => psums'[g] = psums[g]
    BY <1>1 DEF MatmulInv, HostShape
  <2>2. io_mutex' \in Host \cup {NoHost}
    BY <1>1
  <2>3. QED
    BY <1>1, <1>3, <2>1, <2>2, PcStep
<1>5. /\ NoHost \notin Host /\ Quiet
      /\ \A g \in Host : pc[g] \in {"reply", "error bit"} <=> io_mutex = g
  BY <1>1, Link
<1>6. PICK P : P = plan[h]
  OBVIOUS
<1>7. At(P, 0, 0)'
  <2>1. Idle' /\ cycles' = <<>> /\ rx' = <<>>
    BY <1>1, <1>5, SameChip DEF Quiet, FrameDone
  <2>2. P \in Seq(OpSet)
    BY <1>2, <1>6 DEF Runnable
  <2>3. frame' = [i \in DOMAIN P |-> PackDesc(P[i])]
    BY <1>1, <1>6
  <2>4. QED
    BY <2>1, <2>2, <2>3, FrameSent
<1>8. \A g \in Host : pc[g] \notin {"reply", "error bit"}
  BY <1>1, <1>5
<1>9. LinkInv'
  <2>1. \A g \in Host : pc'[g] \in {"reply", "error bit"} <=> io_mutex' = g
    BY <1>1, <1>4, <1>8
  <2>2. ASSUME NEW g \in Host, pc'[g] = "reply" PROVE \E Q, t, p : Q = plan'[g] /\ At(Q, t, p)'
    <3>1. g = h
      BY <1>4, <1>8, <2>2
    <3>2. P = plan'[g]
      BY <1>1, <1>6, <3>1
    <3>3. QED
      BY <1>7, <3>2
  <2>3. \A g \in Host : pc'[g] # "error bit"
    BY <1>4, <1>8
  <2>4. io_mutex' # NoHost
    BY <1>1, <1>5
  <2>5. QED
    BY <2>1, <2>2, <2>3, <2>4 DEF LinkInv
<1>10. ChipInv'
  BY <1>1, SameChip DEF MatmulInv
<1>11. QED
  BY <1>4, <1>9, <1>10 DEF MatmulInv

\* The link is quiet once the thread that had it is done with it.
LEMMA LinkFreed ==
  ASSUME MatmulInv, NEW h \in Host, io_mutex = h, io_mutex' = NoHost, Quiet',
         pc'[h] \notin {"reply", "error bit"}, \A g \in Host : g # h => pc'[g] = pc[g]
  PROVE  LinkInv'
<1>1. /\ NoHost \notin Host
      /\ \A g \in Host : pc[g] \in {"reply", "error bit"} <=> io_mutex = g
  BY Link
<1>2. \A g \in Host : pc'[g] \notin {"reply", "error bit"}
  BY <1>1
<1>3. \A g \in Host : pc'[g] \in {"reply", "error bit"} <=> io_mutex' = g
  BY <1>1, <1>2
<1>4. \A g \in Host : pc'[g] # "reply" /\ pc'[g] # "error bit"
  BY <1>2
<1>5. QED
  BY <1>3, <1>4 DEF LinkInv

\* Reply keeps it: the host finds the exact sums.
LEMMA ReplyStep ==
  ASSUME MatmulInv, NEW h \in Host, Reply(h)
  PROVE  MatmulInv'
<1>1. PICK P, R : /\ P = plan[h]
                  /\ R = [i \in DOMAIN P |-> [r \in Row |->
                            IF P[i].ends_run
                            THEN ParsePsum(SubSeq(rx, Tails(P, i) * ROWS * PsumBytes + 1, Len(rx)), r) ELSE 0]]
  OBVIOUS
<1>2. /\ pc[h] = "reply" /\ FrameDone /\ psums' = [psums EXCEPT ![h] = R] /\ rx' = <<>> /\ io_mutex' = NoHost
      /\ pc' = [pc EXCEPT ![h] = "fold"] /\ UNCHANGED vars
      /\ UNCHANGED <<job, cell, plan, sub_blocks, dst>> /\ frame' = frame /\ cycles' = cycles
  BY <1>1 DEF Reply, Tails
<1>3. /\ Setup /\ ThreadOK(job[h], pc[h], cell[h], plan[h], sub_blocks[h], psums[h])
      /\ Runnable(P)
  BY <1>1, <1>2, Thread
<1>4. PICK t, p : At(P, t, p)
  BY <1>1, <1>2, Link
<1>5. ChipInv
  BY DEF MatmulInv
<1>6. P \in Seq(OpSet) /\ DOMAIN P = 1 .. Len(P)
  BY <1>3 DEF Runnable
<1>7. PsumsRight(P, R)
  <2>1. SUFFICES ASSUME NEW i \in 1 .. Len(P), P[i].ends_run, NEW r \in Row PROVE R[i][r] = RunSums(P, r)[i]
    BY DEF PsumsRight
  <2>2. R[i][r] = ParsePsum(SubSeq(rx, Tails(P, i) * ROWS * PsumBytes + 1, Len(rx)), r)
    BY <1>1, <1>6, <2>1
  <2>3. QED
    BY <1>2, <1>3, <1>4, <1>5, <2>1, <2>2, ReplyAt
<1>8. DOMAIN psums' = Host /\ psums'[h] = R /\ \A g \in Host : g # h => psums'[g] = psums[g]
  BY <1>2, SetEntry DEF MatmulInv, HostShape
<1>9. ThreadOK(job[h], "fold", cell[h], plan[h], sub_blocks[h], psums'[h])
  BY <1>1, <1>2, <1>3, <1>7, <1>8 DEF ThreadOK
<1>10. /\ HostShape' /\ (\A g \in Host : ThreadInv(g)')
       /\ pc'[h] = "fold" /\ \A g \in Host : g # h => pc'[g] = pc[g]
  <2>1. io_mutex' \in Host \cup {NoHost}
    BY <1>2
  <2>2. QED
    BY <1>2, <1>8, <1>9, <2>1, PcStep
<1>11. Quiet'
  <2>1. cycles = <<>>
    BY <1>2 DEF FrameDone
  <2>2. Idle
    BY <1>3, <1>4, <1>5, <1>6, <2>1, TileDone
  <2>3. Idle'
    BY <1>2, <2>2, SameChip
  <2>4. QED
    BY <1>2, <2>3 DEF Quiet, FrameDone
<1>12. LinkInv'
  <2>1. io_mutex = h
    BY <1>2, Link
  <2>2. QED
    BY <1>2, <1>10, <1>11, <2>1, LinkFreed
<1>13. ChipInv'
  BY <1>2, <1>5, SameChip
<1>14. QED
  BY <1>10, <1>12, <1>13 DEF MatmulInv

\* AskStatus keeps it.
LEMMA AskStep ==
  ASSUME MatmulInv, NEW h \in Host, AskStatus(h)
  PROVE  MatmulInv'
<1>1. /\ pc[h] = "status" /\ io_mutex = NoHost /\ io_mutex' = h
      /\ cycles' = <<Cycle("STATUS", 0, 0)>>
      /\ pc' = [pc EXCEPT ![h] = "error bit"] /\ UNCHANGED vars /\ psums' = psums
      /\ UNCHANGED <<job, cell, plan, sub_blocks, dst>> /\ frame' = frame /\ rx' = rx
  BY DEF AskStatus
<1>2. ThreadOK(job[h], pc[h], cell[h], plan[h], sub_blocks[h], psums[h])
  BY Thread
<1>3. ThreadOK(job[h], "error bit", cell[h], plan[h], sub_blocks[h], psums'[h])
  BY <1>1, <1>2 DEF ThreadOK
<1>4. /\ HostShape' /\ (\A g \in Host : ThreadInv(g)')
      /\ pc'[h] = "error bit" /\ \A g \in Host : g # h => pc'[g] = pc[g]
  <2>1. DOMAIN psums' = Host /\ \A g \in Host : g # h => psums'[g] = psums[g]
    BY <1>1 DEF MatmulInv, HostShape
  <2>2. io_mutex' \in Host \cup {NoHost}
    BY <1>1
  <2>3. QED
    BY <1>1, <1>3, <2>1, <2>2, PcStep
<1>5. /\ NoHost \notin Host /\ Quiet
      /\ \A g \in Host : pc[g] \in {"reply", "error bit"} <=> io_mutex = g
  BY <1>1, Link
<1>6. \A g \in Host : pc[g] \notin {"reply", "error bit"}
  BY <1>1, <1>5
<1>7. Asked'
  <2>1. Idle'
    BY <1>1, <1>5, SameChip DEF Quiet
  <2>2. QED
    BY <1>1, <1>5, <2>1 DEF Asked, Quiet, FrameDone
<1>8. LinkInv'
  <2>1. \A g \in Host : pc'[g] \in {"reply", "error bit"} <=> io_mutex' = g
    BY <1>1, <1>4, <1>6
  <2>2. \A g \in Host : pc'[g] # "reply"
    BY <1>4, <1>6
  <2>3. io_mutex' # NoHost
    BY <1>1, <1>5
  <2>4. QED
    BY <1>7, <2>1, <2>2, <2>3 DEF LinkInv
<1>9. ChipInv'
  BY <1>1, SameChip DEF MatmulInv
<1>10. QED
  BY <1>4, <1>8, <1>9 DEF MatmulInv

\* ReadStatus keeps it: the error bit is clear.
LEMMA ReadStep ==
  ASSUME MatmulInv, NEW h \in Host, ReadStatus(h)
  PROVE  MatmulInv'
<1>1. /\ pc[h] = "error bit" /\ FrameDone /\ rx' = <<>> /\ io_mutex' = NoHost
      /\ pc' = [pc EXCEPT ![h] = IF rx[1] = 0 THEN "true" ELSE "false"] /\ UNCHANGED vars /\ psums' = psums
      /\ UNCHANGED <<job, cell, plan, sub_blocks, dst>> /\ frame' = frame /\ cycles' = cycles
  BY DEF ReadStatus
<1>2. Asked /\ io_mutex = h
  BY <1>1, Link
<1>3. rx = <<0>> /\ Idle
  <2>1. cycles = <<>>
    BY <1>1 DEF FrameDone
  <2>2. cycles # <<Cycle("STATUS", 0, 0)>>
    BY <2>1
  <2>3. QED
    BY <1>2, <2>2, Zenon DEF Asked
<1>4. pc' = [pc EXCEPT ![h] = "true"]
  BY <1>1, <1>3
<1>5. ThreadOK(job[h], pc[h], cell[h], plan[h], sub_blocks[h], psums[h])
  BY Thread
<1>6. ThreadOK(job[h], "true", cell[h], plan[h], sub_blocks[h], psums'[h])
  BY <1>1, <1>5 DEF ThreadOK
<1>7. /\ HostShape' /\ (\A g \in Host : ThreadInv(g)')
      /\ pc'[h] = "true" /\ \A g \in Host : g # h => pc'[g] = pc[g]
  <2>1. DOMAIN psums' = Host /\ \A g \in Host : g # h => psums'[g] = psums[g]
    BY <1>1 DEF MatmulInv, HostShape
  <2>2. io_mutex' \in Host \cup {NoHost}
    BY <1>1
  <2>3. UNCHANGED <<job, cell, plan, sub_blocks, dst>>
    BY <1>1
  <2>4. QED
    BY <1>4, <1>6, <2>1, <2>2, <2>3, PcStep
<1>8. Quiet'
  <2>1. Idle'
    BY <1>1, <1>3, SameChip
  <2>2. QED
    BY <1>1, <2>1 DEF Quiet, FrameDone
<1>9. LinkInv'
  BY <1>1, <1>2, <1>7, <1>8, LinkFreed
<1>10. ChipInv'
  BY <1>1, SameChip DEF MatmulInv
<1>11. QED
  BY <1>7, <1>9, <1>10 DEF MatmulInv

\* A step of the firmware or of the chip.
LEMMA FirmwareKeeps ==
  ASSUME MatmulInv, NEW h \in Host, io_mutex = h, UNCHANGED <<host, io_mutex>>, ChipInv',
         \/ pc[h] = "reply" /\ \E P, t, p : P = plan[h] /\ At(P, t, p)'
         \/ pc[h] = "error bit" /\ Asked'
  PROVE  MatmulInv'
<1>1. UNCHANGED <<job, pc, cell, plan, sub_blocks, psums, dst, io_mutex>>
  BY DEF host
<1>2. /\ NoHost \notin Host
      /\ \A g \in Host : pc[g] \in {"reply", "error bit"} <=> io_mutex = g
  BY Link
<1>3. \A g \in Host : g # h => pc[g] \notin {"reply", "error bit"}
  BY <1>2
<1>4. LinkInv'
  <2>1. \A g \in Host : pc'[g] \in {"reply", "error bit"} <=> io_mutex' = g
    BY <1>1, <1>2
  <2>2. ASSUME NEW g \in Host, pc'[g] = "reply" PROVE \E P, t, p : P = plan'[g] /\ At(P, t, p)'
    <3>1. g = h /\ pc[h] = "reply" /\ plan'[g] = plan[h]
      BY <1>1, <1>3, <2>2
    <3>2. PICK P, t, p : P = plan[h] /\ At(P, t, p)'
      BY <3>1
    <3>3. QED
      BY <3>1, <3>2
  <2>3. ASSUME NEW g \in Host, pc'[g] = "error bit" PROVE Asked'
    BY <1>1, <1>3, <2>3
  <2>4. io_mutex' # NoHost
    BY <1>1, <1>2
  <2>5. QED
    BY <2>1, <2>2, <2>3, <2>4 DEF LinkInv
<1>5. HostShape'
  BY <1>1 DEF MatmulInv, HostShape
<1>6. \A g \in Host : ThreadInv(g)'
  BY <1>1 DEF MatmulInv, ThreadInv
<1>7. QED
  BY <1>4, <1>5, <1>6 DEF MatmulInv

\* Whatever is on the link belongs to the thread that has it.
LEMMA Owner ==
  ASSUME MatmulInv, frame # <<>> \/ cycles # <<>>
  PROVE  \E h \in Host : io_mutex = h /\ pc[h] \in {"reply", "error bit"}
<1>1. io_mutex # NoHost
  BY Link DEF Quiet, FrameDone
<1>2. QED
  BY <1>1, Link

\* NextTile keeps it: only an execute has a frame left to unroll.
LEMMA NextTileStep ==
  ASSUME MatmulInv, NextTile
  PROVE  MatmulInv'
<1>1. cycles = <<>> /\ frame # <<>> /\ UNCHANGED <<host, io_mutex>>
  BY DEF NextTile
<1>2. PICK h \in Host : io_mutex = h /\ pc[h] \in {"reply", "error bit"}
  BY <1>1, Owner
<1>3. pc[h] = "reply"
  <2>1. pc[h] = "error bit" => frame = <<>>
    BY Link DEF Asked
  <2>2. QED
    BY <1>1, <1>2, <2>1
<1>4. PICK P, t, p : P = plan[h] /\ At(P, t, p)
  BY <1>3, Link
<1>5. Setup /\ Runnable(P) /\ ChipInv
  BY <1>3, <1>4, Thread DEF MatmulInv
<1>6. At(P, t + 1, 0)' /\ ChipInv'
  BY <1>4, <1>5, NextTileAt
<1>7. QED
  BY <1>1, <1>2, <1>3, <1>4, <1>6, FirmwareKeeps

\* ChipCycle keeps it, in an execute and in a status check.
LEMMA ChipCycleStep ==
  ASSUME MatmulInv, ChipCycle
  PROVE  MatmulInv'
<1>1. cycles # <<>> /\ UNCHANGED <<host, io_mutex>>
  BY DEF ChipCycle
<1>2. PICK h \in Host : io_mutex = h /\ pc[h] \in {"reply", "error bit"}
  BY <1>1, Owner
<1>3. CASE pc[h] = "reply"
  <2>1. PICK P, t, p : P = plan[h] /\ At(P, t, p)
    BY <1>3, Link
  <2>2. Setup /\ Runnable(P) /\ ChipInv
    BY <1>3, <2>1, Thread DEF MatmulInv
  <2>3. At(P, t, p + 1)' /\ ChipInv'
    BY <2>1, <2>2, ChipCycleAt
  <2>4. QED
    BY <1>1, <1>2, <1>3, <2>1, <2>3, FirmwareKeeps
<1>4. CASE pc[h] = "error bit"
  <2>1. Asked /\ ChipInv
    BY <1>4, Link
  <2>2. PICK c : c = Cycle("STATUS", 0, 0)
    OBVIOUS
  <2>3. cycles = <<c>> /\ rx = <<>> /\ frame = <<>> /\ Idle
    BY <1>1, <2>1, <2>2, Zenon DEF Asked
  <2>4. c.cmd = "STATUS"
    BY <2>2 DEF Cycle
  <2>5. Head(cycles) = c /\ Tail(cycles) = <<>>
    BY <2>3
  <2>6. /\ Drive(c) /\ cycles' = <<>> /\ frame' = frame
        /\ rx' = CASE c.cmd = "RDP"    -> Append(rx, GetByte(acc_q'[ArgRow(c.arg)], ArgByte(c.arg)))
                   [] c.cmd = "STATUS" -> Append(rx, IF error_latched' THEN 1 ELSE 0)
                   [] OTHER            -> rx
    BY <2>5 DEF ChipCycle
  <2>7. Observe
    BY <2>4, <2>6 DEF Drive
  <2>8. ChipInv' /\ Idle'
    BY <2>1, <2>3, <2>7, QuietEdge
  <2>9. ~error_latched'
    BY <2>8 DEF ChipInv
  <2>10. rx' = Append(rx, 0)
    BY <2>4, <2>6, <2>9
  <2>11. rx' = <<0>>
    BY <2>3, <2>10
  <2>12. Asked'
    BY <2>3, <2>6, <2>8, <2>11 DEF Asked
  <2>13. QED
    BY <1>1, <1>2, <1>4, <2>8, <2>12, FirmwareKeeps
<1>5. QED
  BY <1>2, <1>3, <1>4

\* It holds initially: a job with cells to compute has rounds.
LEMMA InitMatmulInv == MInit => MatmulInv
<1>. SUFFICES ASSUME MInit PROVE MatmulInv
  OBVIOUS
<1>1. /\ Init /\ job \in Jobs
      /\ pc = [h \in Host |-> IF Cells(job[h]) = {} THEN "true" ELSE "build"]
      /\ cell = [h \in Host |-> 0]
      /\ plan = [h \in Host |-> <<>>] /\ sub_blocks = [h \in Host |-> <<>>]
      /\ psums = [h \in Host |-> <<>>]
      /\ dst = [h \in Host |-> <<>>]
      /\ io_mutex = NoHost /\ frame = <<>> /\ cycles = <<>> /\ rx = <<>>
  BY DEF MInit
<1>2. TwoByTwo /\ NoHost \notin Host /\ \A h \in Host : IsJob(job[h])
  BY <1>1, Configured DEF Setup
<1>3. ChipInv
  BY <1>1, InitIInv, InitPsumInv DEF ChipInv, Init
<1>4. Quiet
  BY <1>1 DEF Quiet, FrameDone, Init, Idle
<1>5. \A h \in Host : pc[h] = "true" \/ pc[h] = "build"
  BY <1>1
<1>6. LinkInv
  BY <1>1, <1>2, <1>4, <1>5 DEF LinkInv
<1>7. HostShape
  BY <1>1 DEF HostShape
<1>8. ASSUME NEW h \in Host PROVE ThreadInv(h)
  <2>1. PICK j : j = job[h] /\ IsJob(j)
    BY <1>2
  <2>2. cell[h] = 0 /\ dst[h] = <<>>
    BY <1>1
  <2>3. pc[h] = "build" => Cells(j) # {}
    BY <1>1, <2>1
  <2>4. ASSUME Cells(j) # {} PROVE 0 < NumCells(j)
    <3>1. PICK d : d \in Cells(j)
      BY <2>4
    <3>2. PICK i \in Nat : i < NumCells(j)
      BY <1>2, <2>1, <3>1, EveryCell
    <3>3. PICK R \in Nat, C \in Nat, D \in Nat, E \in Nat : NumCells(j) = E * D * C * R
      BY <1>2, <2>1, LoopSizes
    <3>4. NumCells(j) \in Nat
      BY <3>3
    <3>5. QED
      BY <3>2, <3>4
  <2>5. ThreadOK(job[h], pc[h], cell[h], plan[h], sub_blocks[h], psums[h])
    <3>1. CASE pc[h] = "true"
      BY <2>2, <3>1 DEF ThreadOK
    <3>2. CASE pc[h] = "build"
      <4>1. 0 < NumCells(job[h])
        BY <2>1, <2>3, <2>4, <3>2
      <4>2. QED
        BY <2>2, <3>2, <4>1 DEF ThreadOK
    <3>3. QED
      BY <1>5, <3>1, <3>2
  <2>6. DOMAIN dst[h] = {}
    BY <2>2
  <2>7. CellsOK(job[h], cell[h], dst[h])
    <3>1. \A i \in Nat : ~(i < 0)
      OBVIOUS
    <3>2. QED
      BY <2>2, <2>6, <3>1 DEF CellsOK
  <2>8. QED
    BY <2>5, <2>7 DEF ThreadInv
<1>9. QED
  BY <1>3, <1>6, <1>7, <1>8 DEF MatmulInv

\* A step that changes nothing keeps it.
LEMMA StutterMatmul ==
  ASSUME MatmulInv, UNCHANGED allvars
  PROVE  MatmulInv'
<1>1. /\ UNCHANGED vars /\ UNCHANGED <<job, pc, cell, plan, sub_blocks, psums, dst>>
      /\ UNCHANGED <<io_mutex, frame, cycles, rx>>
  BY DEF allvars, host, wire
<1>2. /\ Quiet => Quiet'
      /\ Asked => Asked'
      /\ \A P, t, p : At(P, t, p) => At(P, t, p)'
  BY <1>1, SameLink
<1>3. ChipInv'
  BY <1>1, SameChip DEF MatmulInv
<1>4. HostShape'
  BY <1>1 DEF MatmulInv, HostShape
<1>5. \A g \in Host : ThreadInv(g)'
  BY <1>1 DEF MatmulInv, ThreadInv
<1>6. LinkInv'
  <2>1. LinkInv
    BY DEF MatmulInv
  <2>2. ASSUME NEW g \in Host, pc'[g] = "reply" PROVE \E P, t, p : P = plan'[g] /\ At(P, t, p)'
    <3>1. PICK P, t, p : P = plan[g] /\ At(P, t, p)
      BY <1>1, <2>1, <2>2 DEF LinkInv
    <3>2. At(P, t, p)'
      BY <1>2, <3>1
    <3>3. QED
      BY <1>1, <3>1, <3>2
  <2>3. \A g \in Host : pc'[g] \in {"reply", "error bit"} <=> io_mutex' = g
    BY <1>1, <2>1 DEF LinkInv
  <2>4. \A g \in Host : pc'[g] = "error bit" => Asked'
    BY <1>1, <1>2, <2>1 DEF LinkInv
  <2>5. io_mutex' = NoHost => Quiet'
    BY <1>1, <1>2, <2>1 DEF LinkInv
  <2>6. QED
    BY <2>2, <2>3, <2>4, <2>5 DEF LinkInv
<1>7. QED
  BY <1>3, <1>4, <1>5, <1>6 DEF MatmulInv

\* Every step keeps it.
LEMMA MatmulInvInductive == MatmulInv /\ [MNext]_allvars => MatmulInv'
<1>. SUFFICES ASSUME MatmulInv, [MNext]_allvars PROVE MatmulInv'
  OBVIOUS
<1>1. CASE \E h \in Host : HostStep(h)
  <2>1. PICK h \in Host : HostStep(h)
    BY <1>1
  <2>2. Build(h) \/ Execute(h) \/ Reply(h) \/ Fold(h) \/ AskStatus(h) \/ ReadStatus(h)
    BY <2>1 DEF HostStep
  <2>3. QED
    BY <2>2, BuildStep, ExecuteStep, ReplyStep, FoldStep, AskStep, ReadStep
<1>2. CASE Firmware
  BY <1>2, NextTileStep, ChipCycleStep DEF Firmware
<1>3. CASE UNCHANGED allvars
  BY <1>3, StutterMatmul
<1>4. QED
  BY <1>1, <1>2, <1>3 DEF MNext

\* What the invariant says of the firmware's commands.
LEMMA LandsByInv == MatmulInv => CommandsLand
<1>. SUFFICES ASSUME MatmulInv, cycles # <<>>, Head(cycles).cmd \in {"LDW", "LDA", "SEED", "START", "RDP"} PROVE Idle
  BY DEF CommandsLand
<1>1. PICK h \in Host : io_mutex = h /\ pc[h] \in {"reply", "error bit"}
  BY Owner
<1>2. CASE pc[h] = "reply"
  <2>1. PICK P, t, p : P = plan[h] /\ At(P, t, p)
    BY <1>2, Link
  <2>2. Setup /\ Runnable(P) /\ ChipInv
    BY <1>2, <2>1, Thread DEF MatmulInv
  <2>3. QED
    BY <2>1, <2>2, HeadLands
<1>3. CASE pc[h] = "error bit"
  BY <1>3, Link DEF Asked
<1>4. QED
  BY <1>1, <1>2, <1>3

\* The firmware unrolls every descriptor as the host would.
LEMMA MacroByInv == MatmulInv => MacroMatchesHost
<1>. SUFFICES ASSUME MatmulInv, NEW h \in Host, pc[h] = "execute", NEW i \in DOMAIN plan[h]
              PROVE  RunTileMacro(PackDesc(plan[h][i])) = BuildTilePairs(plan[h][i])
  BY DEF MacroMatchesHost
<1>1. Setup /\ TwoByTwo /\ Runnable(plan[h])
  BY Thread
<1>2. plan[h][i] \in OpSet
  <2>1. plan[h] \in Seq(OpSet)
    BY <1>1 DEF Runnable
  <2>2. QED
    BY <2>1
<1>3. QED
  BY <1>1, <1>2, MacroIsPairs

\* A thread that has been through its rounds has written every cell.
LEMMA ExactByInv == MatmulInv => ResultsExact
<1>. SUFFICES ASSUME MatmulInv, NEW h \in Host, pc[h] = "status"
              PROVE  /\ DOMAIN dst[h] = Cells(job[h])
                     /\ \A i \in 0 .. NumCells(job[h]) - 1 : \A r \in PairRows(job[h], CellAt(job[h], i)) :
                          dst[h][DstAt(CellAt(job[h], i), r)] = CellRef(CellInput(job[h], CellAt(job[h], i)), r)
  BY DEF ResultsExact
<1>1. /\ TwoByTwo /\ IsJob(job[h]) /\ CellsOK(job[h], cell[h], dst[h])
      /\ ThreadOK(job[h], pc[h], cell[h], plan[h], sub_blocks[h], psums[h])
  BY Thread
<1>2. PICK j, f, n : j = job[h] /\ f = dst[h] /\ n = cell[h]
  OBVIOUS
<1>3. n = NumCells(j) /\ IsJob(j)
  BY <1>1, <1>2 DEF ThreadOK
<1>4. /\ \A d \in DOMAIN f : d \in Cells(j) /\ f[d] = Ref(j, d)
      /\ \A i \in Nat : i < n => \A r \in PairRows(j, CellAt(j, i)) : DstAt(CellAt(j, i), r) \in DOMAIN f
  BY <1>1, <1>2 DEF CellsOK
<1>5. ASSUME NEW d \in Cells(j) PROVE d \in DOMAIN f
  <2>1. PICK i \in Nat : i < NumCells(j) /\ \E r \in PairRows(j, CellAt(j, i)) : d = DstAt(CellAt(j, i), r)
    BY <1>1, <1>3, EveryCell
  <2>2. QED
    BY <1>3, <1>4, <2>1
<1>6. DOMAIN f = Cells(j)
  BY <1>4, <1>5
<1>7. ASSUME NEW i \in 0 .. NumCells(j) - 1, NEW r \in PairRows(j, CellAt(j, i))
      PROVE  f[DstAt(CellAt(j, i), r)] = CellRef(CellInput(j, CellAt(j, i)), r)
  <2>1. PICK R \in Nat, C \in Nat, D \in Nat, E \in Nat : NumCells(j) = E * D * C * R
    BY <1>1, <1>3, LoopSizes
  <2>2. NumCells(j) \in Nat
    BY <2>1
  <2>3. i \in Nat /\ i < NumCells(j)
    BY <2>2
  <2>4. DstAt(CellAt(j, i), r) \in Cells(j)
        /\ CellRef(CellInput(j, CellAt(j, i)), r) = Ref(j, DstAt(CellAt(j, i), r))
    BY <1>1, <1>3, <2>3, InputOfCell
  <2>5. QED
    BY <1>4, <1>6, <2>4
<1>8. QED
  BY <1>2, <1>6, <1>7

\* The invariant of the specification.
LEMMA SpecMatmulInv == MSpec => []MatmulInv
BY InitMatmulInv, MatmulInvInductive, PTL DEF MSpec

\* Every LDW, LDA, SEED, START and RDP of run_tile_macro finds the chip idle, the only
\* time it is accepted: a padding of 6 cycles is enough for every plan of every job,
\* and the firmware need not poll.
THEOREM FirmwareNeedNotPoll == MSpec => []CommandsLand
BY SpecMatmulInv, LandsByInv, PTL

\* run_tile_macro drives the chip exactly as build_tile_pairs would, for every tile of
\* every plan run_cell_pair can build.
THEOREM MacroDrivesAsHost == MSpec => []MacroMatchesHost
BY SpecMatmulInv, MacroByInv, PTL

\* When run_bonsai_matmul has been through its loops, dst holds the exact dot product in
\* every cell and nothing else, whatever other threads had the chip do in between.
THEOREM ProductIsExact == MSpec => []ResultsExact
BY SpecMatmulInv, ExactByInv, PTL

\* run_bonsai_matmul never returns false: the chip's error bit, which UsbTransport::status
\* reads at the end, is never set by any frame of any thread.
NeverFails == \A h \in Host : pc[h] # "false"

\* The final status check of run_bonsai_matmul cannot fail.
THEOREM StatusNeverFails == MSpec => []NeverFails
<1>1. MatmulInv => NeverFails
  BY Thread DEF ThreadOK, NeverFails
<1>2. QED
  BY <1>1, SpecMatmulInv, PTL
=============================================================================
