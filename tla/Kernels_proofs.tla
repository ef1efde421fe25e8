--------------------------- MODULE Kernels_proofs ---------------------------
(***************************************************************************)
(* The kernels of the board.  The FPGA's, for any sizes of its blocks, any *)
(* shapes that fit its activation RAM and any rhythm of its streams: every *)
(* row's sum is exact, and done means that all of it has left.  The ARM's, *)
(* for any boards, tensors and ops: no cut of a tensor makes an op fail,   *)
(* and SET_ROWS flushes what it has written in place.                      *)
(***************************************************************************)
EXTENDS Q1A8Kernel, PsKernels, SetInduction

-----------------------------------------------------------------------------
(* Arithmetic, and pieces of sequences. *)

\* Pieces of one size, laid end to end.
Even(g, n, c, T) ==
  n \in Nat \ {0} /\ c \in Nat /\ g \in [1 .. n -> Seq(T)] /\ \A i \in 1 .. n : Len(g[i]) = c
EvenlyLaid(s, g, n, c, T) ==
  /\ s \in Seq(T) /\ Len(s) = n * c
  /\ \A i \in 1 .. n : \A k \in 1 .. c : s[(i - 1) * c + k] = g[i][k]

\* Flattening pieces of one size.
LEMMA UniformFlatten ==
  ASSUME NEW T, NEW n, NEW c, NEW g, Even(g, n, c, T)
  PROVE  EvenlyLaid(FlattenSeq(g), g, n, c, T)
<1>0. n \in Nat \ {0} /\ c \in Nat /\ g \in [1 .. n -> Seq(T)] /\ \A i \in 1 .. n : Len(g[i]) = c
  BY DEF Even
<1>. USE <1>0
<1>. DEFINE o == [i \in 0 .. n |-> i * c]
<1>1. o \in [0 .. n -> Nat] /\ o[0] = 0 /\ o[n] = n * c
  OBVIOUS
<1>2. ASSUME NEW i \in 1 .. n PROVE o[i] = o[i - 1] + Len(g[i]) /\ o[i - 1] = (i - 1) * c
  <2>1. i \in 0 .. n /\ i - 1 \in 0 .. n
    OBVIOUS
  <2>2. i * c = (i - 1) * c + c
    OBVIOUS
  <2>3. QED
    BY <2>1, <2>2
<1>. HIDE DEF o
<1>3. Pieces(g, o, n, T)
  BY <1>1, <1>2 DEF Pieces
<1>4. Laid(FlattenSeq(g), g, o, n, T)
  BY <1>3, FlattenBlocks
<1>5. QED
  BY <1>1, <1>2, <1>4 DEF Laid, EvenlyLaid

\* The quotient and the remainder of a place in pieces of one size.
LEMMA Division ==
  ASSUME NEW a \in Nat, NEW d \in Nat \ {0}
  PROVE  /\ a \div d \in Nat /\ a % d \in 0 .. d - 1 /\ a = (a \div d) * d + (a % d)
<1>1. /\ a \div d \in Nat /\ a % d \in 0 .. d - 1
      /\ a = d * (a \div d) + (a % d)
  OBVIOUS
<1>2. d * (a \div d) = (a \div d) * d
  BY <1>1
<1>3. QED
  BY <1>1, <1>2

\* Products are monotonic.
LEMMA MulMono ==
  ASSUME NEW a \in Nat, NEW b \in Nat, NEW d \in Nat, a <= b
  PROVE  a * d <= b * d /\ a * d \in Nat /\ b * d \in Nat
OBVIOUS

\* One more factor.
LEMMA MulNext ==
  ASSUME NEW a \in Int, NEW d \in Int
  PROVE  (a + 1) * d = a * d + d /\ a * d \in Int
OBVIOUS

\* Quotient and rest are the ones that fit.
LEMMA QuotientUnique ==
  ASSUME NEW q \in Nat, NEW r \in Nat, NEW d \in Nat \ {0}, r < d, NEW a \in Nat, a = q * d + r
  PROVE  a \div d = q /\ a % d = r
<1>1. a \div d \in Nat /\ a % d \in 0 .. d - 1 /\ a = (a \div d) * d + (a % d)
  BY Division
<1>. DEFINE x == a \div d
            y == a % d
<1>2. x \in Nat /\ y \in Nat /\ y < d /\ a = x * d + y
  BY <1>1
<1>. HIDE DEF x, y
<1>3. CASE x < q
  <2>1. (x + 1) * d <= q * d
    BY <1>2, <1>3, MulMono
  <2>2. (x + 1) * d = x * d + d
    BY <1>2, MulNext
  <2>3. x * d \in Nat /\ q * d \in Nat
    BY <1>2, MulMono
  <2>4. QED
    BY <1>2, <2>1, <2>2, <2>3
<1>4. CASE q < x
  <2>1. (q + 1) * d <= x * d
    BY <1>2, <1>4, MulMono
  <2>2. (q + 1) * d = q * d + d
    BY <1>2, MulNext
  <2>3. x * d \in Nat /\ q * d \in Nat
    BY <1>2, MulMono
  <2>4. QED
    BY <1>2, <2>1, <2>2, <2>3
<1>5. CASE q = x
  <2>1. q * d \in Nat
    BY MulMono
  <2>2. y = r
    BY <1>2, <1>5, <2>1
  <2>3. QED
    BY <1>5, <2>2 DEF x, y
<1>6. QED
  BY <1>2, <1>3, <1>4, <1>5

\* A place in the i-th of n pieces of size d lies among all of them.
LEMMA PlaceInside ==
  ASSUME NEW n \in Nat, NEW d \in Nat, NEW i \in Nat, i < n, NEW r \in Nat, r <= d
  PROVE  i * d + r \in Nat /\ i * d + r <= n * d
<1>1. (i + 1) * d <= n * d /\ n * d \in Nat
  BY MulMono
<1>2. (i + 1) * d = i * d + d /\ i * d \in Nat
  BY MulNext, MulMono
<1>3. QED
  BY <1>1, <1>2

\* k elements of a sequence, from behind the first a.
LEMMA Window ==
  ASSUME NEW T, NEW s, s \in Seq(T), NEW a \in Nat, NEW k \in Nat, a + k <= Len(s), NEW v, v = SubSeq(s, a + 1, a + k)
  PROVE  v \in Seq(T) /\ Len(v) = k /\ \A i \in 1 .. k : v[i] = s[a + i]
<1>1. a + 1 \in Int /\ a + k \in Int /\ (a + k) - (a + 1) + 1 = k /\ Len(s) \in Nat
  OBVIOUS
<1>2. \A i \in a + 1 .. a + k : i \in 1 .. Len(s)
  BY <1>1
<1>3. \A i \in a + 1 .. a + k : s[i] \in T
  BY <1>2
<1>4. v \in Seq(T) /\ Len(v) = (IF a + 1 <= a + k THEN (a + k) - (a + 1) + 1 ELSE 0)
  BY <1>1, <1>3, SubSeqProperties
<1>5. \A i \in 1 .. (a + k) - (a + 1) + 1 : v[i] = s[(a + 1) + i - 1]
  BY <1>1, <1>3, SubSeqProperties
<1>6. \A i \in 1 .. k : (a + 1) + i - 1 = a + i
  OBVIOUS
<1>7. QED
  BY <1>1, <1>4, <1>5, <1>6
-----------------------------------------------------------------------------
(* The streams. *)

Value == ({"scale"} \X Nat \X Nat) \cup ({"bits"} \X Nat \X Nat \X Nat)
           \cup ({"acts"} \X Nat \X Nat) \cup ({"act_scale"} \X Nat \X Nat) \cup {<<"zero">>}
Cell  == Value \X Nat \X Nat

\* What the cells are parts of.
LEMMA Values ==
  /\ \A r, q \in Nat : ScaleOf(r, q) \in Value
  /\ \A r, q, s \in Nat : BitsOf(r, q, s) \in Value
  /\ \A c, i \in Nat : <<"acts", c, i>> \in Value /\ <<"act_scale", c, i>> \in Value
  /\ Zero \in Cell
<1>1. \A r, q \in Nat : ScaleOf(r, q) \in Value
  BY DEF Value, ScaleOf
<1>2. \A r, q, s \in Nat : BitsOf(r, q, s) \in Value
  BY DEF Value, BitsOf
<1>3. \A c, i \in Nat : <<"acts", c, i>> \in Value /\ <<"act_scale", c, i>> \in Value
  BY DEF Value
<1>4. <<"zero">> \in Value /\ 1 \in Nat
  BY DEF Value
<1>5. Zero \in Cell
  BY <1>4 DEF Cell, Zero
<1>6. QED
  BY <1>1, <1>2, <1>3, <1>5

\* A whole value, cell by cell.
LEMMA WholeCells ==
  ASSUME NEW v \in Value, NEW n \in Nat
  PROVE  Whole(v, n) \in Seq(Cell) /\ Len(Whole(v, n)) = n /\ \A i \in 1 .. n : Whole(v, n)[i] = <<v, i, n>>
<1>1. \A i \in 1 .. n : <<v, i, n>> \in Cell
  <2>1. \A i \in 1 .. n : i \in Nat
    OBVIOUS
  <2>2. QED
    BY <2>1 DEF Cell
<1>. DEFINE f == [i \in 1 .. n |-> <<v, i, n>>]
<1>2. f \in [1 .. n -> Cell] /\ \A i \in 1 .. n : f[i] = <<v, i, n>>
  BY <1>1, Zenon
<1>3. Whole(v, n) = f
  BY Zenon DEF Whole
<1>. HIDE DEF f
<1>4. f \in Seq(Cell) /\ Len(f) = n
  BY <1>2
<1>5. QED
  BY <1>2, <1>3, <1>4

\* Padding, cell by cell.
LEMMA ZeroCells ==
  ASSUME NEW n \in Nat
  PROVE  Zeros(n) \in Seq(Cell) /\ Len(Zeros(n)) = n /\ \A i \in 1 .. n : Zeros(n)[i] = Zero
<1>. DEFINE f == [i \in 1 .. n |-> Zero]
<1>1. f \in [1 .. n -> Cell] /\ \A i \in 1 .. n : f[i] = Zero
  BY Values
<1>2. Zeros(n) = f
  BY Zenon DEF Zeros
<1>. HIDE DEF f
<1>3. f \in Seq(Cell) /\ Len(f) = n
  BY <1>1
<1>4. QED
  BY <1>1, <1>2, <1>3

\* The sizes of the layout.
LEMMA Sizes ==
  /\ ROWS_PER_BLOCK \in Nat \ {0} /\ Q8_SUBBLOCKS \in Nat \ {0} /\ ACT_BEATS \in Nat \ {0}
  /\ BEAT = 4
  /\ SCALE_BEATS \in Nat \ {0} /\ SCALES = SCALE_BEATS * 4 /\ SCALES \in Nat /\ ROWS_PER_BLOCK <= SCALES
  /\ WBITS_BEATS \in Nat \ {0} /\ WBITS = WBITS_BEATS * 4 /\ WBITS \in Nat
  /\ ROWS_PER_BLOCK = 2 * WBITS_BEATS /\ EMIT_BEATS = WBITS_BEATS
  /\ ACTS = ACT_BEATS * 4 /\ ACTS \in Nat
  /\ LAST_SUB = Q8_SUBBLOCKS - 1
<1>1. ROWS_PER_BLOCK \in Nat \ {0} /\ ROWS_PER_BLOCK % 2 = 0 /\ Q8_SUBBLOCKS \in Nat \ {0} /\ ACT_BEATS \in Nat \ {0}
  BY LayoutAssumption
<1>2. BEAT = 4 /\ SCALES = SCALE_BEATS * 4 /\ WBITS = WBITS_BEATS * 4 /\ ACTS = ACT_BEATS * 4
  BY DEF BEAT, SCALES, WBITS, ACTS
<1>3. \A r \in Nat \ {0} : (r + 3) \div 4 \in Nat \ {0} /\ r <= ((r + 3) \div 4) * 4
  OBVIOUS
<1>4. \A r \in Nat \ {0} : r % 2 = 0 => (r + 1) \div 2 \in Nat \ {0} /\ r = 2 * ((r + 1) \div 2) /\ r \div 2 = (r + 1) \div 2
  OBVIOUS
<1>5. SCALE_BEATS \in Nat \ {0} /\ ROWS_PER_BLOCK <= SCALE_BEATS * 4
  BY <1>1, <1>3 DEF SCALE_BEATS
<1>6. WBITS_BEATS \in Nat \ {0} /\ ROWS_PER_BLOCK = 2 * WBITS_BEATS /\ EMIT_BEATS = WBITS_BEATS
  BY <1>1, <1>4 DEF WBITS_BEATS, EMIT_BEATS
<1>7. QED
  BY <1>1, <1>2, <1>5, <1>6 DEF LAST_SUB

\* A pair of numbers, one of them counted in the other's pieces.
LEMMA PairPlace ==
  ASSUME NEW n \in Nat \ {0}, NEW m \in Nat \ {0}, NEW a \in 0 .. n - 1, NEW b \in 0 .. m - 1
  PROVE  /\ a * m + b + 1 \in 1 .. n * m /\ (a * m + b + 1) - 1 = a * m + b
         /\ (a * m + b) \div m = a /\ (a * m + b) % m = b
<1>1. a * m + (b + 1) \in Nat /\ a * m + (b + 1) <= n * m
  BY PlaceInside
<1>2. a * m \in Nat /\ n * m \in Nat
  BY MulMono
<1>3. (a * m + b) \div m = a /\ (a * m + b) % m = b
  <2>1. a * m + b \in Nat
    BY <1>2
  <2>2. QED
    BY <2>1, QuotientUnique
<1>4. QED
  BY <1>1, <1>2, <1>3

\* Q1Matrix: where a block's scale and masks are.
LEMMA MatrixCells ==
  ASSUME NEW rows \in Nat \ {0}, NEW bpr \in Nat \ {0}
  PROVE  /\ Q1Matrix(rows, bpr) \in Seq(Cell)
         /\ Len(Q1Matrix(rows, bpr)) = (rows * bpr) * Q1_BLOCK_CELLS
         /\ \A row \in 0 .. rows - 1, q1 \in 0 .. bpr - 1 :
              /\ Q1Off(bpr, row, q1) \in Nat
              /\ Q1Off(bpr, row, q1) + Q1_BLOCK_CELLS <= (rows * bpr) * Q1_BLOCK_CELLS
              /\ Q1Matrix(rows, bpr)[Q1Off(bpr, row, q1) + 1] = <<ScaleOf(row, q1), 1, 1>>
              /\ \A sub \in 0 .. Q8_SUBBLOCKS - 1, e \in 1 .. 2 :
                   Q1Matrix(rows, bpr)[Q1Off(bpr, row, q1) + 1 + 2 * sub + e] = <<BitsOf(row, q1, sub), e, 2>>
<1>. DEFINE n == rows * bpr
            c == Q1_BLOCK_CELLS
            masks(row, q1) == [s \in 1 .. Q8_SUBBLOCKS |-> Whole(BitsOf(row, q1, s - 1), 2)]
            block(row, q1) == Whole(ScaleOf(row, q1), 1) \o FlattenSeq(masks(row, q1))
            g == [i \in 1 .. n |-> block((i - 1) \div bpr, (i - 1) % bpr)]
<1>1. Q8_SUBBLOCKS \in Nat \ {0} /\ n \in Nat \ {0} /\ c = 1 + 2 * Q8_SUBBLOCKS /\ c \in Nat
  <2>1. rows * bpr \in Nat \ {0}
    OBVIOUS
  <2>2. QED
    BY <2>1, Sizes DEF Q1_BLOCK_CELLS
<1>2. Q1Matrix(rows, bpr) = FlattenSeq(g)
  BY Zenon DEF Q1Matrix
<1>3. ASSUME NEW row \in Nat, NEW q1 \in Nat
      PROVE  /\ block(row, q1) \in Seq(Cell) /\ Len(block(row, q1)) = c
             /\ block(row, q1)[1] = <<ScaleOf(row, q1), 1, 1>>
             /\ \A sub \in 0 .. Q8_SUBBLOCKS - 1, e \in 1 .. 2 :
                  block(row, q1)[1 + (2 * sub + e)] = <<BitsOf(row, q1, sub), e, 2>>
  <2>. DEFINE h == masks(row, q1)
              f == FlattenSeq(h)
              w == Whole(ScaleOf(row, q1), 1)
              t == w \o f
  <2>1. /\ h \in [1 .. Q8_SUBBLOCKS -> Seq(Cell)]
        /\ \A s \in 1 .. Q8_SUBBLOCKS : h[s] = Whole(BitsOf(row, q1, s - 1), 2) /\ Len(h[s]) = 2
    <3>1. \A s \in 1 .. Q8_SUBBLOCKS : BitsOf(row, q1, s - 1) \in Value
      BY <1>1, Values
    <3>2. \A s \in 1 .. Q8_SUBBLOCKS : /\ Whole(BitsOf(row, q1, s - 1), 2) \in Seq(Cell)
                                       /\ Len(Whole(BitsOf(row, q1, s - 1), 2)) = 2
      BY <3>1, WholeCells
    <3>3. QED
      BY <3>2
  <2>. HIDE DEF h
  <2>2. /\ f \in Seq(Cell) /\ Len(f) = Q8_SUBBLOCKS * 2
        /\ \A s \in 1 .. Q8_SUBBLOCKS : \A k \in 1 .. 2 : f[(s - 1) * 2 + k] = h[s][k]
    <3>1. h \in [1 .. Q8_SUBBLOCKS -> Seq(Cell)] /\ \A s \in 1 .. Q8_SUBBLOCKS : Len(h[s]) = 2
      BY <2>1
    <3>2. Even(h, Q8_SUBBLOCKS, 2, Cell)
      BY <1>1, <3>1 DEF Even
    <3>3. EvenlyLaid(f, h, Q8_SUBBLOCKS, 2, Cell)
      BY <3>2, UniformFlatten
    <3>4. QED
      BY <3>3 DEF EvenlyLaid
  <2>. HIDE DEF f
  <2>3. w \in Seq(Cell) /\ Len(w) = 1 /\ w[1] = <<ScaleOf(row, q1), 1, 1>>
    <3>1. ScaleOf(row, q1) \in Value
      BY Values
    <3>2. 1 \in Nat /\ 1 \in 1 .. 1
      OBVIOUS
    <3>3. QED
      BY <3>1, <3>2, WholeCells
  <2>. HIDE DEF w
  <2>4. t \in Seq(Cell) /\ Len(t) = 1 + Q8_SUBBLOCKS * 2
    <3>1. t \in Seq(Cell) /\ Len(t) = Len(w) + Len(f)
      BY <2>2, <2>3, ConcatProperties
    <3>2. QED
      BY <2>2, <2>3, <3>1
  <2>5. /\ \A x \in 1 .. Len(w) : t[x] = w[x]
        /\ \A k \in 1 .. Len(f) : t[Len(w) + k] = f[k]
    <3>1. f \in Seq(Cell) /\ w \in Seq(Cell)
      BY <2>2, <2>3
    <3>2. QED
      BY ONLY <3>1, ConcatPlaces
  <2>6. block(row, q1) = t
    BY DEF t, w, f, h
  <2>. HIDE DEF t, block
  <2>7. t[1] = <<ScaleOf(row, q1), 1, 1>>
    BY <2>3, <2>5
  <2>8. ASSUME NEW sub \in 0 .. Q8_SUBBLOCKS - 1, NEW e \in 1 .. 2
        PROVE  t[1 + (2 * sub + e)] = <<BitsOf(row, q1, sub), e, 2>>
    <3>1. 2 * sub + e \in 1 .. Q8_SUBBLOCKS * 2 /\ sub + 1 \in 1 .. Q8_SUBBLOCKS /\ (sub + 1) - 1 = sub
      BY <1>1
    <3>2. t[1 + (2 * sub + e)] = f[2 * sub + e]
      BY <2>2, <2>3, <2>5, <3>1
    <3>3. f[sub * 2 + e] = h[sub + 1][e]
      BY <2>2, <3>1
    <3>4. sub * 2 + e = 2 * sub + e
      OBVIOUS
    <3>5. h[sub + 1] = Whole(BitsOf(row, q1, sub), 2)
      BY <2>1, <3>1
    <3>6. Whole(BitsOf(row, q1, sub), 2)[e] = <<BitsOf(row, q1, sub), e, 2>>
      <4>1. BitsOf(row, q1, sub) \in Value
        BY <1>1, Values
      <4>2. QED
        BY <4>1, WholeCells
    <3>7. QED
      BY <3>2, <3>3, <3>4, <3>5, <3>6
  <2>9. QED
    <3>1. t \in Seq(Cell) /\ Len(t) = c
      BY <1>1, <2>4
    <3>2. \A sub \in 0 .. Q8_SUBBLOCKS - 1, e \in 1 .. 2 : t[1 + (2 * sub + e)] = <<BitsOf(row, q1, sub), e, 2>>
      BY <2>8, Zenon
    <3>3. QED
      BY ONLY <2>6, <2>7, <3>1, <3>2, Zenon
<1>. HIDE DEF block, n, c
<1>4. /\ g \in [1 .. n -> Seq(Cell)]
      /\ \A i \in 1 .. n : Len(g[i]) = c /\ g[i] = block((i - 1) \div bpr, (i - 1) % bpr)
  <2>1. \A i \in 1 .. n : (i - 1) \div bpr \in Nat /\ (i - 1) % bpr \in Nat
    <3>1. SUFFICES ASSUME NEW i \in 1 .. n PROVE (i - 1) \div bpr \in Nat /\ (i - 1) % bpr \in Nat
      OBVIOUS
    <3>2. i - 1 \in Nat
      BY <1>1
    <3>3. \A a \in Nat : a \div bpr \in Nat /\ a % bpr \in Nat
      OBVIOUS
    <3>4. QED
      BY <3>2, <3>3
  <2>2. \A i \in 1 .. n : /\ block((i - 1) \div bpr, (i - 1) % bpr) \in Seq(Cell)
                          /\ Len(block((i - 1) \div bpr, (i - 1) % bpr)) = c
    BY <1>3, <2>1
  <2>3. QED
    BY <2>2
<1>. HIDE DEF g
<1>. DEFINE m == FlattenSeq(g)
<1>5. /\ m \in Seq(Cell) /\ Len(m) = n * c
      /\ \A i \in 1 .. n : \A k \in 1 .. c : m[(i - 1) * c + k] = g[i][k]
  <2>1. g \in [1 .. n -> Seq(Cell)] /\ \A i \in 1 .. n : Len(g[i]) = c
    BY <1>4
  <2>2. QED
    <3>1. Even(g, n, c, Cell)
      BY <1>1, <2>1 DEF Even
    <3>2. EvenlyLaid(m, g, n, c, Cell)
      BY <3>1, UniformFlatten
    <3>3. QED
      BY <3>2 DEF EvenlyLaid
<1>6. ASSUME NEW row \in 0 .. rows - 1, NEW q1 \in 0 .. bpr - 1
      PROVE  /\ Q1Off(bpr, row, q1) \in Nat
             /\ Q1Off(bpr, row, q1) + c <= n * c
             /\ \A k \in 1 .. c : m[Q1Off(bpr, row, q1) + k] = block(row, q1)[k]
  <2>. DEFINE j == row * bpr + q1
              o == Q1Off(bpr, row, q1)
  <2>1. j + 1 \in 1 .. n /\ (j + 1) - 1 = j /\ j \div bpr = row /\ j % bpr = q1
    BY PairPlace DEF n
  <2>2. o = j * c
    BY DEF Q1Off, c
  <2>. HIDE DEF j, o, m
  <2>3. g[j + 1] = block(row, q1)
    BY <1>4, <2>1
  <2>4. \A k \in 1 .. c : m[o + k] = block(row, q1)[k]
    BY <1>5, <2>1, <2>2, <2>3
  <2>5. j \in Nat /\ j < n
    BY <1>1, <2>1
  <2>6. j * c + c \in Nat /\ j * c + c <= n * c /\ j * c \in Nat
    BY <1>1, <2>5, PlaceInside, MulMono
  <2>7. QED
    BY <2>2, <2>4, <2>6 DEF o
<1>. HIDE DEF m
<1>7. ASSUME NEW row \in 0 .. rows - 1, NEW q1 \in 0 .. bpr - 1
      PROVE  /\ m[Q1Off(bpr, row, q1) + 1] = <<ScaleOf(row, q1), 1, 1>>
             /\ \A sub \in 0 .. Q8_SUBBLOCKS - 1, e \in 1 .. 2 :
                  m[Q1Off(bpr, row, q1) + 1 + 2 * sub + e] = <<BitsOf(row, q1, sub), e, 2>>
  <2>1. row \in Nat /\ q1 \in Nat
    OBVIOUS
  <2>. DEFINE o == Q1Off(bpr, row, q1)
  <2>2. o \in Nat /\ \A k \in 1 .. c : m[o + k] = block(row, q1)[k]
    BY <1>6
  <2>3. 1 \in 1 .. c
    BY <1>1
  <2>. HIDE DEF o
  <2>4. ASSUME NEW sub \in 0 .. Q8_SUBBLOCKS - 1, NEW e \in 1 .. 2
        PROVE  m[o + 1 + 2 * sub + e] = <<BitsOf(row, q1, sub), e, 2>>
    <3>1. 1 + (2 * sub + e) \in 1 .. c /\ o + (1 + (2 * sub + e)) = o + 1 + 2 * sub + e
      BY <1>1, <2>2
    <3>2. block(row, q1)[1 + (2 * sub + e)] = <<BitsOf(row, q1, sub), e, 2>>
      BY <1>3, <2>1
    <3>3. m[o + (1 + (2 * sub + e))] = block(row, q1)[1 + (2 * sub + e)]
      BY <2>2, <3>1
    <3>4. QED
      BY <3>1, <3>2, <3>3
  <2>5. m[o + 1] = <<ScaleOf(row, q1), 1, 1>>
    BY <1>3, <2>1, <2>2, <2>3
  <2>6. QED
    BY <2>4, <2>5 DEF o
<1>8. Q1Matrix(rows, bpr) = m
  BY <1>2 DEF m
<1>9. QED
  BY <1>5, <1>6, <1>7, <1>8 DEF n, c

\* A matrix has a rowblock.
LEMMA SomeRowblocks == ASSUME NEW rows \in Nat \ {0} PROVE Rowblocks(rows) \in Nat \ {0}
<1>1. ROWS_PER_BLOCK \in Nat \ {0}
  BY Sizes
<1>. DEFINE a == rows + ROWS_PER_BLOCK - 1
<1>2. a \in Nat /\ a >= ROWS_PER_BLOCK
  BY <1>1
<1>. HIDE DEF a
<1>. DEFINE q == a \div ROWS_PER_BLOCK
            r == a % ROWS_PER_BLOCK
<1>3. q \in Nat /\ r \in 0 .. ROWS_PER_BLOCK - 1 /\ a = q * ROWS_PER_BLOCK + r
  BY <1>1, <1>2, Division
<1>4. Rowblocks(rows) = q
  BY DEF Rowblocks, a
<1>. HIDE DEF q, r
<1>5. q # 0
  <2>1. SUFFICES ASSUME q = 0 PROVE FALSE
    OBVIOUS
  <2>2. q * ROWS_PER_BLOCK = 0
    BY <1>1, <2>1
  <2>3. QED
    BY <1>1, <1>2, <1>3, <2>2
<1>6. QED
  BY <1>3, <1>4, <1>5

\* What a lane gets: the cells of its row, or zeros past the last row.
LaneScale(rows, row, q1)        == IF row < rows THEN <<ScaleOf(row, q1), 1, 1>> ELSE Zero
LaneBits(rows, row, q1, sub, e) == IF row < rows THEN <<BitsOf(row, q1, sub), e, 2>> ELSE Zero

\* The rows a rowblock has.
LEMMA RowsOfBlock ==
  ASSUME NEW rows \in Nat, NEW rb \in Nat
  PROVE  /\ rb * ROWS_PER_BLOCK \in Nat
         /\ \A l \in Lane : l \in Nat /\ rb * ROWS_PER_BLOCK + l \in Nat
                            /\ (l < RowCount(rows, rb) <=> rb * ROWS_PER_BLOCK + l < rows)
         /\ RowCount(rows, rb) \in Int /\ RowCount(rows, rb) <= ROWS_PER_BLOCK
<1>. DEFINE p == rb * ROWS_PER_BLOCK
<1>1. ROWS_PER_BLOCK \in Nat /\ p \in Nat
  BY Sizes, MulMono
<1>2. RowCount(rows, rb) = IF rows - p < ROWS_PER_BLOCK THEN rows - p ELSE ROWS_PER_BLOCK
  BY DEF RowCount
<1>. HIDE DEF p
<1>3. \A l \in Lane : l \in Nat /\ l < ROWS_PER_BLOCK
  BY <1>1 DEF Lane
<1>4. /\ \A l \in Lane : l < RowCount(rows, rb) <=> p + l < rows
      /\ RowCount(rows, rb) \in Int /\ RowCount(rows, rb) <= ROWS_PER_BLOCK
  BY <1>1, <1>2, <1>3
<1>5. QED
  BY <1>1, <1>3, <1>4 DEF p

\* One rowblock's scale words, lane by lane.
LEMMA ScaleCells ==
  ASSUME NEW rows \in Nat \ {0}, NEW bpr \in Nat \ {0}, NEW rb \in Nat, NEW q1 \in 0 .. bpr - 1, NEW w,
         w = ScaleWords(Q1Matrix(rows, bpr), rows, bpr, rb, q1)
  PROVE  /\ w \in Seq(Cell) /\ Len(w) = SCALES
         /\ \A l \in Lane : w[l + 1] = LaneScale(rows, rb * ROWS_PER_BLOCK + l, q1)
<1>. DEFINE src == Q1Matrix(rows, bpr)
            at(c) == Q1Off(bpr, rb * ROWS_PER_BLOCK + c - 1, q1) + 1
<1>1. SCALES \in Nat /\ ROWS_PER_BLOCK \in Nat /\ ROWS_PER_BLOCK <= SCALES
  BY Sizes
<1>2. w = [c \in 1 .. SCALES |-> IF c - 1 < RowCount(rows, rb) THEN src[at(c)] ELSE Zero]
  BY Zenon DEF ScaleWords
<1>3. ASSUME NEW l \in Lane, l < RowCount(rows, rb)
      PROVE  src[Q1Off(bpr, rb * ROWS_PER_BLOCK + l, q1) + 1] = <<ScaleOf(rb * ROWS_PER_BLOCK + l, q1), 1, 1>>
  <2>1. rb * ROWS_PER_BLOCK + l \in 0 .. rows - 1
    BY <1>3, RowsOfBlock
  <2>2. QED
    BY <2>1, MatrixCells
<1>4. ASSUME NEW c \in 1 .. SCALES, c - 1 < RowCount(rows, rb)
      PROVE  /\ c - 1 \in Lane /\ rb * ROWS_PER_BLOCK + c - 1 = rb * ROWS_PER_BLOCK + (c - 1)
             /\ src[at(c)] = <<ScaleOf(rb * ROWS_PER_BLOCK + (c - 1), q1), 1, 1>>
             /\ src[at(c)] \in Cell
  <2>1. c - 1 \in Lane
    BY <1>1, <1>4, RowsOfBlock DEF Lane
  <2>2. rb * ROWS_PER_BLOCK \in Nat /\ rb * ROWS_PER_BLOCK + (c - 1) \in Nat
    BY <2>1, RowsOfBlock
  <2>3. rb * ROWS_PER_BLOCK + c - 1 = rb * ROWS_PER_BLOCK + (c - 1)
    BY <2>2
  <2>4. src[at(c)] = <<ScaleOf(rb * ROWS_PER_BLOCK + (c - 1), q1), 1, 1>>
    BY <1>3, <1>4, <2>1, <2>3
  <2>5. <<ScaleOf(rb * ROWS_PER_BLOCK + (c - 1), q1), 1, 1>> \in Cell
    <3>1. ScaleOf(rb * ROWS_PER_BLOCK + (c - 1), q1) \in Value
      BY <2>2, Values
    <3>2. QED
      BY <3>1 DEF Cell
  <2>6. QED
    BY <2>1, <2>3, <2>4, <2>5
<1>. HIDE DEF src, at
<1>5. w \in [1 .. SCALES -> Cell]
  BY <1>2, <1>4, Values
<1>6. w \in Seq(Cell) /\ Len(w) = SCALES
  BY <1>1, <1>5
<1>7. ASSUME NEW l \in Lane PROVE w[l + 1] = LaneScale(rows, rb * ROWS_PER_BLOCK + l, q1)
  <2>1. l + 1 \in 1 .. SCALES /\ (l + 1) - 1 = l
    BY <1>1 DEF Lane
  <2>2. w[l + 1] = IF l < RowCount(rows, rb) THEN src[at(l + 1)] ELSE Zero
    BY <1>2, <2>1
  <2>3. l < RowCount(rows, rb) <=> rb * ROWS_PER_BLOCK + l < rows
    BY RowsOfBlock
  <2>4. ASSUME l < RowCount(rows, rb) PROVE src[at(l + 1)] = <<ScaleOf(rb * ROWS_PER_BLOCK + l, q1), 1, 1>>
    BY <1>4, <2>1, <2>4
  <2>5. QED
    BY <2>2, <2>3, <2>4 DEF LaneScale
<1>8. QED
  BY <1>6, <1>7

\* One rowblock's mask words, lane by lane.
LEMMA BitCells ==
  ASSUME NEW rows \in Nat \ {0}, NEW bpr \in Nat \ {0}, NEW rb \in Nat, NEW q1 \in 0 .. bpr - 1,
         NEW sub \in 0 .. Q8_SUBBLOCKS - 1, NEW w,
         w = BitWords(Q1Matrix(rows, bpr), rows, bpr, rb, q1, sub)
  PROVE  /\ w \in Seq(Cell) /\ Len(w) = WBITS
         /\ \A l \in Lane, e \in 1 .. 2 : w[2 * l + e] = LaneBits(rows, rb * ROWS_PER_BLOCK + l, q1, sub, e)
<1>. DEFINE src == Q1Matrix(rows, bpr)
            off(l) == Q1Off(bpr, rb * ROWS_PER_BLOCK + l - 1, q1) + 1 + 2 * sub
            pair(l) == IF l - 1 < RowCount(rows, rb) THEN SubSeq(src, off(l) + 1, off(l) + 2) ELSE Zeros(2)
            g == [l \in 1 .. 2 * WBITS_BEATS |-> pair(l)]
<1>1. /\ 2 * WBITS_BEATS \in Nat \ {0} /\ ROWS_PER_BLOCK = 2 * WBITS_BEATS /\ WBITS = (2 * WBITS_BEATS) * 2
      /\ Q8_SUBBLOCKS \in Nat
  BY Sizes
<1>2. w = FlattenSeq(g)
  BY Zenon DEF BitWords
<1>3. ASSUME NEW l \in 1 .. 2 * WBITS_BEATS
      PROVE  /\ pair(l) \in Seq(Cell) /\ Len(pair(l)) = 2
             /\ \A e \in 1 .. 2 : pair(l)[e] = LaneBits(rows, rb * ROWS_PER_BLOCK + (l - 1), q1, sub, e)
  <2>. DEFINE row == rb * ROWS_PER_BLOCK + (l - 1)
  <2>1. /\ l - 1 \in Lane /\ row \in Nat /\ rb * ROWS_PER_BLOCK + l - 1 = row
        /\ (l - 1 < RowCount(rows, rb) <=> row < rows)
    <3>1. l - 1 \in Lane
      BY <1>1 DEF Lane
    <3>2. rb * ROWS_PER_BLOCK \in Nat /\ row \in Nat /\ (l - 1 < RowCount(rows, rb) <=> row < rows)
      BY <3>1, RowsOfBlock
    <3>3. QED
      BY <3>1, <3>2
  <2>. HIDE DEF row
  <2>2. CASE row < rows
    <3>0. row \in 0 .. rows - 1
      BY <2>1, <2>2
    <3>. DEFINE p == Q1Off(bpr, row, q1)
                q == off(l)
                N == (rows * bpr) * Q1_BLOCK_CELLS
    <3>1. /\ src \in Seq(Cell) /\ Len(src) = N /\ p \in Nat /\ p + Q1_BLOCK_CELLS <= N
      BY <3>0, MatrixCells
    <3>2. \A e \in 1 .. 2 : src[p + 1 + 2 * sub + e] = <<BitsOf(row, q1, sub), e, 2>>
      <4>1. \A x \in 0 .. Q8_SUBBLOCKS - 1, e \in 1 .. 2 :
              src[p + 1 + 2 * x + e] = <<BitsOf(row, q1, x), e, 2>>
        BY <3>0, MatrixCells, Zenon
      <4>2. QED
        BY <4>1, Zenon
    <3>3. q = p + 1 + 2 * sub
      BY <2>1
    <3>4. Q1_BLOCK_CELLS = 1 + 2 * Q8_SUBBLOCKS
      BY DEF Q1_BLOCK_CELLS
    <3>5. N \in Int
      <4>1. rows * bpr \in Int /\ Q1_BLOCK_CELLS \in Int
        BY <1>1, <3>4
      <4>2. QED
        BY <4>1, MulNext
    <3>6. pair(l) = SubSeq(src, q + 1, q + 2)
      BY <2>1, <2>2
    <3>. HIDE DEF p, q, N, pair, src, off
    <3>7. q \in Nat /\ q + 2 <= N
      BY <1>1, <3>1, <3>3, <3>4, <3>5
    <3>. DEFINE v == SubSeq(src, q + 1, q + 2)
    <3>8. v \in Seq(Cell) /\ Len(v) = 2 /\ v[1] = src[q + 1] /\ v[2] = src[q + 2]
      <4>1. v \in Seq(Cell) /\ Len(v) = 2 /\ \A i \in 1 .. 2 : v[i] = src[q + i]
        BY <3>1, <3>7, Window
      <4>2. QED
        BY <4>1
    <3>. HIDE DEF v
    <3>9. \A e \in 1 .. 2 : v[e] = <<BitsOf(row, q1, sub), e, 2>>
      BY <3>2, <3>3, <3>8
    <3>10. QED
      BY <2>2, <3>6, <3>8, <3>9 DEF v, LaneBits, row
  <2>3. CASE ~(row < rows)
    <3>1. pair(l) = Zeros(2)
      BY <2>1, <2>3
    <3>. HIDE DEF pair
    <3>2. QED
      BY <2>3, <3>1, ZeroCells DEF LaneBits, row
  <2>4. QED
    BY <2>2, <2>3
<1>. HIDE DEF pair
<1>4. /\ g \in [1 .. 2 * WBITS_BEATS -> Seq(Cell)]
      /\ \A l \in 1 .. 2 * WBITS_BEATS : Len(g[l]) = 2
      /\ \A l \in 1 .. 2 * WBITS_BEATS : g[l] = pair(l)
  BY <1>3
<1>. HIDE DEF g
<1>5. Even(g, 2 * WBITS_BEATS, 2, Cell)
  BY <1>1, <1>4 DEF Even
<1>6. EvenlyLaid(w, g, 2 * WBITS_BEATS, 2, Cell)
  BY <1>2, <1>5, UniformFlatten
<1>7. /\ w \in Seq(Cell) /\ Len(w) = WBITS
      /\ \A l \in 1 .. 2 * WBITS_BEATS : \A k \in 1 .. 2 : w[(l - 1) * 2 + k] = g[l][k]
  BY <1>1, <1>6 DEF EvenlyLaid
<1>8. ASSUME NEW l \in Lane, NEW e \in 1 .. 2
      PROVE  w[2 * l + e] = LaneBits(rows, rb * ROWS_PER_BLOCK + l, q1, sub, e)
  <2>1. l + 1 \in 1 .. 2 * WBITS_BEATS /\ (l + 1) - 1 = l /\ l * 2 + e = 2 * l + e
    BY <1>1 DEF Lane
  <2>2. w[l * 2 + e] = pair(l + 1)[e]
    BY <1>4, <1>7, <2>1
  <2>3. pair(l + 1)[e] = LaneBits(rows, rb * ROWS_PER_BLOCK + l, q1, sub, e)
    BY <1>3, <2>1
  <2>4. QED
    BY <2>1, <2>2, <2>3
<1>9. QED
  BY <1>7, <1>8

\* A block of the packed matrix: the scales of its lanes, then the masks of its sub-blocks.
Block(rows, bpr, rb, q1) ==
  ScaleWords(Q1Matrix(rows, bpr), rows, bpr, rb, q1)
    \o FlattenSeq([s \in 1 .. Q8_SUBBLOCKS |-> BitWords(Q1Matrix(rows, bpr), rows, bpr, rb, q1, s - 1)])

BlockAs(t, rows, rb, q1) ==
  /\ t \in Seq(Cell) /\ Len(t) = PACKED_PER_Q1_BLOCK
  /\ \A l \in Lane : t[l + 1] = LaneScale(rows, rb * ROWS_PER_BLOCK + l, q1)
  /\ \A sub \in 0 .. Q8_SUBBLOCKS - 1, l \in Lane, e \in 1 .. 2 :
       t[SCALES + (sub * WBITS + (2 * l + e))] = LaneBits(rows, rb * ROWS_PER_BLOCK + l, q1, sub, e)

PackedAs(W, rows, bpr) ==
  /\ W \in Seq(Cell) /\ Len(W) = (Rowblocks(rows) * bpr) * PACKED_PER_Q1_BLOCK
  /\ PACKED_PER_Q1_BLOCK \in Nat
  /\ \A rb \in 0 .. Rowblocks(rows) - 1, q1 \in 0 .. bpr - 1 :
       /\ (rb * bpr + q1) * PACKED_PER_Q1_BLOCK \in Nat
       /\ (rb * bpr + q1) * PACKED_PER_Q1_BLOCK + PACKED_PER_Q1_BLOCK <= Len(W)
       /\ \A k \in 1 .. PACKED_PER_Q1_BLOCK :
            W[(rb * bpr + q1) * PACKED_PER_Q1_BLOCK + k] = Block(rows, bpr, rb, q1)[k]

ActsAs(A, col, bpr) ==
  /\ A \in Seq(Cell) /\ Len(A) = (bpr * Q8_SUBBLOCKS) * (ACTS + BEAT)
  /\ \A i \in 0 .. bpr * Q8_SUBBLOCKS - 1 :
       /\ i * (ACTS + BEAT) \in Nat /\ i * (ACTS + BEAT) + (ACTS + BEAT) <= Len(A)
       /\ \A k \in 1 .. ACTS : A[i * (ACTS + BEAT) + k] = <<<<"acts", col, i>>, k, ACTS>>
       /\ A[i * (ACTS + BEAT) + (ACTS + 1)] = <<<<"act_scale", col, i>>, 1, 1>>

\* A packed block is what its lanes need.
LEMMA BlockCells ==
  ASSUME NEW rows \in Nat \ {0}, NEW bpr \in Nat \ {0}, NEW rb \in Nat, NEW q1 \in 0 .. bpr - 1,
         NEW t, t = Block(rows, bpr, rb, q1)
  PROVE  BlockAs(t, rows, rb, q1)
<1>. DEFINE word(s) == BitWords(Q1Matrix(rows, bpr), rows, bpr, rb, q1, s - 1)
            g == [s \in 1 .. Q8_SUBBLOCKS |-> word(s)]
            f == FlattenSeq(g)
            w == ScaleWords(Q1Matrix(rows, bpr), rows, bpr, rb, q1)
<1>1. /\ Q8_SUBBLOCKS \in Nat \ {0} /\ WBITS \in Nat /\ SCALES \in Nat
      /\ WBITS = 2 * ROWS_PER_BLOCK /\ ROWS_PER_BLOCK \in Nat /\ ROWS_PER_BLOCK <= SCALES
  BY Sizes
<1>2. ASSUME NEW s \in 1 .. Q8_SUBBLOCKS
      PROVE  /\ word(s) \in Seq(Cell) /\ Len(word(s)) = WBITS
             /\ \A l \in Lane, e \in 1 .. 2 :
                  word(s)[2 * l + e] = LaneBits(rows, rb * ROWS_PER_BLOCK + l, q1, s - 1, e)
  <2>1. s - 1 \in 0 .. Q8_SUBBLOCKS - 1
    BY <1>1
  <2>2. QED
    BY <2>1, BitCells
<1>. HIDE DEF word
<1>3. Even(g, Q8_SUBBLOCKS, WBITS, Cell) /\ \A s \in 1 .. Q8_SUBBLOCKS : g[s] = word(s)
  <2>1. g \in [1 .. Q8_SUBBLOCKS -> Seq(Cell)]
    BY <1>2
  <2>2. \A s \in 1 .. Q8_SUBBLOCKS : Len(g[s]) = WBITS /\ g[s] = word(s)
    BY <1>2
  <2>. HIDE DEF g
  <2>3. QED
    BY <1>1, <2>1, <2>2 DEF Even
<1>4. t = w \o f
  BY DEF Block, word
<1>. HIDE DEF g
<1>5. EvenlyLaid(f, g, Q8_SUBBLOCKS, WBITS, Cell)
  BY <1>3, UniformFlatten
<1>6. /\ f \in Seq(Cell) /\ Len(f) = Q8_SUBBLOCKS * WBITS
      /\ \A s \in 1 .. Q8_SUBBLOCKS : \A k \in 1 .. WBITS : f[(s - 1) * WBITS + k] = g[s][k]
  BY <1>5, Zenon DEF EvenlyLaid
<1>7. /\ w \in Seq(Cell) /\ Len(w) = SCALES
      /\ \A l \in Lane : w[l + 1] = LaneScale(rows, rb * ROWS_PER_BLOCK + l, q1)
  BY ScaleCells
<1>. HIDE DEF f, w
<1>8. t \in Seq(Cell) /\ Len(t) = Len(w) + Len(f)
  BY <1>4, <1>6, <1>7, ConcatProperties
<1>9. /\ \A x \in 1 .. Len(w) : t[x] = w[x]
      /\ \A k \in 1 .. Len(f) : t[Len(w) + k] = f[k]
  <2>1. f \in Seq(Cell) /\ w \in Seq(Cell)
    BY <1>6, <1>7
  <2>2. QED
    BY ONLY <1>4, <2>1, ConcatPlaces
<1>10. Len(t) = PACKED_PER_Q1_BLOCK
  BY <1>6, <1>7, <1>8 DEF PACKED_PER_Q1_BLOCK
<1>11. ASSUME NEW l \in Lane PROVE t[l + 1] = LaneScale(rows, rb * ROWS_PER_BLOCK + l, q1)
  <2>1. l + 1 \in 1 .. Len(w)
    BY <1>1, <1>7 DEF Lane
  <2>2. QED
    BY <1>7, <1>9, <2>1
<1>12. ASSUME NEW sub \in 0 .. Q8_SUBBLOCKS - 1, NEW l \in Lane, NEW e \in 1 .. 2
       PROVE  t[SCALES + (sub * WBITS + (2 * l + e))] = LaneBits(rows, rb * ROWS_PER_BLOCK + l, q1, sub, e)
  <2>1. sub + 1 \in 1 .. Q8_SUBBLOCKS /\ (sub + 1) - 1 = sub
    BY <1>1
  <2>2. 2 * l + e \in 1 .. WBITS
    BY <1>1 DEF Lane
  <2>. DEFINE k == 2 * l + e
  <2>3. sub * WBITS + k \in 1 .. Len(f)
    <3>1. sub * WBITS + k <= Q8_SUBBLOCKS * WBITS
      BY <1>1, <2>2, PlaceInside
    <3>2. sub * WBITS \in Nat
      BY <1>1, MulMono
    <3>3. k \in Nat /\ k >= 1
      BY <1>1, <2>2
    <3>4. \A a, b, d \in Nat : b >= 1 /\ a + b <= d => a + b \in 1 .. d
      OBVIOUS
    <3>5. Q8_SUBBLOCKS * WBITS \in Nat
      BY <1>1, MulMono
    <3>. HIDE DEF k
    <3>6. QED
      BY ONLY <1>6, <3>1, <3>2, <3>3, <3>4, <3>5
  <2>4. t[SCALES + (sub * WBITS + k)] = f[sub * WBITS + k]
    BY <1>7, <1>9, <2>3
  <2>5. f[sub * WBITS + k] = word(sub + 1)[k]
    BY <1>3, <1>6, <2>1, <2>2
  <2>6. word(sub + 1)[k] = LaneBits(rows, rb * ROWS_PER_BLOCK + l, q1, sub, e)
    BY <1>2, <2>1
  <2>7. QED
    BY <2>4, <2>5, <2>6
<1>13. QED
  BY <1>8, <1>10, <1>11, <1>12 DEF BlockAs

\* The packed matrix, block by block.
LEMMA PackedCellsAre ==
  ASSUME NEW rows \in Nat \ {0}, NEW bpr \in Nat \ {0}, NEW W, W = PackWeights(Q1Matrix(rows, bpr), rows, bpr)
  PROVE  PackedAs(W, rows, bpr)
<1>. DEFINE n == Rowblocks(rows) * bpr
            c == PACKED_PER_Q1_BLOCK
            g == [i \in 1 .. n |-> Block(rows, bpr, (i - 1) \div bpr, (i - 1) % bpr)]
<1>1. Rowblocks(rows) \in Nat \ {0} /\ n \in Nat \ {0} /\ c \in Nat
  <2>1. Rowblocks(rows) \in Nat \ {0}
    BY SomeRowblocks
  <2>2. \A a, b \in Nat \ {0} : a * b \in Nat \ {0}
    OBVIOUS
  <2>3. SCALES \in Nat /\ Q8_SUBBLOCKS * WBITS \in Nat
    BY Sizes, MulMono
  <2>4. QED
    BY <2>1, <2>2, <2>3 DEF PACKED_PER_Q1_BLOCK
<1>2. W = FlattenSeq(g)
  BY Zenon DEF PackWeights, Block
<1>. HIDE DEF n
<1>3. /\ g \in [1 .. n -> Seq(Cell)]
      /\ \A i \in 1 .. n : Len(g[i]) = c
      /\ \A i \in 1 .. n : g[i] = Block(rows, bpr, (i - 1) \div bpr, (i - 1) % bpr)
  <2>1. ASSUME NEW i \in 1 .. n PROVE (i - 1) \div bpr \in Nat /\ (i - 1) % bpr \in 0 .. bpr - 1
    <3>2. i - 1 \in Nat
      BY <1>1
    <3>3. \A a \in Nat : a \div bpr \in Nat /\ a % bpr \in 0 .. bpr - 1
      OBVIOUS
    <3>4. QED
      BY <3>2, <3>3
  <2>2. \A i \in 1 .. n : /\ Block(rows, bpr, (i - 1) \div bpr, (i - 1) % bpr) \in Seq(Cell)
                          /\ Len(Block(rows, bpr, (i - 1) \div bpr, (i - 1) % bpr)) = c
    <3>1. \A i \in 1 .. n : BlockAs(Block(rows, bpr, (i - 1) \div bpr, (i - 1) % bpr), rows, (i - 1) \div bpr, (i - 1) % bpr)
      BY <2>1, BlockCells
    <3>2. QED
      BY <3>1, Zenon DEF BlockAs
  <2>3. QED
    BY <2>2
<1>. HIDE DEF g, c
<1>4. Even(g, n, c, Cell)
  BY <1>1, <1>3 DEF Even
<1>5. EvenlyLaid(W, g, n, c, Cell)
  BY <1>2, <1>4, UniformFlatten
<1>6. W \in Seq(Cell) /\ Len(W) = n * c /\ \A i \in 1 .. n : \A k \in 1 .. c : W[(i - 1) * c + k] = g[i][k]
  BY <1>5, Zenon DEF EvenlyLaid
<1>7. ASSUME NEW rb \in 0 .. Rowblocks(rows) - 1, NEW q1 \in 0 .. bpr - 1
      PROVE  /\ (rb * bpr + q1) * c \in Nat /\ (rb * bpr + q1) * c + c <= Len(W)
             /\ \A k \in 1 .. c : W[(rb * bpr + q1) * c + k] = Block(rows, bpr, rb, q1)[k]
  <2>. DEFINE j == rb * bpr + q1
  <2>1. j + 1 \in 1 .. n /\ (j + 1) - 1 = j /\ j \div bpr = rb /\ j % bpr = q1
    BY <1>1, PairPlace DEF n
  <2>. HIDE DEF j
  <2>2. g[j + 1] = Block(rows, bpr, rb, q1)
    BY <1>3, <2>1
  <2>3. j \in Nat /\ j < n
    BY <1>1, <2>1
  <2>4. j * c + c <= n * c /\ j * c \in Nat
    BY <1>1, <2>3, PlaceInside, MulMono
  <2>5. \A k \in 1 .. c : W[j * c + k] = Block(rows, bpr, rb, q1)[k]
    BY <1>6, <2>1, <2>2
  <2>6. QED
    BY <1>6, <2>4, <2>5 DEF j
<1>8. QED
  BY <1>1, <1>6, <1>7 DEF n, c, PackedAs

\* A block at a place of the stream, its masks, and a sub-block's quants and scale.
BlockAt(W, a, t) ==
  /\ W \in Seq(Cell) /\ a \in Nat /\ Len(W) \in Nat /\ a + PACKED_PER_Q1_BLOCK <= Len(W)
  /\ \A k \in 1 .. PACKED_PER_Q1_BLOCK : W[a + k] = t[k]

BitsAt(t, d, rows, rb, q1, sub) ==
  \A l \in Lane, e \in 1 .. 2 : t[SCALES + (d + (2 * l + e))] = LaneBits(rows, rb * ROWS_PER_BLOCK + l, q1, sub, e)

SubAt(A, a, col, i) ==
  /\ A \in Seq(Cell) /\ Len(A) \in Nat /\ a \in Nat /\ a + (ACTS + BEAT) <= Len(A)
  /\ \A k \in 1 .. ACTS : A[a + k] = <<<<"acts", col, i>>, k, ACTS>>
  /\ A[a + (ACTS + 1)] = <<<<"act_scale", col, i>>, 1, 1>>

\* The packed matrix holds every block at its place.
LEMMA PackedBlock ==
  ASSUME NEW rows \in Nat \ {0}, NEW bpr \in Nat \ {0}, NEW W, W = PackWeights(Q1Matrix(rows, bpr), rows, bpr),
         NEW rb \in 0 .. Rowblocks(rows) - 1, NEW q1 \in 0 .. bpr - 1, NEW a, a = (rb * bpr + q1) * PACKED_PER_Q1_BLOCK
  PROVE  BlockAt(W, a, Block(rows, bpr, rb, q1))
<1>1. PackedAs(W, rows, bpr)
  BY PackedCellsAre
<1>2. W \in Seq(Cell)
  BY <1>1, Zenon DEF PackedAs
<1>3. a \in Nat /\ a + PACKED_PER_Q1_BLOCK <= Len(W)
  BY <1>1, Zenon DEF PackedAs
<1>4. \A k \in 1 .. PACKED_PER_Q1_BLOCK : W[a + k] = Block(rows, bpr, rb, q1)[k]
  BY <1>1, Zenon DEF PackedAs
<1>5. QED
  BY <1>2, <1>3, <1>4 DEF BlockAt

\* A block's masks of one sub-block.
LEMMA BlockBits ==
  ASSUME NEW rows \in Nat \ {0}, NEW bpr \in Nat \ {0}, NEW rb \in Nat, NEW q1 \in 0 .. bpr - 1,
         NEW sub \in 0 .. Q8_SUBBLOCKS - 1, NEW d, d = sub * WBITS
  PROVE  BitsAt(Block(rows, bpr, rb, q1), d, rows, rb, q1, sub)
<1>1. BlockAs(Block(rows, bpr, rb, q1), rows, rb, q1)
  BY BlockCells
<1>2. QED
  BY <1>1, Zenon DEF BlockAs, BitsAt

\* The packed column: every sub-block's quants, then the beat with its scale.
LEMMA PackedActsAre ==
  ASSUME NEW col \in Nat, NEW bpr \in Nat \ {0},
         NEW A, A = PackActs(QuantsOf(col, bpr), ActScalesOf(col, bpr), bpr)
  PROVE  ActsAs(A, col, bpr)
<1>. DEFINE n == bpr * Q8_SUBBLOCKS
            qs == [i \in 1 .. n |-> Whole(<<"acts", col, i - 1>>, ACTS)]
            q == QuantsOf(col, bpr)
            sc == ActScalesOf(col, bpr)
            g == [i \in 1 .. n |-> ActWords(q, sc, i - 1)]
<1>1. n \in Nat \ {0} /\ ACTS \in Nat /\ BEAT = 4
  <2>1. \A a, b \in Nat \ {0} : a * b \in Nat \ {0}
    OBVIOUS
  <2>2. QED
    BY <2>1, Sizes
<1>2. A = FlattenSeq(g) /\ q = FlattenSeq(qs)
  BY Zenon DEF PackActs, QuantsOf
<1>3. sc = [i \in 1 .. n |-> <<<<"act_scale", col, i - 1>>, 1, 1>>]
  BY Zenon DEF ActScalesOf
<1>. HIDE DEF n, q, sc
<1>4. Even(qs, n, ACTS, Cell) /\ \A i \in 1 .. n : qs[i] = Whole(<<"acts", col, i - 1>>, ACTS)
  <2>1. \A i \in 1 .. n : <<"acts", col, i - 1>> \in Value
    <3>1. \A i \in 1 .. n : i - 1 \in Nat
      BY <1>1
    <3>2. QED
      BY <3>1, Values
  <2>2. \A i \in 1 .. n : Whole(<<"acts", col, i - 1>>, ACTS) \in Seq(Cell) /\ Len(Whole(<<"acts", col, i - 1>>, ACTS)) = ACTS
    BY <1>1, <2>1, WholeCells
  <2>3. qs \in [1 .. n -> Seq(Cell)]
    BY <2>2
  <2>4. \A i \in 1 .. n : Len(qs[i]) = ACTS /\ qs[i] = Whole(<<"acts", col, i - 1>>, ACTS)
    BY <2>2
  <2>. HIDE DEF qs
  <2>5. QED
    BY <1>1, <2>3, <2>4 DEF Even
<1>. HIDE DEF qs
<1>5. EvenlyLaid(q, qs, n, ACTS, Cell)
  BY <1>2, <1>4, UniformFlatten
<1>6. q \in Seq(Cell) /\ Len(q) = n * ACTS /\ \A i \in 1 .. n : \A k \in 1 .. ACTS : q[(i - 1) * ACTS + k] = qs[i][k]
  BY <1>5, Zenon DEF EvenlyLaid
<1>7. ASSUME NEW i \in 0 .. n - 1, NEW t, t = ActWords(q, sc, i)
      PROVE  /\ t \in Seq(Cell) /\ Len(t) = ACTS + BEAT
             /\ \A k \in 1 .. ACTS : t[k] = <<<<"acts", col, i>>, k, ACTS>>
             /\ t[ACTS + 1] = <<<<"act_scale", col, i>>, 1, 1>>
  <2>1. i \in Nat /\ i + 1 \in 1 .. n /\ (i + 1) - 1 = i
    BY <1>1
  <2>2. i * ACTS + ACTS <= n * ACTS /\ i * ACTS \in Nat /\ (i + 1) * ACTS = i * ACTS + ACTS
    BY <1>1, <2>1, PlaceInside, MulMono, MulNext
  <2>. DEFINE u == SubSeq(q, i * ACTS + 1, i * ACTS + ACTS)
              z == Zeros(BEAT - 1)
              x == <<sc[i + 1]>>
              ux == u \o x
  <2>3. t = ux \o z
    <3>1. t = SubSeq(q, i * ACTS + 1, (i + 1) * ACTS) \o <<sc[i + 1]>> \o Zeros(BEAT - 1)
      BY <1>7, Zenon DEF ActWords
    <3>2. QED
      BY ONLY <2>2, <3>1, Zenon
  <2>4. u \in Seq(Cell) /\ Len(u) = ACTS /\ \A k \in 1 .. ACTS : u[k] = q[i * ACTS + k]
    <3>. DEFINE a == i * ACTS
    <3>. HIDE DEF a
    <3>1. a \in Nat /\ a + ACTS <= Len(q) /\ u = SubSeq(q, a + 1, a + ACTS)
      BY <1>6, <2>2 DEF a
    <3>. HIDE DEF u
    <3>2. u \in Seq(Cell) /\ Len(u) = ACTS /\ \A k \in 1 .. ACTS : u[k] = q[a + k]
      BY <1>1, <1>6, <3>1, Window
    <3>3. QED
      BY <3>2 DEF a
  <2>5. z \in Seq(Cell) /\ Len(z) = 3
    <3>1. BEAT - 1 = 3 /\ 3 \in Nat
      BY <1>1
    <3>2. QED
      BY <3>1, ZeroCells
  <2>6. sc[i + 1] = <<<<"act_scale", col, i>>, 1, 1>> /\ sc[i + 1] \in Cell
    <3>1. sc[i + 1] = <<<<"act_scale", col, i>>, 1, 1>>
      BY <1>3, <2>1
    <3>2. <<"act_scale", col, i>> \in Value
      BY <2>1, Values
    <3>3. QED
      BY <3>1, <3>2 DEF Cell
  <2>7. x \in Seq(Cell) /\ Len(x) = 1 /\ x[1] = <<<<"act_scale", col, i>>, 1, 1>>
    BY <2>6
  <2>. HIDE DEF u, z, x
  <2>8. ux \in Seq(Cell) /\ Len(ux) = ACTS + 1
    <3>1. ux \in Seq(Cell) /\ Len(ux) = Len(u) + Len(x)
      BY <2>4, <2>7, ConcatProperties
    <3>2. QED
      BY <2>4, <2>7, <3>1
  <2>9. /\ \A k \in 1 .. Len(u) : ux[k] = u[k]
        /\ \A k \in 1 .. Len(x) : ux[Len(u) + k] = x[k]
    <3>1. u \in Seq(Cell) /\ x \in Seq(Cell)
      BY <2>4, <2>7
    <3>2. QED
      BY ONLY <3>1, ConcatPlaces
  <2>. HIDE DEF ux
  <2>10. t \in Seq(Cell) /\ Len(t) = ACTS + BEAT
    <3>1. t \in Seq(Cell) /\ Len(t) = Len(ux) + Len(z)
      BY <2>3, <2>5, <2>8, ConcatProperties
    <3>2. QED
      BY <1>1, <2>5, <2>8, <3>1
  <2>11. \A k \in 1 .. Len(ux) : t[k] = ux[k]
    <3>1. ux \in Seq(Cell) /\ z \in Seq(Cell)
      BY <2>5, <2>8
    <3>2. QED
      BY ONLY <2>3, <3>1, ConcatPlaces
  <2>12. ASSUME NEW k \in 1 .. ACTS PROVE t[k] = <<<<"acts", col, i>>, k, ACTS>>
    <3>1. k \in 1 .. Len(ux) /\ k \in 1 .. Len(u)
      BY <1>1, <2>4, <2>8
    <3>2. t[k] = q[i * ACTS + k]
      BY <2>4, <2>9, <2>11, <3>1
    <3>3. q[i * ACTS + k] = qs[i + 1][k] /\ qs[i + 1] = Whole(<<"acts", col, i>>, ACTS)
      BY <1>4, <1>6, <2>1
    <3>4. <<"acts", col, i>> \in Value
      BY <2>1, Values
    <3>5. QED
      BY <1>1, <3>2, <3>3, <3>4, WholeCells
  <2>13. t[ACTS + 1] = <<<<"act_scale", col, i>>, 1, 1>>
    <3>1. ACTS + 1 \in 1 .. Len(ux) /\ 1 \in 1 .. Len(x)
      BY <1>1, <2>7, <2>8
    <3>2. QED
      BY <2>4, <2>7, <2>9, <2>11, <3>1
  <2>14. QED
    BY <2>10, <2>12, <2>13
<1>. DEFINE c == ACTS + BEAT
<1>8. /\ g \in [1 .. n -> Seq(Cell)]
      /\ \A i \in 1 .. n : Len(g[i]) = c
      /\ \A i \in 1 .. n : g[i] = ActWords(q, sc, i - 1)
  <2>1. \A i \in 1 .. n : i - 1 \in 0 .. n - 1
    BY <1>1
  <2>2. \A i \in 1 .. n : ActWords(q, sc, i - 1) \in Seq(Cell) /\ Len(ActWords(q, sc, i - 1)) = c
    BY <1>7, <2>1
  <2>3. QED
    BY <2>2
<1>9. c \in Nat
  BY <1>1
<1>. HIDE DEF g, c
<1>10. EvenlyLaid(A, g, n, c, Cell)
  <2>1. Even(g, n, c, Cell)
    BY <1>1, <1>8, <1>9 DEF Even
  <2>2. QED
    BY <1>2, <2>1, UniformFlatten
<1>11. A \in Seq(Cell) /\ Len(A) = n * c /\ \A i \in 1 .. n : \A k \in 1 .. c : A[(i - 1) * c + k] = g[i][k]
  BY <1>10, Zenon DEF EvenlyLaid
<1>12. ASSUME NEW i \in 0 .. n - 1
       PROVE  /\ i * c \in Nat /\ i * c + c <= Len(A)
              /\ \A k \in 1 .. ACTS : A[i * c + k] = <<<<"acts", col, i>>, k, ACTS>>
              /\ A[i * c + (ACTS + 1)] = <<<<"act_scale", col, i>>, 1, 1>>
  <2>1. i \in Nat /\ i < n /\ i + 1 \in 1 .. n /\ (i + 1) - 1 = i
    BY <1>1
  <2>2. i * c \in Nat /\ i * c + c <= n * c
    BY <1>1, <1>9, <2>1, PlaceInside, MulMono
  <2>3. g[i + 1] = ActWords(q, sc, i)
    BY <1>8, <2>1
  <2>4. \A k \in 1 .. c : A[i * c + k] = ActWords(q, sc, i)[k]
    BY <1>11, <2>1, <2>3
  <2>5. ACTS + 1 \in 1 .. c /\ \A k \in 1 .. ACTS : k \in 1 .. c
    BY <1>1 DEF c
  <2>6. /\ \A k \in 1 .. ACTS : ActWords(q, sc, i)[k] = <<<<"acts", col, i>>, k, ACTS>>
        /\ ActWords(q, sc, i)[ACTS + 1] = <<<<"act_scale", col, i>>, 1, 1>>
    BY <1>7
  <2>7. QED
    BY <1>11, <2>2, <2>4, <2>5, <2>6
<1>13. QED
  BY <1>11, <1>12 DEF n, c, ActsAs

\* The packed column holds every sub-block at its place.
LEMMA PackedSub ==
  ASSUME NEW col \in Nat, NEW bpr \in Nat \ {0},
         NEW A, A = PackActs(QuantsOf(col, bpr), ActScalesOf(col, bpr), bpr),
         NEW i \in 0 .. bpr * Q8_SUBBLOCKS - 1, NEW a, a = i * (ACTS + BEAT)
  PROVE  SubAt(A, a, col, i)
<1>1. ActsAs(A, col, bpr)
  BY PackedActsAre
<1>2. A \in Seq(Cell)
  BY <1>1, Zenon DEF ActsAs
<1>3. a \in Nat /\ a + (ACTS + BEAT) <= Len(A)
  BY <1>1, Zenon DEF ActsAs
<1>4. \A k \in 1 .. ACTS : A[a + k] = <<<<"acts", col, i>>, k, ACTS>>
  BY <1>1, Zenon DEF ActsAs
<1>5. A[a + (ACTS + 1)] = <<<<"act_scale", col, i>>, 1, 1>>
  BY <1>1, Zenon DEF ActsAs
<1>6. QED
  BY <1>2, <1>3, <1>4, <1>5 DEF SubAt

\* The streams of a shape.
LEMMA StreamsAre ==
  ASSUME NEW s \in Shapes
  PROVE  /\ s[1] \in Nat \ {0} /\ s[2] \in Nat \ {0} /\ s[2] * Q8_SUBBLOCKS <= MAX_SUB_INDEX
         /\ WeightStream[s] = PackWeights(Q1Matrix(s[1], s[2]), s[1], s[2])
         /\ \A c \in 1 .. MAX_STARTS : ActStream[s][c] = PackActs(QuantsOf(c, s[2]), ActScalesOf(c, s[2]), s[2])
<1>1. s \in (Nat \ {0}) \X (Nat \ {0}) /\ s[2] * Q8_SUBBLOCKS <= MAX_SUB_INDEX
  BY KernelAssumption
<1>2. s[1] \in Nat \ {0} /\ s[2] \in Nat \ {0}
  BY <1>1
<1>3. WeightStream[s] = PackWeights(Q1Matrix(s[1], s[2]), s[1], s[2])
  BY Zenon DEF WeightStream
<1>4. \A c \in 1 .. MAX_STARTS : ActStream[s][c] = PackActs(QuantsOf(c, s[2]), ActScalesOf(c, s[2]), s[2])
  BY Zenon DEF ActStream
<1>5. QED
  BY <1>1, <1>2, <1>3, <1>4

\* The words a lane multiplies.
LEMMA TermParts ==
  ASSUME NEW shape, shape[1] \in Nat, shape[2] \in Nat, NEW col \in Nat, NEW row \in Nat,
         NEW q1 \in Nat, NEW sub \in 0 .. Q8_SUBBLOCKS - 1, NEW i, i = q1 * Q8_SUBBLOCKS + sub
  PROVE  Term(shape, col, row, i) =
           << LaneScale(shape[1], row, q1),
              <<LaneBits(shape[1], row, q1, sub, 1), LaneBits(shape[1], row, q1, sub, 2)>>,
              <<Whole(<<"acts", col, i>>, ACTS), <<<<"act_scale", col, i>>, 1, 1>>>> >>
<1>1. Q8_SUBBLOCKS \in Nat \ {0}
  BY Sizes
<1>2. i \in Nat /\ i \div Q8_SUBBLOCKS = q1 /\ i % Q8_SUBBLOCKS = sub
  <2>1. i \in Nat
    BY <1>1, MulMono
  <2>2. QED
    BY <1>1, <2>1, QuotientUnique
<1>3. Term(shape, col, row, i) =
        << IF row < shape[1] THEN Whole(ScaleOf(row, q1), 1)[1] ELSE Zero,
           IF row < shape[1] THEN Whole(BitsOf(row, q1, sub), 2) ELSE Zeros(2),
           <<Whole(<<"acts", col, i>>, ACTS), <<<<"act_scale", col, i>>, 1, 1>>>> >>
  BY <1>2, Zenon DEF Term
<1>4. Whole(ScaleOf(row, q1), 1)[1] = <<ScaleOf(row, q1), 1, 1>>
  BY DEF Whole
<1>5. Whole(BitsOf(row, q1, sub), 2) = <<<<BitsOf(row, q1, sub), 1, 2>>, <<BitsOf(row, q1, sub), 2, 2>>>>
  BY DEF Whole
<1>6. Zeros(2) = <<Zero, Zero>>
  BY DEF Zeros
<1>7. (IF row < shape[1] THEN Whole(ScaleOf(row, q1), 1)[1] ELSE Zero) = LaneScale(shape[1], row, q1)
  BY <1>4, Zenon DEF LaneScale
<1>8. (IF row < shape[1] THEN Whole(BitsOf(row, q1, sub), 2) ELSE Zeros(2))
        = <<LaneBits(shape[1], row, q1, sub, 1), LaneBits(shape[1], row, q1, sub, 2)>>
  BY <1>5, <1>6, Zenon DEF LaneBits
<1>9. QED
  BY ONLY <1>3, <1>7, <1>8, Zenon

\* Beats of the weights: four lanes' scales, two lanes' masks.
LEMMA WeightSize ==
  /\ SCALES \in Nat /\ WBITS \in Nat /\ PACKED_PER_Q1_BLOCK \in Nat /\ SCALES <= PACKED_PER_Q1_BLOCK
  /\ \A sub \in 0 .. Q8_SUBBLOCKS - 1 : sub * WBITS \in Nat /\ SCALES + sub * WBITS + WBITS <= PACKED_PER_Q1_BLOCK
<1>1. SCALES \in Nat /\ WBITS \in Nat /\ Q8_SUBBLOCKS \in Nat
  BY Sizes
<1>2. Q8_SUBBLOCKS * WBITS \in Nat /\ PACKED_PER_Q1_BLOCK = SCALES + Q8_SUBBLOCKS * WBITS
  BY <1>1, MulMono DEF PACKED_PER_Q1_BLOCK
<1>3. \A sub \in 0 .. Q8_SUBBLOCKS - 1 : sub * WBITS \in Nat /\ sub * WBITS + WBITS <= Q8_SUBBLOCKS * WBITS
  <2>1. SUFFICES ASSUME NEW sub \in 0 .. Q8_SUBBLOCKS - 1
                 PROVE  sub * WBITS \in Nat /\ sub * WBITS + WBITS <= Q8_SUBBLOCKS * WBITS
    OBVIOUS
  <2>2. sub \in Nat /\ sub < Q8_SUBBLOCKS
    BY <1>1
  <2>3. QED
    BY <1>1, <2>2, PlaceInside, MulMono
<1>4. QED
  BY <1>1, <1>2, <1>3

ScaleBeatIs(beat, W, p, rows, rb, q1, b) ==
  /\ p \in Nat /\ p + BEAT <= Len(W) /\ Len(W) \in Nat
  /\ \A l \in Lane : l \div 4 = b => beat[(l % 4) + 1] = LaneScale(rows, rb * ROWS_PER_BLOCK + l, q1)

\* A beat of scales.
LEMMA ScaleBeat ==
  ASSUME NEW s \in Shapes, NEW W, W = WeightStream[s], NEW rb \in 0 .. Rowblocks(s[1]) - 1, NEW q1 \in 0 .. s[2] - 1,
         NEW b \in 0 .. SCALE_BEATS - 1, NEW p, p = (rb * s[2] + q1) * PACKED_PER_Q1_BLOCK + b * BEAT,
         NEW beat, beat = SubSeq(W, p + 1, p + BEAT)
  PROVE  ScaleBeatIs(beat, W, p, s[1], rb, q1, b)
<1>. DEFINE a == (rb * s[2] + q1) * PACKED_PER_Q1_BLOCK
            t == Block(s[1], s[2], rb, q1)
<1>1. s[1] \in Nat \ {0} /\ s[2] \in Nat \ {0} /\ W = PackWeights(Q1Matrix(s[1], s[2]), s[1], s[2])
  BY StreamsAre
<1>2. /\ W \in Seq(Cell) /\ a \in Nat /\ Len(W) \in Nat /\ a + PACKED_PER_Q1_BLOCK <= Len(W)
      /\ \A k \in 1 .. PACKED_PER_Q1_BLOCK : W[a + k] = t[k]
  <2>1. PICK rows, bpr : rows = s[1] /\ bpr = s[2]
    OBVIOUS
  <2>2. /\ rows \in Nat \ {0} /\ bpr \in Nat \ {0} /\ W = PackWeights(Q1Matrix(rows, bpr), rows, bpr)
        /\ rb \in 0 .. Rowblocks(rows) - 1 /\ q1 \in 0 .. bpr - 1 /\ a = (rb * bpr + q1) * PACKED_PER_Q1_BLOCK
        /\ t = Block(rows, bpr, rb, q1)
    BY <1>1, <2>1
  <2>. HIDE DEF a, t
  <2>3. BlockAt(W, a, t)
    BY ONLY <2>2, PackedBlock
  <2>4. QED
    BY ONLY <2>3, Zenon DEF BlockAt
<1>3. BEAT = 4 /\ SCALES = SCALE_BEATS * 4 /\ SCALE_BEATS \in Nat /\ ROWS_PER_BLOCK \in Nat /\ ROWS_PER_BLOCK <= SCALES
  BY Sizes
<1>4. PACKED_PER_Q1_BLOCK \in Nat /\ SCALES <= PACKED_PER_Q1_BLOCK
  BY WeightSize
<1>5. \A l \in Lane : t[l + 1] = LaneScale(s[1], rb * ROWS_PER_BLOCK + l, q1)
  <2>1. PICK rows, bpr : rows = s[1] /\ bpr = s[2]
    OBVIOUS
  <2>2. /\ rows \in Nat \ {0} /\ bpr \in Nat \ {0} /\ rb \in Nat /\ q1 \in 0 .. bpr - 1
        /\ t = Block(rows, bpr, rb, q1)
    BY <1>1, <2>1
  <2>. HIDE DEF t
  <2>3. BlockAs(t, rows, rb, q1)
    BY ONLY <2>2, BlockCells
  <2>4. QED
    BY ONLY <2>1, <2>3, Zenon DEF BlockAs
<1>6. p = a + b * 4
  BY <1>3
<1>. HIDE DEF a, t
<1>7. p \in Nat /\ p + 4 <= Len(W) /\ Len(W) \in Nat
  BY <1>2, <1>3, <1>4, <1>6
<1>8. \A i \in 1 .. 4 : beat[i] = W[p + i]
  <2>1. beat = SubSeq(W, p + 1, p + 4)
    BY <1>3
  <2>2. PICK k : k = 4
    OBVIOUS
  <2>3. W \in Seq(Cell) /\ p \in Nat /\ k \in Nat /\ p + k <= Len(W) /\ beat = SubSeq(W, p + 1, p + k)
    BY <1>2, <1>7, <2>1, <2>2
  <2>4. \A i \in 1 .. k : beat[i] = W[p + i]
    BY ONLY <2>3, Window
  <2>5. QED
    BY ONLY <2>2, <2>4
<1>9. ASSUME NEW l \in Lane, l \div 4 = b PROVE beat[(l % 4) + 1] = LaneScale(s[1], rb * ROWS_PER_BLOCK + l, q1)
  <2>1. l \in Nat /\ l < ROWS_PER_BLOCK
    BY <1>3 DEF Lane
  <2>2. (l % 4) + 1 \in 1 .. 4 /\ l = 4 * (l \div 4) + (l % 4)
    BY <2>1
  <2>3. p + ((l % 4) + 1) = a + (l + 1)
    BY <1>2, <1>6, <1>9, <2>1, <2>2
  <2>4. l + 1 \in 1 .. PACKED_PER_Q1_BLOCK
    BY <1>3, <1>4, <2>1
  <2>5. beat[(l % 4) + 1] = W[a + (l + 1)]
    BY <1>8, <2>2, <2>3
  <2>6. QED
    BY <1>2, <1>5, <2>4, <2>5
<1>10. QED
  BY <1>3, <1>7, <1>9 DEF ScaleBeatIs

\* Two elements of a sequence.
LEMMA PairWindow ==
  ASSUME NEW T, NEW s, s \in Seq(T), NEW a \in Nat, a + 2 <= Len(s), NEW v, v = SubSeq(s, a + 1, a + 2)
  PROVE  v \in Seq(T) /\ Len(v) = 2 /\ v[1] = s[a + 1] /\ v[2] = s[a + 2]
<1>1. PICK k : k = 2
  OBVIOUS
<1>2. s \in Seq(T) /\ a \in Nat /\ k \in Nat /\ a + k <= Len(s) /\ v = SubSeq(s, a + 1, a + k)
  BY <1>1
<1>3. v \in Seq(T) /\ Len(v) = k /\ \A i \in 1 .. k : v[i] = s[a + i]
  BY ONLY <1>2, Window
<1>4. QED
  BY ONLY <1>1, <1>3

BitBeatIs(beat, W, p, rows, rb, q1, sub, b) ==
  /\ p \in Nat /\ p + BEAT <= Len(W) /\ Len(W) \in Nat
  /\ \A l \in Lane : l \div 2 = b =>
       SubSeq(beat, 2 * (l % 2) + 1, 2 * (l % 2) + 2) =
         <<LaneBits(rows, rb * ROWS_PER_BLOCK + l, q1, sub, 1), LaneBits(rows, rb * ROWS_PER_BLOCK + l, q1, sub, 2)>>

\* A beat of masks.
LEMMA BitBeat ==
  ASSUME NEW s \in Shapes, NEW W, W = WeightStream[s], NEW rb \in 0 .. Rowblocks(s[1]) - 1, NEW q1 \in 0 .. s[2] - 1,
         NEW sub \in 0 .. Q8_SUBBLOCKS - 1, NEW b \in 0 .. WBITS_BEATS - 1,
         NEW p, p = (rb * s[2] + q1) * PACKED_PER_Q1_BLOCK + SCALES + sub * WBITS + b * BEAT,
         NEW beat, beat = SubSeq(W, p + 1, p + BEAT)
  PROVE  BitBeatIs(beat, W, p, s[1], rb, q1, sub, b)
<1>. DEFINE a == (rb * s[2] + q1) * PACKED_PER_Q1_BLOCK
            d == sub * WBITS
            t == Block(s[1], s[2], rb, q1)
<1>1. s[1] \in Nat \ {0} /\ s[2] \in Nat \ {0} /\ W = PackWeights(Q1Matrix(s[1], s[2]), s[1], s[2])
  BY StreamsAre
<1>2. /\ W \in Seq(Cell) /\ a \in Nat /\ Len(W) \in Nat /\ a + PACKED_PER_Q1_BLOCK <= Len(W)
      /\ \A k \in 1 .. PACKED_PER_Q1_BLOCK : W[a + k] = t[k]
  <2>1. PICK rows, bpr : rows = s[1] /\ bpr = s[2]
    OBVIOUS
  <2>2. /\ rows \in Nat \ {0} /\ bpr \in Nat \ {0} /\ W = PackWeights(Q1Matrix(rows, bpr), rows, bpr)
        /\ rb \in 0 .. Rowblocks(rows) - 1 /\ q1 \in 0 .. bpr - 1 /\ a = (rb * bpr + q1) * PACKED_PER_Q1_BLOCK
        /\ t = Block(rows, bpr, rb, q1)
    BY <1>1, <2>1
  <2>. HIDE DEF a, t
  <2>3. BlockAt(W, a, t)
    BY ONLY <2>2, PackedBlock
  <2>4. QED
    BY ONLY <2>3, Zenon DEF BlockAt
<1>3. BEAT = 4 /\ WBITS = WBITS_BEATS * 4 /\ WBITS_BEATS \in Nat /\ ROWS_PER_BLOCK = 2 * WBITS_BEATS
  BY Sizes
<1>4. PACKED_PER_Q1_BLOCK \in Nat /\ SCALES \in Nat /\ d \in Nat /\ SCALES + d + WBITS <= PACKED_PER_Q1_BLOCK
  BY WeightSize
<1>5. \A l \in Lane, e \in 1 .. 2 : t[SCALES + (d + (2 * l + e))] = LaneBits(s[1], rb * ROWS_PER_BLOCK + l, q1, sub, e)
  <2>1. PICK rows, bpr : rows = s[1] /\ bpr = s[2]
    OBVIOUS
  <2>2. rows \in Nat \ {0} /\ bpr \in Nat \ {0} /\ rb \in Nat /\ q1 \in 0 .. bpr - 1
    BY <1>1, <2>1
  <2>3. d = sub * WBITS /\ t = Block(rows, bpr, rb, q1)
    BY <2>1
  <2>. HIDE DEF d, t
  <2>4. BitsAt(t, d, rows, rb, q1, sub)
    BY ONLY <2>2, <2>3, sub \in 0 .. Q8_SUBBLOCKS - 1, BlockBits
  <2>5. QED
    BY ONLY <2>1, <2>4, Zenon DEF BitsAt
<1>6. p = a + SCALES + d + b * 4
  BY <1>3
<1>. HIDE DEF a, d, t
<1>7. p \in Nat /\ p + 4 <= Len(W) /\ Len(W) \in Nat
  <2>1. b \in Nat /\ b * 4 + 4 <= WBITS /\ WBITS \in Nat
    BY <1>3
  <2>2. PICK N : N = Len(W) /\ N \in Nat /\ a + PACKED_PER_Q1_BLOCK <= N
    BY <1>2
  <2>3. p \in Nat /\ p + 4 <= N
    BY ONLY <1>2, <1>4, <1>6, <2>1, <2>2
  <2>4. QED
    BY ONLY <2>2, <2>3
<1>8. beat \in Seq(Cell) /\ Len(beat) = 4 /\ \A i \in 1 .. 4 : beat[i] = W[p + i]
  <2>1. beat = SubSeq(W, p + 1, p + 4)
    BY <1>3
  <2>2. PICK k : k = 4
    OBVIOUS
  <2>3. W \in Seq(Cell) /\ p \in Nat /\ k \in Nat /\ p + k <= Len(W) /\ beat = SubSeq(W, p + 1, p + k)
    BY <1>2, <1>7, <2>1, <2>2
  <2>4. beat \in Seq(Cell) /\ Len(beat) = k /\ \A i \in 1 .. k : beat[i] = W[p + i]
    BY ONLY <2>3, Window
  <2>5. QED
    BY ONLY <2>2, <2>4
<1>9. ASSUME NEW l \in Lane, l \div 2 = b
      PROVE  SubSeq(beat, 2 * (l % 2) + 1, 2 * (l % 2) + 2) =
               <<LaneBits(s[1], rb * ROWS_PER_BLOCK + l, q1, sub, 1), LaneBits(s[1], rb * ROWS_PER_BLOCK + l, q1, sub, 2)>>
  <2>1. l \in Nat /\ l < ROWS_PER_BLOCK
    BY <1>3 DEF Lane
  <2>. DEFINE r == 2 * (l % 2)
              v == SubSeq(beat, r + 1, r + 2)
  <2>2. r \in Nat /\ r + 2 <= 4 /\ 4 * b + r = 2 * l
    BY <1>9, <2>1
  <2>. HIDE DEF r
  <2>3. v \in Seq(Cell) /\ Len(v) = 2 /\ \A i \in 1 .. 2 : v[i] = beat[r + i]
    <3>1. beat \in Seq(Cell) /\ r + 2 <= Len(beat) /\ v = SubSeq(beat, r + 1, r + 2)
      BY <1>8, <2>2
    <3>2. r \in Nat
      BY <2>2
    <3>. HIDE DEF v
    <3>3. v \in Seq(Cell) /\ Len(v) = 2 /\ v[1] = beat[r + 1] /\ v[2] = beat[r + 2]
      BY ONLY <3>1, <3>2, PairWindow
    <3>4. \A i \in 1 .. 2 : i = 1 \/ i = 2
      OBVIOUS
    <3>5. \A i \in 1 .. 2 : v[i] = beat[r + i]
      BY ONLY <3>3, <3>4, Zenon
    <3>6. QED
      BY ONLY <3>3, <3>5, Zenon
  <2>4. ASSUME NEW e \in 1 .. 2 PROVE v[e] = LaneBits(s[1], rb * ROWS_PER_BLOCK + l, q1, sub, e)
    <3>1. r + e \in 1 .. 4 /\ e \in Nat
      BY <2>2
    <3>2. p + (r + e) = a + (SCALES + (d + (2 * l + e)))
      <4>1. b * 4 + r = 2 * l /\ b \in Nat
        BY <2>2
      <4>2. a \in Nat
        BY <1>2
      <4>3. QED
        BY ONLY <1>4, <1>6, <2>1, <2>2, <3>1, <4>1, <4>2
    <3>3. SCALES + (d + (2 * l + e)) \in 1 .. PACKED_PER_Q1_BLOCK
      BY <1>3, <1>4, <2>1, <3>1
    <3>4. v[e] = W[p + (r + e)]
      BY <1>8, <2>3, <3>1
    <3>5. W[a + (SCALES + (d + (2 * l + e)))] = t[SCALES + (d + (2 * l + e))]
      BY <1>2, <3>3
    <3>6. QED
      BY <1>5, <3>2, <3>4, <3>5
  <2>. HIDE DEF v
  <2>5. v = <<v[1], v[2]>>
    BY <2>3
  <2>6. v[1] = LaneBits(s[1], rb * ROWS_PER_BLOCK + l, q1, sub, 1) /\ v[2] = LaneBits(s[1], rb * ROWS_PER_BLOCK + l, q1, sub, 2)
    BY <2>4
  <2>7. v = <<LaneBits(s[1], rb * ROWS_PER_BLOCK + l, q1, sub, 1), LaneBits(s[1], rb * ROWS_PER_BLOCK + l, q1, sub, 2)>>
    BY ONLY <2>5, <2>6, Zenon
  <2>8. QED
    BY <2>7 DEF v, r
<1>10. QED
  BY <1>3, <1>7, <1>9 DEF BitBeatIs

\* Beats of the activations.
ActsBeatIs(beat, A, p, col, i, b) ==
  /\ p \in Nat /\ p + BEAT <= Len(A) /\ Len(A) \in Nat /\ beat \in Seq(Cell) /\ Len(beat) = 4
  /\ b < ACT_BEATS => \A k \in 1 .. 4 : beat[k] = <<<<"acts", col, i>>, b * BEAT + k, ACTS>>
  /\ b = ACT_BEATS => Head(beat) = <<<<"act_scale", col, i>>, 1, 1>>

\* A beat of activations, or the one with their scale.
LEMMA ActsBeat ==
  ASSUME NEW s \in Shapes, NEW col \in 1 .. MAX_STARTS, NEW A, A = ActStream[s][col], NEW i \in 0 .. s[2] * Q8_SUBBLOCKS - 1,
         NEW b \in 0 .. ACT_BEATS, NEW p, p = i * (ACTS + BEAT) + b * BEAT,
         NEW beat, beat = SubSeq(A, p + 1, p + BEAT)
  PROVE  ActsBeatIs(beat, A, p, col, i, b)
<1>. DEFINE a == i * (ACTS + BEAT)
<1>1. s[2] \in Nat \ {0} /\ A = PackActs(QuantsOf(col, s[2]), ActScalesOf(col, s[2]), s[2]) /\ col \in Nat
  BY StreamsAre
<1>2. /\ A \in Seq(Cell) /\ Len(A) \in Nat /\ a \in Nat /\ a + (ACTS + BEAT) <= Len(A)
      /\ \A k \in 1 .. ACTS : A[a + k] = <<<<"acts", col, i>>, k, ACTS>>
      /\ A[a + (ACTS + 1)] = <<<<"act_scale", col, i>>, 1, 1>>
  <2>1. PICK bpr : bpr = s[2]
    OBVIOUS
  <2>2. /\ bpr \in Nat \ {0} /\ A = PackActs(QuantsOf(col, bpr), ActScalesOf(col, bpr), bpr) /\ col \in Nat
        /\ i \in 0 .. bpr * Q8_SUBBLOCKS - 1
    BY <1>1, <2>1
  <2>3. a = i * (ACTS + BEAT)
    OBVIOUS
  <2>. HIDE DEF a
  <2>4. SubAt(A, a, col, i)
    BY ONLY <2>2, <2>3, PackedSub
  <2>5. QED
    BY ONLY <2>4, Zenon DEF SubAt
<1>3. BEAT = 4 /\ ACTS = ACT_BEATS * 4 /\ ACT_BEATS \in Nat
  BY Sizes
<1>4. p = a + b * 4
  BY <1>3
<1>. HIDE DEF a
<1>5. p \in Nat /\ p + 4 <= Len(A) /\ Len(A) \in Nat
  BY <1>2, <1>3, <1>4
<1>6. beat \in Seq(Cell) /\ Len(beat) = 4 /\ \A k \in 1 .. 4 : beat[k] = A[p + k]
  <2>1. beat = SubSeq(A, p + 1, p + 4)
    BY <1>3
  <2>2. PICK n : n = 4
    OBVIOUS
  <2>3. A \in Seq(Cell) /\ p \in Nat /\ n \in Nat /\ p + n <= Len(A) /\ beat = SubSeq(A, p + 1, p + n)
    BY <1>2, <1>5, <2>1, <2>2
  <2>4. beat \in Seq(Cell) /\ Len(beat) = n /\ \A k \in 1 .. n : beat[k] = A[p + k]
    BY ONLY <2>3, Window
  <2>5. QED
    BY ONLY <2>2, <2>4
<1>7. ASSUME b < ACT_BEATS, NEW k \in 1 .. 4 PROVE beat[k] = <<<<"acts", col, i>>, b * BEAT + k, ACTS>>
  <2>1. b * 4 + k \in 1 .. ACTS /\ p + k = a + (b * 4 + k)
    BY <1>2, <1>3, <1>4, <1>7
  <2>2. A[a + (b * 4 + k)] = <<<<"acts", col, i>>, b * 4 + k, ACTS>>
    BY <1>2, <2>1
  <2>3. beat[k] = A[p + k]
    BY <1>6
  <2>4. QED
    BY <1>3, <2>1, <2>2, <2>3
<1>8. ASSUME b = ACT_BEATS PROVE Head(beat) = <<<<"act_scale", col, i>>, 1, 1>>
  <2>1. p + 1 = a + (ACTS + 1)
    BY <1>2, <1>3, <1>4, <1>8
  <2>2. Head(beat) = beat[1] /\ beat[1] = A[p + 1]
    BY <1>6
  <2>3. QED
    BY <1>2, <2>1, <2>2
<1>9. QED
  BY <1>3, <1>5, <1>6, <1>7, <1>8 DEF ActsBeatIs
-----------------------------------------------------------------------------
(* The inductive invariant. *)

Loading  == fsm.state \in {"LOAD_ACTS", "LOAD_SCALE"}
Feeding  == fsm.state \in {"SCALES", "WBITS", "ISSUE"}
Settling == fsm.state \in {"WAIT_DONE", "DRAIN", "EMIT"}
Finished == fsm.state = "FINISH" \/ (fsm.state = "IDLE" /\ host.col > 0 /\ ~host.strobe)

\* The matrix the kernel works on, and the rowblock it is at.
Bpr  == host.shape[2]
Subs == Bpr * Q8_SUBBLOCKS
Nrb  == Rowblocks(host.shape[1])
Rb   == Nrb - fsm.rowblock_remaining

\* What every lane's sum gets from sub-block i, and what the RAM holds of it.
Contribution(i) == [l \in Lane |-> Term(host.shape, host.col, Rb * ROWS_PER_BLOCK + l, i)]
Contributions   == [i \in 0 .. Subs - 1 |-> Contribution(i)]
ActOf(col, i)   == <<Whole(<<"acts", col, i>>, ACTS), <<<<"act_scale", col, i>>, 1, 1>>>>

FsmType ==
  fsm \in [state : {"IDLE", "LOAD_ACTS", "LOAD_SCALE", "SCALES", "WBITS", "ISSUE", "WAIT_DONE", "DRAIN", "EMIT", "FINISH"},
           q1_remaining : Int, rowblock_remaining : Int, q8_index : Int, beat_index : Int, drain_cnt : Int,
           emit_beat : Int, q1_processed : Int, load_beat : Int, load_q1 : Int, load_sub : Int, kernel_done : BOOLEAN]
DataType ==
  /\ acts = [mem |-> acts.mem, q |-> acts.q, accum |-> acts.accum]
  /\ acts.mem = [i \in 0 .. MAX_SUB_INDEX - 1 |-> acts.mem[i]]
  /\ acts.accum \in Seq(Cell)
  /\ weights = [scales |-> weights.scales, bits |-> weights.bits]
HostType ==
  /\ host = [shape |-> host.shape, col |-> host.col, wpos |-> host.wpos, apos |-> host.apos,
             results |-> host.results, tlast |-> host.tlast, strobe |-> host.strobe, done |-> host.done]
  /\ host.col \in 0 .. MAX_STARTS /\ host.tlast \in BOOLEAN /\ host.strobe \in BOOLEAN /\ host.done \in BOOLEAN
  /\ host.wpos \in Int /\ host.apos \in Int
  /\ host.col > 0 => host.shape \in Shapes
LanesType ==
  /\ lanes.start \in BOOLEAN /\ lanes.valid \in BOOLEAN /\ lanes.last \in BOOLEAN /\ lanes.done \in BOOLEAN
  /\ lanes.last_pipe \in [1 .. REDUCER_LATENCY -> BOOLEAN]
TypeInv == FsmType /\ DataType /\ HostType /\ LanesType

\* A run is strobed, started, worked off and reported, in this order.
CtrlInv ==
  /\ fsm.state # "IDLE" => host.col > 0 /\ ~host.strobe /\ ~host.done /\ ~fsm.kernel_done
  /\ host.strobe => host.col > 0 /\ ~fsm.kernel_done
  /\ host.done => host.col > 0 /\ ~fsm.kernel_done
  /\ fsm.kernel_done => host.col > 0

\* Loading: the sub-blocks before this one are in the RAM, this one's beats in the register.
LoadAt == fsm.load_q1 * Q8_SUBBLOCKS + fsm.load_sub
LoadInv ==
  Loading =>
    /\ fsm.load_q1 \in 0 .. Bpr - 1 /\ fsm.load_sub \in 0 .. Q8_SUBBLOCKS - 1
    /\ fsm.load_beat \in 0 .. ACT_BEATS
    /\ fsm.state = "LOAD_SCALE" <=> fsm.load_beat = ACT_BEATS
    /\ host.apos = LoadAt * (ACTS + BEAT) + fsm.load_beat * BEAT
    /\ host.wpos = 0 /\ fsm.q1_remaining = Bpr /\ fsm.q1_processed = 0
    /\ fsm.q8_index = 0 /\ fsm.beat_index = 0 /\ fsm.rowblock_remaining = Nrb
AccumInv ==
  Loading =>
    /\ fsm.load_beat * BEAT <= Len(acts.accum)
    /\ fsm.state = "LOAD_SCALE" => Len(acts.accum) = ACTS
    /\ \A k \in 1 .. fsm.load_beat * BEAT : acts.accum[k] = <<<<"acts", host.col, LoadAt>>, k, ACTS>>
RamInv ==
  /\ Loading => \A i \in 0 .. LoadAt - 1 : acts.mem[i] = ActOf(host.col, i)
  /\ Feeding \/ Settling => /\ host.apos = Subs * (ACTS + BEAT)
                            /\ \A i \in 0 .. Subs - 1 : acts.mem[i] = ActOf(host.col, i)

\* Feeding the lanes: where in the matrix the stream is, and what the operand registers hold.
FeedAt  == (Rb * Bpr + fsm.q1_processed) * PACKED_PER_Q1_BLOCK
FeedSub == fsm.q1_processed * Q8_SUBBLOCKS + fsm.q8_index
FeedInv ==
  Feeding =>
    /\ fsm.rowblock_remaining \in 1 .. Nrb
    /\ fsm.q1_processed \in 0 .. Bpr - 1 /\ fsm.q1_remaining = Bpr - fsm.q1_processed
    /\ fsm.q8_index \in 0 .. Q8_SUBBLOCKS - 1
    /\ fsm.state = "SCALES" => /\ fsm.q8_index = 0 /\ fsm.beat_index \in 0 .. SCALE_BEATS - 1
                               /\ host.wpos = FeedAt + fsm.beat_index * BEAT
    /\ fsm.state = "WBITS"  => /\ fsm.beat_index \in 0 .. WBITS_BEATS - 1
                               /\ host.wpos = FeedAt + SCALES + fsm.q8_index * WBITS + fsm.beat_index * BEAT
    /\ fsm.state = "ISSUE"  => /\ fsm.beat_index = 0
                               /\ host.wpos = FeedAt + SCALES + fsm.q8_index * WBITS + WBITS
RowOf(l) == Rb * ROWS_PER_BLOCK + l
RightScale(l) == LaneScale(host.shape[1], RowOf(l), fsm.q1_processed)
RightBits(l)  == <<LaneBits(host.shape[1], RowOf(l), fsm.q1_processed, fsm.q8_index, 1),
                   LaneBits(host.shape[1], RowOf(l), fsm.q1_processed, fsm.q8_index, 2)>>
WeightsInv ==
  Feeding =>
    \A l \in Lane :
      /\ fsm.state # "SCALES" \/ l \div 4 < fsm.beat_index => weights.scales[l] = RightScale(l)
      /\ fsm.state = "ISSUE" \/ (fsm.state = "WBITS" /\ l \div 2 < fsm.beat_index) => weights.bits[l] = RightBits(l)

\* The rowblock's words are used up while its sums settle and leave.
SettleInv ==
  Settling =>
    /\ fsm.rowblock_remaining \in 1 .. Nrb
    /\ host.wpos = ((Rb + 1) * Bpr) * PACKED_PER_Q1_BLOCK
    /\ fsm.state = "DRAIN" => fsm.drain_cnt \in 0 .. 2
    /\ fsm.state = "EMIT" => fsm.emit_beat \in 0 .. EMIT_BEATS - 1

\* What has left the kernel.
Emitted ==
  IF Finished THEN Nrb * ROWS_PER_BLOCK
  ELSE IF Feeding \/ Settling THEN Rb * ROWS_PER_BLOCK + (IF fsm.state = "EMIT" THEN 2 * fsm.emit_beat ELSE 0)
  ELSE 0
ResultsInv ==
  /\ host.results = [i \in 1 .. Emitted |-> RowSum(host.shape, host.col, i - 1)]
  /\ host.tlast <=> Finished
StreamInv ==
  /\ Finished => host.wpos = (Nrb * Bpr) * PACKED_PER_Q1_BLOCK /\ host.apos = Subs * (ACTS + BEAT)
  /\ host.strobe => host.wpos = 0 /\ host.apos = 0

\* The pipeline: n sub-blocks have been issued, the sums have those that came out, and the
\* stages hold the rest in order.
Filled(x) == IF x = Bubble THEN 0 ELSE 1
Pipe(n, C, acc, out, s2, s1, v, op) ==
  \E m \in Nat :
    /\ n = m + Filled(out) + Filled(s2) + Filled(s1) + (IF v THEN 1 ELSE 0)
    /\ acc = [l \in Lane |-> [i \in 1 .. m |-> C[i - 1][l]]]
    /\ out # Bubble => out = C[m]
    /\ s2 # Bubble => s2 = C[m + Filled(out)]
    /\ s1 # Bubble => s1 = C[m + Filled(out) + Filled(s2)]
    /\ v => op = C[n - 1]
Issued == IF Feeding THEN FeedSub ELSE Subs
Empty  == ~lanes.valid /\ lanes.s1 = Bubble /\ lanes.s2 = Bubble /\ lanes.out = Bubble
PipeNow == Pipe(Issued, Contributions, lanes.acc, lanes.out, lanes.s2, lanes.s1, lanes.valid, Operands)
PipeInv ==
  /\ (Feeding \/ Settling) /\ ~lanes.start => PipeNow
  /\ lanes.start => fsm.state = "SCALES" /\ fsm.q1_processed = 0
  /\ lanes.start \/ ~(Feeding \/ fsm.state \in {"WAIT_DONE", "DRAIN"}) => Empty
  /\ fsm.state = "DRAIN" => /\ ~lanes.valid /\ lanes.s1 = Bubble /\ lanes.s2 = Bubble
                            /\ fsm.drain_cnt < 2 => lanes.out = Bubble

\* done is not raised before the last sub-block has left the first stage.
NoLast == ~lanes.done /\ \A i \in 1 .. REDUCER_LATENCY : ~lanes.last_pipe[i]
DoneInv ==
  /\ Feeding /\ ~lanes.start => NoLast /\ ~(lanes.valid /\ lanes.last)
  /\ fsm.state = "WAIT_DONE" => /\ lanes.valid => NoLast
                                /\ lanes.s1 # Bubble => ~lanes.done

KernelInv ==
  /\ TypeInv /\ CtrlInv /\ LoadInv /\ AccumInv /\ RamInv /\ FeedInv /\ WeightsInv
  /\ SettleInv /\ ResultsInv /\ StreamInv /\ PipeInv /\ DoneInv
-----------------------------------------------------------------------------
(* The pipeline. *)

\* A sequence given by its elements, and one more of them.
LEMMA OneMore ==
  ASSUME NEW m \in Nat, NEW f, NEW s, s = [i \in 1 .. m |-> f[i]]
  PROVE  Append(s, f[m + 1]) = [i \in 1 .. m + 1 |-> f[i]]
<1>. DEFINE S == {f[i] : i \in 1 .. m + 1}
            t == Append(s, f[m + 1])
            u == [i \in 1 .. m + 1 |-> f[i]]
<1>1. \A i \in 1 .. m + 1 : f[i] \in S
  OBVIOUS
<1>2. m + 1 \in 1 .. m + 1 /\ \A i \in 1 .. m : i \in 1 .. m + 1
  OBVIOUS
<1>. HIDE DEF S
<1>3. s \in [1 .. m -> S] /\ \A i \in 1 .. m : s[i] = f[i]
  BY <1>1, <1>2
<1>4. s \in Seq(S) /\ Len(s) = m
  BY <1>3
<1>5. u \in [1 .. m + 1 -> S] /\ \A i \in 1 .. m + 1 : u[i] = f[i]
  BY <1>1
<1>. HIDE DEF u
<1>6. u \in Seq(S) /\ Len(u) = m + 1
  BY <1>5
<1>7. /\ t \in Seq(S) /\ Len(t) = m + 1 /\ t[m + 1] = f[m + 1]
      /\ \A i \in 1 .. m : t[i] = s[i]
  BY <1>1, <1>2, <1>4, AppendProperties
<1>. HIDE DEF t
<1>8. \A i \in 1 .. m + 1 : t[i] = u[i]
  BY <1>3, <1>5, <1>7
<1>9. t = u
  BY <1>6, <1>7, <1>8, SeqEqual
<1>10. QED
  BY <1>9 DEF t, u

\* One clock of the pipeline.
AccNext(acc, out) == IF out = Bubble THEN acc ELSE [l \in Lane |-> Append(acc[l], out[l])]
Entering(v, op)   == IF v THEN op ELSE Bubble
One(v)            == IF v THEN 1 ELSE 0

\* A clock moves every stage on, adds what comes out and lets the operands in.
LEMMA PipeShift ==
  ASSUME NEW n, NEW C, NEW acc, NEW out, NEW s2, NEW s1, NEW v \in BOOLEAN, NEW op,
         Pipe(n, C, acc, out, s2, s1, v, op), op # Bubble, NEW v2 \in BOOLEAN, NEW op2, v2 => op2 = C[n]
  PROVE  Pipe(n + One(v2), C, AccNext(acc, out), s2, s1, Entering(v, op), v2, op2)
<1>a. PICK acc2, s12, n2 : acc2 = AccNext(acc, out) /\ s12 = Entering(v, op) /\ n2 = n + One(v2)
  OBVIOUS
<1>b. acc2 = (IF out = Bubble THEN acc ELSE [l \in Lane |-> Append(acc[l], out[l])])
  BY <1>a, Zenon DEF AccNext
<1>c. s12 = (IF v THEN op ELSE Bubble) /\ n2 = n + (IF v2 THEN 1 ELSE 0)
  BY <1>a, Zenon DEF Entering, One
<1>. DEFINE Cols(m) == [l \in Lane |-> [i \in 1 .. m |-> C[i - 1][l]]]
<1>1. PICK m \in Nat : /\ n = m + Filled(out) + Filled(s2) + Filled(s1) + (IF v THEN 1 ELSE 0)
                       /\ acc = Cols(m)
                       /\ out # Bubble => out = C[m]
                       /\ s2 # Bubble => s2 = C[m + Filled(out)]
                       /\ s1 # Bubble => s1 = C[m + Filled(out) + Filled(s2)]
                       /\ v => op = C[n - 1]
  BY Zenon DEF Pipe
<1>2. PICK fo, f2, f1, fv : fo = Filled(out) /\ f2 = Filled(s2) /\ f1 = Filled(s1) /\ fv = Filled(s12)
  OBVIOUS
<1>3. fo \in {0, 1} /\ f2 \in {0, 1} /\ f1 \in {0, 1} /\ fv \in {0, 1} /\ fv = (IF v THEN 1 ELSE 0)
  BY <1>2, <1>c DEF Filled
<1>4. PICK k \in Nat : k = m + fo
  BY <1>3
<1>5. n = k + f2 + f1 + fv
  BY <1>1, <1>2, <1>3, <1>4
<1>6. acc2 = Cols(k)
  <2>1. CASE out = Bubble
    <3>1. k = m
      BY <1>2, <1>4, <2>1 DEF Filled
    <3>2. QED
      BY <1>1, <1>b, <2>1, <3>1
  <2>2. CASE out # Bubble
    <3>1. k = m + 1 /\ out = C[m]
      BY <1>1, <1>2, <1>4, <2>2 DEF Filled
    <3>2. ASSUME NEW l \in Lane PROVE Append(acc[l], out[l]) = [i \in 1 .. k |-> C[i - 1][l]]
      <4>. DEFINE f == [i \in 1 .. m + 1 |-> C[i - 1][l]]
                  s == [i \in 1 .. m |-> C[i - 1][l]]
      <4>1. acc[l] = s
        BY <1>1, Zenon
      <4>2. s = [i \in 1 .. m |-> f[i]]
        OBVIOUS
      <4>3. f[m + 1] = out[l]
        BY <3>1
      <4>4. f = [i \in 1 .. m + 1 |-> f[i]]
        OBVIOUS
      <4>. HIDE DEF f, s
      <4>5. Append(s, f[m + 1]) = f
        BY <4>2, <4>4, OneMore
      <4>6. QED
        BY <3>1, <4>1, <4>3, <4>5 DEF f
    <3>3. QED
      BY <1>b, <2>2, <3>2
  <2>3. QED
    BY <2>1, <2>2
<1>7. s2 # Bubble => s2 = C[k]
  BY <1>1, <1>2, <1>4
<1>8. s1 # Bubble => s1 = C[k + f2]
  BY <1>1, <1>2, <1>4
<1>9. s12 # Bubble => s12 = C[k + f2 + f1]
  <2>1. SUFFICES ASSUME s12 # Bubble PROVE s12 = C[k + f2 + f1]
    OBVIOUS
  <2>2. v /\ s12 = op
    BY <1>c, <2>1
  <2>3. n - 1 = k + f2 + f1
    BY <1>3, <1>4, <1>5, <2>2
  <2>4. QED
    BY <1>1, <2>2, <2>3
<1>10. v2 => op2 = C[n2 - 1]
  <2>1. v2 => n2 - 1 = n
    BY <1>3, <1>5, <1>c
  <2>2. QED
    BY <2>1
<1>11. n2 = k + f2 + f1 + fv + (IF v2 THEN 1 ELSE 0)
  BY <1>5, <1>c
<1>12. Pipe(n2, C, acc2, s2, s1, s12, v2, op2)
  BY <1>2, <1>6, <1>7, <1>8, <1>9, <1>10, <1>11, Zenon DEF Pipe
<1>13. QED
  BY <1>a, <1>12, Zenon

\* The pipeline after the rowblock's start.
LEMMA PipeStarts ==
  ASSUME NEW C, NEW acc, acc = [l \in Lane |-> <<>>], NEW v, ~v, NEW op
  PROVE  Pipe(0, C, acc, Bubble, Bubble, Bubble, v, op)
<1>1. \A l \in Lane : [i \in 1 .. 0 |-> C[i - 1][l]] = <<>>
  OBVIOUS
<1>2. acc = [l \in Lane |-> [i \in 1 .. 0 |-> C[i - 1][l]]]
  BY <1>1
<1>3. 0 = 0 + Filled(Bubble) + Filled(Bubble) + Filled(Bubble) + (IF v THEN 1 ELSE 0)
  BY DEF Filled
<1>4. QED
  BY <1>2, <1>3 DEF Pipe

\* The lanes' registers after a clock.
LEMMA LaneFields ==
  ASSUME NEW st, NEW v, NEW la, Datapath(st, v, la)
  PROVE  /\ lanes'.start = st /\ lanes'.valid = v /\ lanes'.last = la
         /\ lanes'.s1 = (IF lanes.valid THEN Operands ELSE Bubble) /\ lanes'.s2 = lanes.s1 /\ lanes'.out = lanes.s2
         /\ lanes'.last_pipe = LastPipe /\ lanes'.acc = Accumulated
         /\ lanes'.done = (~lanes.start /\ lanes.last_pipe[REDUCER_LATENCY])
BY DEF Datapath

\* There is a lane, so operands are never taken for a bubble.
LEMMA LaneZero == 0 \in Lane /\ Operands # Bubble
<1>1. 0 \in Lane
  BY Sizes DEF Lane
<1>2. DOMAIN Operands = Lane
  BY DEF Operands
<1>3. DOMAIN Bubble = {}
  BY DEF Bubble
<1>4. QED
  BY <1>1, <1>2, <1>3

\* The pipe that announces the end.
LEMMA LastPipeIs ==
  ASSUME LanesType
  PROVE  /\ LastPipe \in [1 .. REDUCER_LATENCY -> BOOLEAN]
         /\ (lanes.start \/ (~(lanes.valid /\ lanes.last) /\ \A i \in 1 .. REDUCER_LATENCY : ~lanes.last_pipe[i]))
              => \A i \in 1 .. REDUCER_LATENCY : ~LastPipe[i]
<1>. DEFINE L == REDUCER_LATENCY
            p == lanes.last_pipe
            h == lanes.valid /\ lanes.last
<1>1. L \in Nat \ {0} /\ p \in [1 .. L -> BOOLEAN] /\ lanes.valid \in BOOLEAN /\ lanes.last \in BOOLEAN
  BY KernelAssumption DEF LanesType
<1>2. CASE lanes.start
  <2>1. LastPipe = [i \in 1 .. L |-> FALSE]
    BY <1>2 DEF LastPipe
  <2>2. QED
    BY <1>1, <2>1
<1>3. CASE ~lanes.start
  <2>. DEFINE u == SubSeq(p, 1, L - 1)
              x == <<h>>
              t == x \o u
  <2>1. LastPipe = t
    BY <1>3 DEF LastPipe
  <2>. HIDE DEF L, p
  <2>2. h \in BOOLEAN
    BY <1>1
  <2>. HIDE DEF h
  <2>3. p \in Seq(BOOLEAN) /\ Len(p) = L
    BY <1>1
  <2>4. u \in Seq(BOOLEAN) /\ Len(u) = L - 1 /\ \A i \in 1 .. L - 1 : u[i] = p[i]
    <3>1. 0 \in Nat /\ L - 1 \in Nat /\ 0 + (L - 1) <= Len(p) /\ u = SubSeq(p, 0 + 1, 0 + (L - 1))
      BY <1>1, <2>3
    <3>. HIDE DEF u
    <3>2. u \in Seq(BOOLEAN) /\ Len(u) = L - 1 /\ \A i \in 1 .. L - 1 : u[i] = p[0 + i]
      BY <2>3, <3>1, Window
    <3>3. QED
      BY <3>1, <3>2
  <2>5. x \in Seq(BOOLEAN) /\ Len(x) = 1 /\ x[1] = h
    BY <2>2
  <2>. HIDE DEF u, x
  <2>6. t \in Seq(BOOLEAN) /\ Len(t) = L
    <3>1. t \in Seq(BOOLEAN) /\ Len(t) = Len(x) + Len(u)
      BY <2>4, <2>5, ConcatProperties
    <3>2. QED
      BY <1>1, <2>4, <2>5, <3>1
  <2>7. /\ \A i \in 1 .. Len(x) : t[i] = x[i]
        /\ \A k \in 1 .. Len(u) : t[Len(x) + k] = u[k]
    <3>1. x \in Seq(BOOLEAN) /\ u \in Seq(BOOLEAN)
      BY <2>4, <2>5
    <3>2. QED
      BY ONLY <3>1, ConcatPlaces
  <2>. HIDE DEF t
  <2>8. t \in [1 .. L -> BOOLEAN]
    BY <1>1, <2>6
  <2>9. ASSUME ~h, \A i \in 1 .. L : ~p[i], NEW i \in 1 .. L PROVE ~t[i]
    <3>1. CASE i = 1
      BY <2>5, <2>7, <2>9, <3>1
    <3>2. CASE i # 1
      <4>1. i - 1 \in 1 .. L - 1 /\ 1 + (i - 1) = i /\ i - 1 \in 1 .. L
        BY <1>1, <3>2
      <4>2. t[i] = p[i - 1]
        BY <2>4, <2>5, <2>7, <4>1
      <4>3. QED
        BY <2>9, <4>1, <4>2
    <3>3. QED
      BY <3>1, <3>2
  <2>10. QED
    BY <1>3, <2>1, <2>8, <2>9 DEF h, p, L
<1>4. QED
  BY <1>1, <1>2, <1>3 DEF LanesType

\* The lanes stay well typed.
LEMMA LanesTyped ==
  ASSUME LanesType, NEW st \in BOOLEAN, NEW v \in BOOLEAN, NEW la \in BOOLEAN, Datapath(st, v, la)
  PROVE  LanesType'
<1>1. REDUCER_LATENCY \in 1 .. REDUCER_LATENCY
  BY KernelAssumption
<1>2. lanes'.done \in BOOLEAN
  BY <1>1, LaneFields DEF LanesType
<1>3. lanes'.last_pipe \in [1 .. REDUCER_LATENCY -> BOOLEAN]
  BY LastPipeIs, LaneFields
<1>4. QED
  BY <1>2, <1>3, LaneFields DEF LanesType

\* done stays low as long as the last sub-block has not been issued.
LEMMA NoLastStays ==
  ASSUME LanesType, NEW st, NEW v, NEW la, Datapath(st, v, la),
         lanes.start \/ (NoLast /\ ~(lanes.valid /\ lanes.last))
  PROVE  NoLast'
<1>1. REDUCER_LATENCY \in 1 .. REDUCER_LATENCY
  BY KernelAssumption
<1>2. lanes'.last_pipe = LastPipe /\ lanes'.done = (~lanes.start /\ lanes.last_pipe[REDUCER_LATENCY])
  BY LaneFields
<1>3. ~lanes'.done
  BY <1>1, <1>2 DEF NoLast
<1>4. \A i \in 1 .. REDUCER_LATENCY : ~LastPipe[i]
  BY LastPipeIs DEF NoLast
<1>5. QED
  BY <1>2, <1>3, <1>4 DEF NoLast

\* An empty pipeline stays empty when nothing is issued.
LEMMA EmptyStays ==
  ASSUME Empty, NEW st, NEW la, Datapath(st, FALSE, la)
  PROVE  Empty'
BY LaneFields DEF Empty

\* A clock in which the lanes go on, or start.
LEMMA Flows ==
  ASSUME LanesType, PipeInv, Feeding \/ Settling, NEW st, NEW v \in BOOLEAN, NEW la, Datapath(st, v, la),
         Contributions' = Contributions, Issued' = Issued + (IF v THEN 1 ELSE 0),
         v => ~lanes.start /\ Operands' = Contributions[Issued], lanes.start => Issued = 0
  PROVE  PipeNow'
<1>1. /\ lanes'.valid = v /\ lanes'.s1 = (IF lanes.valid THEN Operands ELSE Bubble) /\ lanes'.s2 = lanes.s1
      /\ lanes'.out = lanes.s2 /\ lanes'.acc = Accumulated
  BY LaneFields
<1>2. lanes.valid \in BOOLEAN /\ Operands # Bubble
  BY LaneZero DEF LanesType
<1>3. CASE lanes.start
  <2>1. ~v /\ Issued = 0 /\ ~lanes.valid /\ lanes.s1 = Bubble /\ lanes.s2 = Bubble
    BY <1>3 DEF PipeInv, Empty
  <2>2. Issued' = 0
    BY <2>1
  <2>3. lanes'.acc = [l \in Lane |-> <<>>]
    BY <1>1, <1>3 DEF Accumulated
  <2>4. lanes'.out = Bubble /\ lanes'.s2 = Bubble /\ lanes'.s1 = Bubble
    BY <1>1, <2>1
  <2>5. Pipe(0, Contributions', lanes'.acc, Bubble, Bubble, Bubble, lanes'.valid, Operands')
    BY <1>1, <2>1, <2>3, PipeStarts
  <2>6. QED
    BY ONLY <2>2, <2>4, <2>5, Zenon DEF PipeNow
<1>4. CASE ~lanes.start
  <2>1. Pipe(Issued, Contributions, lanes.acc, lanes.out, lanes.s2, lanes.s1, lanes.valid, Operands)
    BY <1>4 DEF PipeInv, PipeNow
  <2>2. lanes'.acc = (IF lanes.out = Bubble THEN lanes.acc ELSE [l \in Lane |-> Append(lanes.acc[l], lanes.out[l])])
    BY <1>1, <1>4, Zenon DEF Accumulated
  <2>3. PICK n, C, acc, out, s2, s1, u, op :
          /\ n = Issued /\ C = Contributions /\ acc = lanes.acc /\ out = lanes.out /\ s2 = lanes.s2 /\ s1 = lanes.s1
          /\ u = lanes.valid /\ op = Operands
    OBVIOUS
  <2>4. PICK op2 : op2 = Operands'
    OBVIOUS
  <2>5. Pipe(n, C, acc, out, s2, s1, u, op) /\ op # Bubble /\ u \in BOOLEAN /\ (v => op2 = C[n])
    BY ONLY <1>2, <2>1, <2>3, <2>4, Zenon, v => ~lanes.start /\ Operands' = Contributions[Issued]
  <2>6. Pipe(n + One(v), C, AccNext(acc, out), s2, s1, Entering(u, op), v, op2)
    BY ONLY <2>5, v \in BOOLEAN, PipeShift, Zenon
  <2>9. lanes'.acc = AccNext(acc, out) /\ lanes'.s1 = Entering(u, op) /\ Issued' = n + One(v)
    BY ONLY <1>1, <2>2, <2>3, Issued' = Issued + (IF v THEN 1 ELSE 0), Zenon DEF AccNext, Entering, One
  <2>7. Pipe(Issued', Contributions', lanes'.acc, lanes'.out, lanes'.s2, lanes'.s1, lanes'.valid, Operands')
    BY ONLY <1>1, <2>3, <2>4, <2>6, <2>9, Contributions' = Contributions, Zenon
  <2>8. QED
    BY ONLY <2>7, Zenon DEF PipeNow
<1>5. QED
  BY <1>3, <1>4
-----------------------------------------------------------------------------
(* What the steps have in common. *)

\* The sizes of the matrix at hand.
LEMMA MatrixSizes ==
  ASSUME HostType, host.col > 0
  PROVE  /\ host.shape \in Shapes /\ host.shape[1] \in Nat \ {0} /\ host.col \in 1 .. MAX_STARTS /\ host.col \in Nat
         /\ Bpr \in Nat \ {0} /\ Subs \in Nat \ {0} /\ Subs <= MAX_SUB_INDEX /\ Nrb \in Nat \ {0}
<1>1. host.shape \in Shapes /\ host.col \in 1 .. MAX_STARTS
  BY KernelAssumption DEF HostType
<1>2. host.shape[1] \in Nat \ {0} /\ Bpr \in Nat \ {0} /\ Bpr * Q8_SUBBLOCKS <= MAX_SUB_INDEX
  BY <1>1, StreamsAre DEF Bpr
<1>3. Subs = Bpr * Q8_SUBBLOCKS /\ Q8_SUBBLOCKS \in Nat \ {0}
  BY Sizes DEF Subs
<1>4. \A a, b \in Nat \ {0} : a * b \in Nat \ {0}
  OBVIOUS
<1>5. Nrb \in Nat \ {0}
  BY <1>2, SomeRowblocks DEF Nrb
<1>6. QED
  BY <1>1, <1>2, <1>3, <1>4, <1>5, KernelAssumption

\* The host's registers, clocked.
LEMMA LatchedIs ==
  ASSUME HostType
  PROVE  Latched(host) = [shape |-> host.shape, col |-> host.col, wpos |-> host.wpos, apos |-> host.apos,
                          results |-> host.results, tlast |-> host.tlast, strobe |-> FALSE,
                          done |-> ~host.strobe /\ (host.done \/ fsm.kernel_done)]
<1>1. PICK sh, co, w, a, r, t, st, d :
        host = [shape |-> sh, col |-> co, wpos |-> w, apos |-> a, results |-> r, tlast |-> t, strobe |-> st, done |-> d]
  BY DEF HostType
<1>2. /\ host.shape = sh /\ host.col = co /\ host.wpos = w /\ host.apos = a /\ host.results = r /\ host.tlast = t
      /\ host.strobe = st /\ host.done = d
  BY <1>1
<1>3. PICK x : x = (~host.strobe /\ (host.done \/ fsm.kernel_done))
  OBVIOUS
<1>4. PICK y : y = FALSE
  OBVIOUS
<1>5. Latched(host) = [host EXCEPT !.strobe = y, !.done = x]
  BY <1>3, <1>4, Zenon DEF Latched
<1>6. PICK g : g = [host EXCEPT !.strobe = y, !.done = x]
  OBVIOUS
<1>7. g = [shape |-> sh, col |-> co, wpos |-> w, apos |-> a, results |-> r, tlast |-> t, strobe |-> y, done |-> x]
  BY ONLY <1>1, <1>6
<1>8. QED
  BY <1>2, <1>3, <1>4, <1>5, <1>6, <1>7, Zenon

\* A clock that moves nothing but the strobe and the done latch.
HostKept ==
  /\ host'.shape = host.shape /\ host'.col = host.col /\ host'.wpos = host.wpos /\ host'.apos = host.apos
  /\ host'.results = host.results /\ host'.tlast = host.tlast /\ host'.strobe = FALSE
  /\ host'.done = (~host.strobe /\ (host.done \/ fsm.kernel_done))

\* The host's registers, when neither stream moves.
LEMMA HostKeeps ==
  ASSUME TypeInv, host' = Latched(host)
  PROVE  HostKept /\ HostType'
<1>1. host' = [shape |-> host.shape, col |-> host.col, wpos |-> host.wpos, apos |-> host.apos,
               results |-> host.results, tlast |-> host.tlast, strobe |-> FALSE,
               done |-> ~host.strobe /\ (host.done \/ fsm.kernel_done)]
  BY LatchedIs DEF TypeInv
<1>2. HostKept
  BY <1>1 DEF HostKept
<1>3. fsm.kernel_done \in BOOLEAN
  BY DEF TypeInv, FsmType
<1>4. HostType'
  BY <1>1, <1>3 DEF TypeInv, HostType
<1>5. QED
  BY <1>2, <1>4

\* A clock that only reads the activation RAM.
LEMMA RamKeeps ==
  ASSUME TypeInv, ReadRam, weights' = weights
  PROVE  DataType' /\ acts'.mem = acts.mem /\ acts'.accum = acts.accum /\ acts'.q = ActsQ(acts.mem)
<1>1. acts' = [mem |-> acts.mem, q |-> ActsQ(acts.mem), accum |-> acts.accum]
  BY DEF TypeInv, DataType, ReadRam
<1>2. acts'.mem = acts.mem /\ acts'.accum = acts.accum /\ acts'.q = ActsQ(acts.mem)
  BY <1>1
<1>3. DataType'
  BY <1>1, <1>2 DEF TypeInv, DataType
<1>4. QED
  BY <1>2, <1>3

\* The same matrix, and the same rowblock of it.
LEMMA SameMatrix ==
  ASSUME host'.shape = host.shape, host'.col = host.col
  PROVE  Bpr' = Bpr /\ Subs' = Subs /\ Nrb' = Nrb
BY DEF Bpr, Subs, Nrb

\* The same rowblock expects the same contributions.
LEMMA SameRowblock ==
  ASSUME host'.shape = host.shape, host'.col = host.col, fsm'.rowblock_remaining = fsm.rowblock_remaining
  PROVE  Rb' = Rb /\ Contributions' = Contributions
<1>1. Bpr' = Bpr /\ Subs' = Subs /\ Nrb' = Nrb
  BY SameMatrix
<1>2. Rb' = Rb
  BY <1>1 DEF Rb
<1>3. QED
  BY <1>1, <1>2 DEF Contributions, Contribution
-----------------------------------------------------------------------------
(* The host's start, and the idle kernel. *)

\* No results yet.
LEMMA NoResults == <<>> = [i \in 1 .. 0 |-> RowSum(host.shape, host.col, i - 1)]
OBVIOUS

\* Reset.
LEMMA InitHolds == Init => KernelInv
<1>. SUFFICES ASSUME Init PROVE KernelInv
  OBVIOUS
<1>. USE DEF Init
<1>1. FsmType
  BY DEF FsmType
<1>2. DataType
  <2>1. <<>> \in Seq(Cell)
    OBVIOUS
  <2>2. QED
    BY <2>1 DEF DataType
<1>3. HostType /\ LanesType
  BY KernelAssumption DEF HostType, LanesType
<1>4. TypeInv
  BY <1>1, <1>2, <1>3 DEF TypeInv
<1>5. fsm.state = "IDLE" /\ ~fsm.kernel_done /\ host.col = 0 /\ ~host.strobe /\ ~host.done /\ ~host.tlast /\ host.results = <<>>
  OBVIOUS
<1>6. ~Loading /\ ~Feeding /\ ~Settling /\ ~Finished
  BY <1>5 DEF Loading, Feeding, Settling, Finished
<1>7. Empty /\ ~lanes.start
  BY DEF Empty
<1>. USE DEF Init
<1>8. CtrlInv /\ StreamInv
  BY <1>5, <1>6 DEF CtrlInv, StreamInv
<1>9. LoadInv /\ AccumInv /\ RamInv /\ FeedInv /\ WeightsInv /\ SettleInv
  BY <1>6 DEF LoadInv, AccumInv, RamInv, FeedInv, WeightsInv, SettleInv
<1>10. Emitted = 0
  BY <1>6 DEF Emitted
<1>11. ResultsInv
  BY <1>5, <1>6, <1>10, NoResults DEF ResultsInv
<1>12. PipeInv /\ DoneInv
  BY <1>5, <1>6, <1>7 DEF PipeInv, DoneInv
<1>13. QED
  BY <1>4, <1>8, <1>9, <1>11, <1>12 DEF KernelInv

\* The host writes start: it has waited, so the kernel is idle.
LEMMA StrobeKeeps ==
  ASSUME KernelInv, NEW shape \in Shapes, Strobe(shape)
  PROVE  KernelInv'
<1>1. TypeInv /\ CtrlInv /\ PipeInv
  BY DEF KernelInv
<1>2. host' = [shape |-> shape, col |-> host.col + 1, wpos |-> 0, apos |-> 0,
               results |-> <<>>, tlast |-> FALSE, strobe |-> TRUE, done |-> host.done]
  BY DEF Strobe
<1>3. fsm' = fsm /\ acts' = acts /\ weights' = weights /\ lanes' = lanes
  BY DEF Strobe
<1>4. fsm.state = "IDLE" /\ ~fsm.kernel_done
  BY <1>1 DEF Strobe, Waited, CtrlInv, TypeInv, HostType
<1>5. HostType' /\ host'.col > 0
  BY <1>1, <1>2, KernelAssumption DEF Strobe, TypeInv, HostType
<1>6. TypeInv'
  BY <1>1, <1>3, <1>5 DEF TypeInv, FsmType, DataType, LanesType
<1>7. ~Loading' /\ ~Feeding' /\ ~Settling' /\ ~Finished'
  BY <1>2, <1>3, <1>4 DEF Loading, Feeding, Settling, Finished
<1>8. CtrlInv' /\ StreamInv'
  BY <1>2, <1>3, <1>4, <1>5, <1>7 DEF CtrlInv, StreamInv
<1>9. LoadInv' /\ AccumInv' /\ RamInv' /\ FeedInv' /\ WeightsInv' /\ SettleInv'
  BY <1>7 DEF LoadInv, AccumInv, RamInv, FeedInv, WeightsInv, SettleInv
<1>10. ResultsInv'
  <2>1. Emitted' = 0
    BY <1>7 DEF Emitted
  <2>2. host'.results = [i \in 1 .. 0 |-> RowSum(host'.shape, host'.col, i - 1)] /\ ~host'.tlast
    BY <1>2
  <2>3. QED
    BY <1>7, <2>1, <2>2 DEF ResultsInv
<1>11. Empty /\ ~lanes.start
  BY <1>1, <1>4 DEF PipeInv, Feeding
<1>12. PipeInv' /\ DoneInv'
  BY <1>3, <1>4, <1>7, <1>11 DEF PipeInv, DoneInv, Empty
<1>13. QED
  BY <1>6, <1>8, <1>9, <1>10, <1>12 DEF KernelInv

\* The idle kernel sees the strobe, and starts from the beginning of both streams.
LEMMA StartKeeps ==
  ASSUME KernelInv, Start
  PROVE  KernelInv'
<1>1. TypeInv /\ CtrlInv /\ PipeInv /\ StreamInv /\ ResultsInv
  BY DEF KernelInv
<1>2. fsm.state = "IDLE" /\ host.strobe /\ host.col > 0
  BY <1>1 DEF Start, CtrlInv
<1>3. HostKept /\ HostType'
  BY <1>1, HostKeeps DEF Start
<1>4. DataType' /\ acts'.accum = acts.accum
  BY <1>1, RamKeeps DEF Start
<1>5. /\ fsm'.state = "LOAD_ACTS" /\ fsm'.q1_remaining = Bpr /\ fsm'.rowblock_remaining = Nrb /\ fsm'.q8_index = 0
      /\ fsm'.beat_index = 0 /\ fsm'.q1_processed = 0 /\ fsm'.load_beat = 0 /\ fsm'.load_q1 = 0 /\ fsm'.load_sub = 0
      /\ fsm'.kernel_done = FALSE
  BY <1>1 DEF Start, TypeInv, FsmType, Bpr, Nrb
<1>6. /\ host.shape \in Shapes /\ Bpr \in Nat \ {0} /\ Subs \in Nat \ {0} /\ Nrb \in Nat \ {0}
      /\ Q8_SUBBLOCKS \in Nat \ {0} /\ ACT_BEATS \in Nat \ {0} /\ BEAT = 4 /\ ACTS \in Nat
  BY <1>1, <1>2, MatrixSizes, Sizes DEF TypeInv
<1>7. Bpr' = Bpr /\ Subs' = Subs /\ Nrb' = Nrb
  BY <1>3, SameMatrix DEF HostKept
<1>8. FsmType'
  <2>1. PICK b, r : b = host.shape[2] /\ r = Rowblocks(host.shape[1]) /\ b \in Int /\ r \in Int
    BY <1>6 DEF Bpr, Nrb
  <2>2. fsm' = [fsm EXCEPT !.state = "LOAD_ACTS", !.q1_remaining = b, !.rowblock_remaining = r, !.q8_index = 0,
                           !.beat_index = 0, !.q1_processed = 0, !.load_beat = 0,
                           !.load_q1 = 0, !.load_sub = 0, !.kernel_done = FALSE]
    BY <2>1, Zenon DEF Start
  <2>3. fsm' = [state |-> "LOAD_ACTS", q1_remaining |-> b, rowblock_remaining |-> r, q8_index |-> 0, beat_index |-> 0,
                drain_cnt |-> fsm.drain_cnt, emit_beat |-> fsm.emit_beat, q1_processed |-> 0,
                load_beat |-> 0, load_q1 |-> 0, load_sub |-> 0, kernel_done |-> FALSE]
    BY <1>1, <2>2 DEF TypeInv, FsmType
  <2>4. fsm.drain_cnt \in Int /\ fsm.emit_beat \in Int
    BY <1>1 DEF TypeInv, FsmType
  <2>5. QED
    BY ONLY <2>1, <2>3, <2>4 DEF FsmType
<1>9. Datapath(FALSE, FALSE, FALSE) /\ Empty /\ ~lanes.start
  BY <1>1, <1>2 DEF Start, Quiet, PipeInv, Feeding
<1>10. LanesType' /\ Empty' /\ ~lanes'.start
  BY <1>1, <1>9, LanesTyped, EmptyStays, LaneFields DEF TypeInv
<1>11. TypeInv'
  BY <1>3, <1>4, <1>8, <1>10 DEF TypeInv
<1>12. Loading' /\ ~Feeding' /\ ~Settling' /\ ~Finished' /\ ~Finished /\ ~Loading /\ ~Feeding /\ ~Settling
  BY <1>2, <1>5 DEF Loading, Feeding, Settling, Finished
<1>13. CtrlInv' /\ StreamInv'
  BY <1>2, <1>3, <1>5, <1>12 DEF CtrlInv, StreamInv, HostKept
<1>14. LoadAt' = 0
  BY <1>5, <1>6 DEF LoadAt
<1>15. LoadInv'
  BY <1>1, <1>2, <1>3, <1>5, <1>6, <1>7, <1>14 DEF LoadInv, StreamInv, HostKept
<1>16. AccumInv'
  BY <1>1, <1>4, <1>5, <1>6 DEF AccumInv, TypeInv, DataType
<1>17. RamInv' /\ FeedInv' /\ WeightsInv' /\ SettleInv'
  BY <1>12, <1>14 DEF RamInv, FeedInv, WeightsInv, SettleInv
<1>18. ResultsInv'
  BY <1>1, <1>3, <1>12 DEF ResultsInv, Emitted, HostKept
<1>19. PipeInv' /\ DoneInv'
  BY <1>5, <1>10, <1>12 DEF PipeInv, DoneInv
<1>20. QED
  BY <1>11, <1>13, <1>15, <1>16, <1>17, <1>18, <1>19 DEF KernelInv
-----------------------------------------------------------------------------
(* Clocks that move no data: the waiting states, the wait for the lanes and its slack. *)

\* A rowblock starts with nothing issued.
LEMMA StartIssued ==
  ASSUME FeedInv, PipeInv, lanes.start
  PROVE  Issued = 0
<1>1. fsm.state = "SCALES" /\ fsm.q1_processed = 0
  BY DEF PipeInv
<1>2. Feeding /\ fsm.q8_index = 0
  BY <1>1 DEF FeedInv, Feeding
<1>3. FeedSub = 0
  BY <1>1, <1>2, Sizes DEF FeedSub
<1>4. QED
  BY <1>2, <1>3 DEF Issued

\* The place in the streams and in the matrix.
PlaceKept ==
  /\ fsm'.q1_remaining = fsm.q1_remaining /\ fsm'.rowblock_remaining = fsm.rowblock_remaining
  /\ fsm'.q8_index = fsm.q8_index /\ fsm'.beat_index = fsm.beat_index /\ fsm'.q1_processed = fsm.q1_processed

LoadKept == fsm'.load_beat = fsm.load_beat /\ fsm'.load_q1 = fsm.load_q1 /\ fsm'.load_sub = fsm.load_sub

\* A waiting state keeps its place while the pipeline moves on.
LEMMA StallKeeps ==
  ASSUME KernelInv, Stall
  PROVE  KernelInv'
<1>1. /\ TypeInv /\ CtrlInv /\ PipeInv /\ StreamInv /\ ResultsInv /\ LoadInv /\ AccumInv /\ RamInv
      /\ FeedInv /\ WeightsInv /\ SettleInv /\ DoneInv
  BY DEF KernelInv
<1>2. Waiting
  BY DEF Stall
<1>3. HostKept /\ HostType'
  BY <1>1, HostKeeps DEF Stall
<1>4. DataType' /\ acts'.accum = acts.accum /\ acts'.mem = acts.mem /\ weights' = weights
  BY <1>1, RamKeeps DEF Stall
<1>5. /\ fsm'.state = fsm.state /\ PlaceKept /\ LoadKept /\ fsm'.emit_beat = fsm.emit_beat
      /\ fsm'.drain_cnt = fsm.drain_cnt /\ fsm'.kernel_done = FALSE
  BY <1>1 DEF Stall, TypeInv, FsmType, PlaceKept, LoadKept
<1>6. FsmType'
  BY <1>1 DEF Stall, TypeInv, FsmType
<1>7. Bpr' = Bpr /\ Subs' = Subs /\ Nrb' = Nrb /\ Rb' = Rb /\ Contributions' = Contributions
  BY <1>3, <1>5, SameMatrix, SameRowblock DEF HostKept, PlaceKept
<1>8. Datapath(FALSE, FALSE, FALSE)
  BY DEF Stall, Quiet
<1>9. LanesType' /\ ~lanes'.start /\ ~lanes'.valid
  BY <1>1, <1>8, LanesTyped, LaneFields DEF TypeInv
<1>10. TypeInv'
  BY <1>3, <1>4, <1>6, <1>9 DEF TypeInv
<1>11. Loading' = Loading /\ Feeding' = Feeding /\ Settling' = Settling
  BY <1>5 DEF Loading, Feeding, Settling
<1>12. fsm.state = "IDLE" => ~host.strobe
  BY <1>2 DEF Waiting
<1>13. Finished' = Finished
  BY <1>3, <1>5, <1>12 DEF Finished, HostKept
<1>14. CtrlInv'
  BY <1>1, <1>3, <1>5, <1>12 DEF CtrlInv, HostKept, TypeInv, HostType
<1>15. StreamInv'
  BY <1>1, <1>3, <1>7, <1>13 DEF StreamInv, HostKept
<1>16. LoadInv'
  BY <1>1, <1>3, <1>5, <1>7, <1>11 DEF LoadInv, LoadAt, HostKept, LoadKept, PlaceKept
<1>17. LoadAt' = LoadAt
  BY <1>5 DEF LoadAt, LoadKept
<1>18. AccumInv'
  BY <1>1, <1>3, <1>4, <1>5, <1>11, <1>17 DEF AccumInv, HostKept, LoadKept
<1>19. RamInv'
  BY <1>1, <1>3, <1>4, <1>7, <1>11, <1>17 DEF RamInv, HostKept
<1>20. FeedAt' = FeedAt /\ FeedSub' = FeedSub /\ Issued' = Issued
  BY <1>5, <1>7, <1>11 DEF FeedAt, FeedSub, PlaceKept, Issued
<1>21. FeedInv'
  BY <1>1, <1>3, <1>5, <1>7, <1>11, <1>20 DEF FeedInv, HostKept, PlaceKept
<1>22. WeightsInv'
  BY <1>1, <1>3, <1>4, <1>5, <1>7, <1>11 DEF WeightsInv, RightScale, RightBits, RowOf, HostKept, PlaceKept
<1>23. SettleInv'
  BY <1>1, <1>3, <1>5, <1>7, <1>11 DEF SettleInv, HostKept, PlaceKept
<1>24. ResultsInv'
  <2>1. Emitted' = Emitted
    BY <1>5, <1>7, <1>11, <1>13 DEF Emitted
  <2>2. QED
    BY <1>1, <1>3, <1>13, <2>1 DEF ResultsInv, HostKept
<1>25. PipeInv'
  <2>1. ASSUME Feeding \/ Settling PROVE PipeNow'
    <3>1. LanesType /\ Issued' = Issued + (IF FALSE THEN 1 ELSE 0)
      <4>1. Issued \in Int
        BY <1>1, <2>1, MatrixSizes, Sizes DEF Issued, Feeding, Settling, CtrlInv, TypeInv, FsmType, FeedSub
      <4>2. QED
        BY <1>1, <1>20, <4>1 DEF TypeInv
    <3>2. lanes.start => Issued = 0
      BY <1>1, StartIssued
    <3>3. QED
      BY <1>1, <1>7, <1>8, <2>1, <3>1, <3>2, Flows
  <2>2. ASSUME ~(Feeding \/ fsm.state \in {"WAIT_DONE", "DRAIN"}) PROVE Empty'
    <3>1. Empty
      BY <1>1, <2>2 DEF PipeInv
    <3>2. QED
      BY <1>8, <3>1, EmptyStays
  <2>3. fsm.state # "DRAIN"
    BY <1>2 DEF Waiting
  <2>4. QED
    BY <1>5, <1>9, <1>11, <2>1, <2>2, <2>3 DEF PipeInv
<1>26. DoneInv'
  <2>1. ASSUME Feeding PROVE NoLast'
    <3>1. LanesType /\ (lanes.start \/ (NoLast /\ ~(lanes.valid /\ lanes.last)))
      BY <1>1, <2>1 DEF DoneInv, TypeInv
    <3>2. QED
      BY <1>8, <3>1, NoLastStays
  <2>2. ASSUME fsm.state = "WAIT_DONE", lanes'.s1 # Bubble PROVE ~lanes'.done
    <3>1. lanes.valid
      BY <1>8, <2>2, LaneFields
    <3>2. NoLast
      BY <1>1, <2>2, <3>1 DEF DoneInv
    <3>3. REDUCER_LATENCY \in 1 .. REDUCER_LATENCY
      BY KernelAssumption
    <3>4. QED
      BY <1>8, <3>2, <3>3, LaneFields DEF NoLast
  <2>3. QED
    BY <1>5, <1>9, <1>11, <2>1, <2>2 DEF DoneInv
<1>27. QED
  BY <1>10, <1>14, <1>15, <1>16, <1>18, <1>19, <1>21, <1>22, <1>23, <1>24, <1>25, <1>26 DEF KernelInv

\* The lanes go on, and nothing is issued.
LEMMA Flowing ==
  ASSUME TypeInv, CtrlInv, FeedInv, PipeInv, Feeding \/ Settling, Datapath(FALSE, FALSE, FALSE),
         Contributions' = Contributions, Issued' = Issued
  PROVE  PipeNow'
<1>1. Issued \in Int
  BY MatrixSizes, Sizes DEF Issued, Feeding, Settling, CtrlInv, TypeInv, FsmType, FeedSub
<1>2. LanesType /\ Issued' = Issued + (IF FALSE THEN 1 ELSE 0)
  BY <1>1 DEF TypeInv
<1>3. lanes.start => Issued = 0
  BY StartIssued
<1>4. QED
  BY <1>2, <1>3, Flows

\* done is seen: the last sub-block has left the pipeline's first stage.
LEMMA WaitDoneKeeps ==
  ASSUME KernelInv, WaitDone
  PROVE  KernelInv'
<1>1. /\ TypeInv /\ CtrlInv /\ PipeInv /\ ResultsInv /\ RamInv
      /\ FeedInv /\ SettleInv /\ DoneInv
  BY DEF KernelInv
<1>2. fsm.state = "WAIT_DONE" /\ lanes.done
  BY DEF WaitDone
<1>3. HostKept /\ HostType'
  BY <1>1, HostKeeps DEF WaitDone
<1>4. DataType' /\ acts'.mem = acts.mem
  BY <1>1, RamKeeps DEF WaitDone
<1>5. fsm'.state = "DRAIN" /\ PlaceKept /\ fsm'.drain_cnt = 2 /\ fsm'.kernel_done = fsm.kernel_done
  BY <1>1 DEF WaitDone, TypeInv, FsmType, PlaceKept
<1>6. FsmType'
  <2>1. fsm' = [fsm EXCEPT !.drain_cnt = 2, !.state = "DRAIN"] /\ FsmType
    BY <1>1 DEF WaitDone, TypeInv
  <2>2. QED
    <3>1. fsm' = [state |-> "DRAIN", q1_remaining |-> fsm.q1_remaining, rowblock_remaining |-> fsm.rowblock_remaining,
                  q8_index |-> fsm.q8_index, beat_index |-> fsm.beat_index, drain_cnt |-> 2, emit_beat |-> fsm.emit_beat,
                  q1_processed |-> fsm.q1_processed, load_beat |-> fsm.load_beat, load_q1 |-> fsm.load_q1,
                  load_sub |-> fsm.load_sub, kernel_done |-> fsm.kernel_done]
      BY ONLY <2>1 DEF FsmType
    <3>2. QED
      BY ONLY <2>1, <3>1 DEF FsmType
<1>7. Bpr' = Bpr /\ Subs' = Subs /\ Nrb' = Nrb /\ Rb' = Rb /\ Contributions' = Contributions
  BY <1>3, <1>5, SameMatrix, SameRowblock DEF HostKept, PlaceKept
<1>8. Datapath(FALSE, FALSE, FALSE)
  BY DEF WaitDone, Quiet
<1>9. LanesType' /\ ~lanes'.start /\ ~lanes'.valid
  BY <1>1, <1>8, LanesTyped, LaneFields DEF TypeInv
<1>10. TypeInv'
  BY <1>3, <1>4, <1>6, <1>9 DEF TypeInv
<1>11. /\ ~Loading' /\ ~Feeding' /\ Settling' /\ ~Finished'
       /\ ~Loading /\ ~Feeding /\ Settling /\ ~Finished
  BY <1>2, <1>5 DEF Loading, Feeding, Settling, Finished
<1>12. CtrlInv'
  BY <1>1, <1>2, <1>3, <1>5 DEF CtrlInv, HostKept
<1>13. StreamInv' /\ LoadInv' /\ AccumInv' /\ FeedInv' /\ WeightsInv'
  BY <1>3, <1>11 DEF StreamInv, LoadInv, AccumInv, FeedInv, WeightsInv, HostKept
<1>14. RamInv'
  BY <1>1, <1>3, <1>4, <1>7, <1>11 DEF RamInv, HostKept
<1>15. SettleInv'
  BY <1>1, <1>3, <1>5, <1>7, <1>11 DEF SettleInv, HostKept, PlaceKept
<1>16. ResultsInv'
  <2>1. Emitted' = Emitted
    BY <1>2, <1>5, <1>7, <1>11 DEF Emitted
  <2>2. QED
    BY <1>1, <1>3, <1>11, <2>1 DEF ResultsInv, HostKept
<1>17. ~lanes.valid /\ lanes.s1 = Bubble /\ ~lanes.start
  BY <1>1, <1>2 DEF DoneInv, NoLast, PipeInv
<1>18. lanes'.s1 = Bubble /\ lanes'.s2 = Bubble
  BY <1>8, <1>17, LaneFields
<1>19. Issued' = Issued
  BY <1>7, <1>11 DEF Issued
<1>20. PipeNow'
  BY <1>1, <1>7, <1>8, <1>11, <1>19, Flowing
<1>21. PipeInv' /\ DoneInv'
  BY <1>5, <1>9, <1>11, <1>18, <1>20 DEF PipeInv, DoneInv
<1>22. QED
  BY <1>10, <1>12, <1>13, <1>14, <1>15, <1>16, <1>21 DEF KernelInv

\* The slack after done lets the last sums settle.
LEMMA DrainKeeps ==
  ASSUME KernelInv, Drain
  PROVE  KernelInv'
<1>1. /\ TypeInv /\ CtrlInv /\ PipeInv /\ ResultsInv /\ RamInv
      /\ FeedInv /\ SettleInv
  BY DEF KernelInv
<1>2. fsm.state = "DRAIN" /\ fsm.drain_cnt \in 0 .. 2 /\ Settling
  BY <1>1 DEF Drain, SettleInv, Settling
<1>3. HostKept /\ HostType'
  BY <1>1, HostKeeps DEF Drain
<1>4. DataType' /\ acts'.mem = acts.mem
  BY <1>1, RamKeeps DEF Drain
<1>5. /\ PlaceKept /\ fsm'.kernel_done = fsm.kernel_done
      /\ \/ fsm.drain_cnt = 0 /\ fsm'.state = "EMIT" /\ fsm'.emit_beat = 0
         \/ fsm.drain_cnt # 0 /\ fsm'.state = "DRAIN" /\ fsm'.drain_cnt = fsm.drain_cnt - 1
  <2>1. CASE fsm.drain_cnt = 0
    BY <1>1, <1>2, <2>1 DEF Drain, TypeInv, FsmType, PlaceKept
  <2>2. CASE fsm.drain_cnt # 0
    BY <1>1, <1>2, <2>2 DEF Drain, TypeInv, FsmType, PlaceKept
  <2>3. QED
    BY <2>1, <2>2
<1>6. FsmType'
  <2>1. CASE fsm.drain_cnt = 0
    BY <1>1, <1>2, <2>1 DEF Drain, TypeInv, FsmType
  <2>2. CASE fsm.drain_cnt # 0
    BY <1>1, <1>2, <2>2 DEF Drain, TypeInv, FsmType
  <2>3. QED
    BY <2>1, <2>2
<1>7. Bpr' = Bpr /\ Subs' = Subs /\ Nrb' = Nrb /\ Rb' = Rb /\ Contributions' = Contributions
  BY <1>3, <1>5, SameMatrix, SameRowblock DEF HostKept, PlaceKept
<1>8. Datapath(FALSE, FALSE, FALSE)
  BY DEF Drain, Quiet
<1>9. LanesType' /\ ~lanes'.start /\ ~lanes'.valid
  BY <1>1, <1>8, LanesTyped, LaneFields DEF TypeInv
<1>10. TypeInv'
  BY <1>3, <1>4, <1>6, <1>9 DEF TypeInv
<1>11. /\ ~Loading' /\ ~Feeding' /\ Settling' /\ ~Finished'
       /\ ~Loading /\ ~Feeding /\ Settling /\ ~Finished
  BY <1>2, <1>5 DEF Loading, Feeding, Settling, Finished
<1>12. CtrlInv'
  BY <1>1, <1>2, <1>3, <1>5 DEF CtrlInv, HostKept
<1>13. StreamInv' /\ LoadInv' /\ AccumInv' /\ FeedInv' /\ WeightsInv'
  BY <1>3, <1>11 DEF StreamInv, LoadInv, AccumInv, FeedInv, WeightsInv, HostKept
<1>14. RamInv'
  BY <1>1, <1>3, <1>4, <1>7, <1>11 DEF RamInv, HostKept
<1>15. SettleInv'
  BY <1>1, <1>2, <1>3, <1>5, <1>7, <1>11, Sizes DEF SettleInv, HostKept, PlaceKept
<1>16. ResultsInv'
  <2>1. Emitted' = Emitted
    <3>1. Rb * ROWS_PER_BLOCK \in Int
      BY <1>1, <1>2, MatrixSizes, Sizes DEF Rb, SettleInv, CtrlInv, TypeInv
    <3>2. QED
      BY <1>2, <1>5, <1>7, <1>11, <3>1 DEF Emitted
  <2>2. QED
    BY <1>1, <1>3, <1>11, <2>1 DEF ResultsInv, HostKept
<1>17. /\ ~lanes.valid /\ lanes.s1 = Bubble /\ lanes.s2 = Bubble /\ ~lanes.start
  BY <1>1, <1>2 DEF PipeInv
<1>18. lanes'.s1 = Bubble /\ lanes'.s2 = Bubble /\ lanes'.out = Bubble
  BY <1>8, <1>17, LaneFields
<1>19. Issued' = Issued
  BY <1>7, <1>11 DEF Issued
<1>20. PipeNow'
  BY <1>1, <1>7, <1>8, <1>11, <1>19, Flowing
<1>21. PipeInv' /\ DoneInv'
  BY <1>5, <1>9, <1>11, <1>18, <1>20 DEF PipeInv, DoneInv, Empty
<1>22. QED
  BY <1>10, <1>12, <1>13, <1>14, <1>15, <1>16, <1>21 DEF KernelInv

\* All rowblocks are out: the kernel reports and is idle again.
LEMMA FinishKeeps ==
  ASSUME KernelInv, Finish
  PROVE  KernelInv'
<1>1. TypeInv /\ CtrlInv /\ PipeInv /\ ResultsInv /\ StreamInv
  BY DEF KernelInv
<1>2. fsm.state = "FINISH"
  BY DEF Finish
<1>3. HostKept /\ HostType'
  BY <1>1, HostKeeps DEF Finish
<1>4. DataType'
  BY <1>1, RamKeeps DEF Finish
<1>5. fsm'.state = "IDLE" /\ fsm'.kernel_done = TRUE
  BY <1>1 DEF Finish, TypeInv, FsmType
<1>6. FsmType'
  BY <1>1 DEF Finish, TypeInv, FsmType
<1>7. Bpr' = Bpr /\ Subs' = Subs /\ Nrb' = Nrb
  BY <1>3, SameMatrix DEF HostKept
<1>8. Datapath(FALSE, FALSE, FALSE)
  BY DEF Finish, Quiet
<1>9. Empty /\ ~lanes.start
  BY <1>1, <1>2 DEF PipeInv, Feeding
<1>10. LanesType' /\ ~lanes'.start /\ Empty'
  BY <1>1, <1>8, <1>9, LanesTyped, LaneFields, EmptyStays DEF TypeInv
<1>11. TypeInv'
  BY <1>3, <1>4, <1>6, <1>10 DEF TypeInv
<1>12. /\ ~Loading' /\ ~Feeding' /\ ~Settling' /\ Finished' /\ Finished
  BY <1>1, <1>2, <1>3, <1>5 DEF Loading, Feeding, Settling, Finished, HostKept, CtrlInv
<1>13. CtrlInv'
  BY <1>1, <1>2, <1>3, <1>5 DEF CtrlInv, HostKept
<1>14. StreamInv'
  BY <1>1, <1>3, <1>7, <1>12 DEF StreamInv, HostKept
<1>15. LoadInv' /\ AccumInv' /\ RamInv' /\ FeedInv' /\ WeightsInv' /\ SettleInv'
  BY <1>12 DEF LoadInv, AccumInv, RamInv, FeedInv, WeightsInv, SettleInv
<1>16. ResultsInv'
  BY <1>1, <1>3, <1>7, <1>12 DEF ResultsInv, HostKept, Emitted
<1>17. PipeInv' /\ DoneInv'
  BY <1>5, <1>10, <1>12 DEF PipeInv, DoneInv
<1>18. QED
  BY <1>11, <1>13, <1>14, <1>15, <1>16, <1>17 DEF KernelInv
-----------------------------------------------------------------------------
(* The activations come in. *)

\* A sub-block's number, and its place in the RAM.
LEMMA SubPlace ==
  ASSUME HostType, host.col > 0, NEW q \in 0 .. Bpr - 1, NEW r \in 0 .. Q8_SUBBLOCKS - 1, NEW i, i = q * Q8_SUBBLOCKS + r
  PROVE  /\ i \in Nat /\ i \in 0 .. Subs - 1 /\ RamIndex(q, r) = i /\ i \in 0 .. MAX_SUB_INDEX - 1
         /\ r # LAST_SUB \/ q + 1 # Bpr => i + 1 < Subs
         /\ r = LAST_SUB => i + 1 = (q + 1) * Q8_SUBBLOCKS
         /\ r = LAST_SUB /\ q + 1 = Bpr => i + 1 = Subs
<1>. DEFINE d == Q8_SUBBLOCKS
<1>1. /\ Bpr \in Nat \ {0} /\ Subs \in Nat \ {0} /\ Subs <= MAX_SUB_INDEX /\ d \in Nat \ {0} /\ Subs = Bpr * d
      /\ MAX_SUB_INDEX \in Nat /\ LAST_SUB = d - 1
  BY MatrixSizes, Sizes, KernelAssumption DEF Subs
<1>2. PICK b, m, n : b = Bpr /\ m = MAX_SUB_INDEX /\ n = Subs
  OBVIOUS
<1>3. q \in Nat /\ q < b /\ r \in Nat /\ r < d /\ r + 1 <= d /\ b \in Nat /\ d \in Nat /\ i = q * d + r /\ n = b * d
  BY <1>1, <1>2
<1>. HIDE DEF d
<1>4. q * d + (r + 1) <= b * d /\ q * d + (r + 1) \in Nat /\ q * d \in Nat /\ (q + 1) * d = q * d + d /\ b * d \in Nat
  <2>1. q * d + (r + 1) <= b * d /\ q * d + (r + 1) \in Nat
    BY ONLY <1>3, r + 1 \in Nat, PlaceInside
  <2>2. q * d \in Nat /\ b * d \in Nat
    BY ONLY <1>3, MulMono
  <2>3. QED
    BY ONLY <1>3, <2>1, <2>2, MulNext
<1>5. i \in Nat /\ i < n /\ n <= m /\ m \in Nat /\ n \in Nat
  BY ONLY <1>1, <1>2, <1>3, <1>4
<1>6. RamIndex(q, r) = i
  <2>1. \A x, y \in Nat : x < y => x % y = x
    OBVIOUS
  <2>2. i % m = i
    BY ONLY <1>5, <2>1
  <2>3. QED
    BY <1>2, <1>3, <2>2 DEF RamIndex, d
<1>7. r # d - 1 \/ q + 1 # b => i + 1 < n
  <2>1. CASE r # d - 1
    <3>1. q * d + (r + 2) <= b * d
      BY ONLY <1>3, <2>1, r + 2 \in Nat, r + 2 <= d, PlaceInside
    <3>2. QED
      BY ONLY <1>3, <1>4, <3>1
  <2>2. CASE q + 1 # b
    <3>1. (q + 2) * d <= b * d
      BY ONLY <1>3, <2>2, q + 2 \in Nat, q + 2 <= b, MulMono
    <3>2. (q + 2) * d = (q + 1) * d + d
      BY ONLY <1>3, q + 1 \in Int, q + 2 = (q + 1) + 1, MulNext
    <3>3. QED
      BY ONLY <1>1, <1>3, <1>4, <3>1, <3>2
  <2>3. QED
    BY <2>1, <2>2
<1>8. r = d - 1 => i + 1 = (q + 1) * d
  BY ONLY <1>3, <1>4
<1>9. r = d - 1 /\ q + 1 = b => i + 1 = n
  BY ONLY <1>3, <1>8
<1>10. i \in 0 .. Subs - 1 /\ i \in 0 .. MAX_SUB_INDEX - 1
  BY ONLY <1>2, <1>5
<1>11. QED
  BY <1>1, <1>2, <1>5, <1>6, <1>7, <1>8, <1>9, <1>10 DEF d

\* What the beat at hand holds.
LEMMA LoadBeat ==
  ASSUME TypeInv, LoadInv, Loading, host.col > 0
  PROVE  /\ LoadAt \in Nat /\ LoadAt \in 0 .. Subs - 1 /\ ActBeat \in Seq(Cell) /\ Len(ActBeat) = 4
         /\ fsm.load_beat < ACT_BEATS =>
              \A k \in 1 .. 4 : ActBeat[k] = <<<<"acts", host.col, LoadAt>>, fsm.load_beat * BEAT + k, ACTS>>
         /\ fsm.load_beat = ACT_BEATS => Head(ActBeat) = <<<<"act_scale", host.col, LoadAt>>, 1, 1>>
<1>1. HostType /\ fsm.load_q1 \in 0 .. Bpr - 1 /\ fsm.load_sub \in 0 .. Q8_SUBBLOCKS - 1 /\ fsm.load_beat \in 0 .. ACT_BEATS
  BY DEF TypeInv, LoadInv
<1>2. LoadAt = fsm.load_q1 * Q8_SUBBLOCKS + fsm.load_sub /\ host.apos = LoadAt * (ACTS + BEAT) + fsm.load_beat * BEAT
  BY DEF LoadAt, LoadInv
<1>3. LoadAt \in Nat /\ LoadAt \in 0 .. Subs - 1
  <2>1. PICK q, r, i : q = fsm.load_q1 /\ r = fsm.load_sub /\ i = LoadAt
    OBVIOUS
  <2>2. i \in Nat /\ i \in 0 .. Subs - 1
    BY <1>1, <1>2, <2>1, SubPlace
  <2>3. QED
    BY <2>1, <2>2
<1>4. host.shape \in Shapes /\ host.col \in 1 .. MAX_STARTS
  BY <1>1, MatrixSizes
<1>5. PICK s, col, A, i, b, p, beat :
        /\ s = host.shape /\ col = host.col /\ A = ActStream[host.shape][host.col] /\ i = LoadAt /\ b = fsm.load_beat
        /\ p = host.apos /\ beat = ActBeat
  OBVIOUS
<1>6. /\ s \in Shapes /\ col \in 1 .. MAX_STARTS /\ A = ActStream[s][col] /\ i \in 0 .. s[2] * Q8_SUBBLOCKS - 1
      /\ b \in 0 .. ACT_BEATS /\ p = i * (ACTS + BEAT) + b * BEAT /\ beat = SubSeq(A, p + 1, p + BEAT)
  BY <1>1, <1>2, <1>3, <1>4, <1>5 DEF ActBeat, Subs, Bpr
<1>7. /\ beat \in Seq(Cell) /\ Len(beat) = 4
      /\ b < ACT_BEATS => \A k \in 1 .. 4 : beat[k] = <<<<"acts", col, i>>, b * BEAT + k, ACTS>>
      /\ b = ACT_BEATS => Head(beat) = <<<<"act_scale", col, i>>, 1, 1>>
  <2>1. ActsBeatIs(beat, A, p, col, i, b)
    BY ONLY <1>6, ActsBeat
  <2>2. QED
    BY ONLY <2>1, Zenon DEF ActsBeatIs
<1>8. QED
  BY ONLY <1>3, <1>5, <1>7, Zenon

\* A value's first cells, and one beat more of them in the assembly register.
CellsOf(t, m, v, n) == t \in Seq(Cell) /\ Len(t) = m /\ \A k \in 1 .. m : t[k] = <<v, k, n>>

\* A beat joins the beats before it.
LEMMA AccumGrows ==
  ASSUME NEW s, s \in Seq(Cell), NEW m \in Nat, m <= Len(s), NEW u, u \in Seq(Cell), Len(u) = 4, NEW v, NEW n,
         \A k \in 1 .. m : s[k] = <<v, k, n>>, \A k \in 1 .. 4 : u[k] = <<v, m + k, n>>,
         NEW t, t = SubSeq(s, 1, m) \o u
  PROVE  CellsOf(t, m + 4, v, n)
<1>. DEFINE w == SubSeq(s, 1, m)
<1>1. w = SubSeq(s, 0 + 1, 0 + m) /\ 0 + m <= Len(s)
  OBVIOUS
<1>. HIDE DEF w
<1>2. w \in Seq(Cell) /\ Len(w) = m /\ \A k \in 1 .. m : w[k] = s[0 + k]
  BY ONLY <1>1, s \in Seq(Cell), 0 \in Nat, m \in Nat, Window
<1>3. \A k \in 1 .. m : w[k] = <<v, k, n>>
  <2>1. \A k \in 1 .. m : 0 + k = k
    OBVIOUS
  <2>2. QED
    BY <1>2, <2>1
<1>4. t = w \o u
  BY DEF w
<1>5. t \in Seq(Cell) /\ Len(t) = Len(w) + Len(u)
  BY ONLY <1>2, <1>4, u \in Seq(Cell), ConcatProperties
<1>6. /\ \A k \in 1 .. Len(w) : t[k] = w[k]
      /\ \A k \in 1 .. Len(u) : t[Len(w) + k] = u[k]
  <2>1. w \in Seq(Cell) /\ u \in Seq(Cell)
    BY <1>2
  <2>2. /\ \A k \in 1 .. Len(w) : (w \o u)[k] = w[k]
        /\ \A k \in 1 .. Len(u) : (w \o u)[Len(w) + k] = u[k]
    BY ONLY <2>1, ConcatPlaces
  <2>3. QED
    BY <1>4, <2>2
<1>7. ASSUME NEW k \in 1 .. m + 4 PROVE t[k] = <<v, k, n>>
  <2>1. CASE k <= m
    <3>1. k \in 1 .. m
      BY <2>1
    <3>2. QED
      BY <1>2, <1>3, <1>6, <3>1
  <2>2. CASE k > m
    <3>1. PICK j \in 1 .. 4 : m + j = k
      <4>1. k - m \in 1 .. 4 /\ m + (k - m) = k
        BY <2>2
      <4>2. QED
        BY <4>1
    <3>2. t[m + j] = u[j]
      BY <1>2, <1>6
    <3>3. QED
      BY <3>1, <3>2
  <2>3. k <= m \/ k > m
    BY ONLY m \in Nat, k \in 1 .. m + 4
  <2>4. QED
    BY ONLY <2>1, <2>2, <2>3
<1>8. QED
  BY <1>2, <1>5, <1>7 DEF CellsOf

\* A clock that moves one stream, or takes results.
HostMoved(w, a, r, t) ==
  /\ host'.shape = host.shape /\ host'.col = host.col /\ host'.wpos = w /\ host'.apos = a
  /\ host'.results = r /\ host'.tlast = t /\ host'.strobe = FALSE
  /\ host'.done = (~host.strobe /\ (host.done \/ fsm.kernel_done))

HostTo(w, a, r, t) ==
  host' = [shape |-> host.shape, col |-> host.col, wpos |-> w, apos |-> a, results |-> r, tlast |-> t,
           strobe |-> FALSE, done |-> ~host.strobe /\ (host.done \/ fsm.kernel_done)]

\* Such a clock keeps the registers well typed.
LEMMA HostMoves ==
  ASSUME TypeInv, NEW w \in Int, NEW a \in Int, NEW r, NEW t \in BOOLEAN, HostTo(w, a, r, t)
  PROVE  HostMoved(w, a, r, t) /\ HostType'
<1>1. fsm.kernel_done \in BOOLEAN /\ HostType
  BY DEF TypeInv, FsmType
<1>2. PICK d, y : d = (~host.strobe /\ (host.done \/ fsm.kernel_done)) /\ y = FALSE
  OBVIOUS
<1>3. host' = [shape |-> host.shape, col |-> host.col, wpos |-> w, apos |-> a, results |-> r, tlast |-> t,
               strobe |-> y, done |-> d]
  BY <1>2, Zenon DEF HostTo
<1>4. /\ host'.shape = host.shape /\ host'.col = host.col /\ host'.wpos = w /\ host'.apos = a
      /\ host'.results = r /\ host'.tlast = t /\ host'.strobe = y /\ host'.done = d
  BY <1>3
<1>5. HostMoved(w, a, r, t)
  BY <1>2, <1>4, Zenon DEF HostMoved
<1>6. d \in BOOLEAN /\ y \in BOOLEAN
  BY <1>2
<1>7. HostType'
  BY <1>1, <1>3, <1>4, <1>6 DEF HostType
<1>8. QED
  BY <1>5, <1>7

\* A beat of the activation stream is taken.
LEMMA LoadHost ==
  ASSUME TypeInv, host' = [Latched(host) EXCEPT !.apos = @ + BEAT]
  PROVE  HostMoved(host.wpos, host.apos + BEAT, host.results, host.tlast) /\ HostType'
<1>1. PICK d, g, y, h : /\ d = (~host.strobe /\ (host.done \/ fsm.kernel_done)) /\ g = Latched(host)
                        /\ y = FALSE /\ h = host'
  OBVIOUS
<1>2. g = [shape |-> host.shape, col |-> host.col, wpos |-> host.wpos, apos |-> host.apos,
           results |-> host.results, tlast |-> host.tlast, strobe |-> y, done |-> d]
  BY <1>1, LatchedIs, Zenon DEF TypeInv
<1>3. h = [g EXCEPT !.apos = g.apos + BEAT]
  BY <1>1
<1>4. h = [shape |-> host.shape, col |-> host.col, wpos |-> host.wpos, apos |-> host.apos + BEAT,
           results |-> host.results, tlast |-> host.tlast, strobe |-> y, done |-> d]
  BY ONLY <1>2, <1>3
<1>5. HostTo(host.wpos, host.apos + BEAT, host.results, host.tlast)
  BY ONLY <1>1, <1>4, Zenon DEF HostTo
<1>6. host.wpos \in Int /\ host.apos + BEAT \in Int /\ host.tlast \in BOOLEAN
  BY Sizes DEF TypeInv, HostType
<1>7. QED
  BY <1>5, <1>6, HostMoves, Zenon

\* A beat of the weight stream is taken.
LEMMA FeedHost ==
  ASSUME TypeInv, host' = [Latched(host) EXCEPT !.wpos = @ + BEAT]
  PROVE  HostMoved(host.wpos + BEAT, host.apos, host.results, host.tlast) /\ HostType'
<1>1. PICK d, g, y, h : /\ d = (~host.strobe /\ (host.done \/ fsm.kernel_done)) /\ g = Latched(host)
                        /\ y = FALSE /\ h = host'
  OBVIOUS
<1>2. g = [shape |-> host.shape, col |-> host.col, wpos |-> host.wpos, apos |-> host.apos,
           results |-> host.results, tlast |-> host.tlast, strobe |-> y, done |-> d]
  BY <1>1, LatchedIs, Zenon DEF TypeInv
<1>3. h = [g EXCEPT !.wpos = g.wpos + BEAT]
  BY <1>1
<1>4. h = [shape |-> host.shape, col |-> host.col, wpos |-> host.wpos + BEAT, apos |-> host.apos,
           results |-> host.results, tlast |-> host.tlast, strobe |-> y, done |-> d]
  BY ONLY <1>2, <1>3
<1>5. HostTo(host.wpos + BEAT, host.apos, host.results, host.tlast)
  BY ONLY <1>1, <1>4, Zenon DEF HostTo
<1>6. host.wpos + BEAT \in Int /\ host.apos \in Int /\ host.tlast \in BOOLEAN
  BY Sizes DEF TypeInv, HostType
<1>7. QED
  BY <1>5, <1>6, HostMoves, Zenon

\* A beat of activations joins the register.
LEMMA LoadActsKeeps ==
  ASSUME KernelInv, LoadActs
  PROVE  KernelInv'
<1>1. TypeInv /\ CtrlInv /\ PipeInv /\ ResultsInv /\ LoadInv /\ AccumInv /\ RamInv
  BY DEF KernelInv
<1>2. fsm.state = "LOAD_ACTS" /\ Loading /\ host.col > 0
  BY <1>1 DEF LoadActs, Loading, CtrlInv
<1>3. HostMoved(host.wpos, host.apos + BEAT, host.results, host.tlast) /\ HostType'
  BY <1>1, LoadHost DEF LoadActs
<1>4. PICK beat : beat = ActBeat
  OBVIOUS
<1>5. acts' = [mem |-> acts.mem, q |-> ActsQ(acts.mem), accum |-> SubSeq(acts.accum, 1, fsm.load_beat * BEAT) \o beat]
  <2>1. PICK m, q, a, x, y : /\ acts = [mem |-> m, q |-> q, accum |-> a] /\ x = ActsQ(acts.mem)
                             /\ y = SubSeq(acts.accum, 1, fsm.load_beat * BEAT) \o beat
    BY <1>1 DEF TypeInv, DataType
  <2>2. acts' = [acts EXCEPT !.q = x, !.accum = y]
    BY <1>4, <2>1 DEF LoadActs
  <2>3. acts' = [mem |-> m, q |-> x, accum |-> y] /\ acts.mem = m
    BY ONLY <2>1, <2>2
  <2>4. QED
    BY ONLY <2>1, <2>3, Zenon
<1>6. /\ fsm.load_q1 \in 0 .. Bpr - 1 /\ fsm.load_sub \in 0 .. Q8_SUBBLOCKS - 1
      /\ fsm.load_beat \in Nat /\ fsm.load_beat < ACT_BEATS
      /\ host.apos = LoadAt * (ACTS + BEAT) + fsm.load_beat * BEAT
      /\ host.wpos = 0 /\ fsm.q1_remaining = Bpr /\ fsm.q1_processed = 0
      /\ fsm.q8_index = 0 /\ fsm.beat_index = 0 /\ fsm.rowblock_remaining = Nrb
  BY <1>1, <1>2, Sizes DEF LoadInv
<1>7. BEAT = 4 /\ ACTS = ACT_BEATS * 4 /\ ACT_BEATS \in Nat \ {0} /\ ACTS \in Nat
  BY Sizes
<1>8. /\ fsm'.state = (IF fsm.load_beat = ACT_BEATS - 1 THEN "LOAD_SCALE" ELSE "LOAD_ACTS")
      /\ fsm'.load_beat = fsm.load_beat + 1 /\ fsm'.load_q1 = fsm.load_q1 /\ fsm'.load_sub = fsm.load_sub
      /\ PlaceKept /\ fsm'.kernel_done = fsm.kernel_done
  BY <1>1, <1>2 DEF LoadActs, TypeInv, FsmType, PlaceKept
<1>9. FsmType'
  <2>1. PICK st, b : st = fsm'.state /\ b = fsm.load_beat + 1 /\ st \in {"LOAD_ACTS", "LOAD_SCALE"} /\ b \in Int
    BY <1>6, <1>8
  <2>2. fsm' = [fsm EXCEPT !.load_beat = b, !.state = st] /\ FsmType
    BY <1>1, <1>2, <1>8, <2>1 DEF LoadActs, TypeInv
  <2>3. fsm' = [state |-> st, q1_remaining |-> fsm.q1_remaining, rowblock_remaining |-> fsm.rowblock_remaining,
                q8_index |-> fsm.q8_index, beat_index |-> fsm.beat_index, drain_cnt |-> fsm.drain_cnt,
                emit_beat |-> fsm.emit_beat, q1_processed |-> fsm.q1_processed, load_beat |-> b, load_q1 |-> fsm.load_q1,
                load_sub |-> fsm.load_sub, kernel_done |-> fsm.kernel_done]
    BY ONLY <2>2 DEF FsmType
  <2>4. QED
    BY ONLY <2>1, <2>2, <2>3 DEF FsmType
<1>10. Bpr' = Bpr /\ Subs' = Subs /\ Nrb' = Nrb /\ LoadAt' = LoadAt
  BY <1>3, <1>8, SameMatrix DEF HostMoved, LoadAt
<1>11. LoadAt \in Nat
  BY <1>1, <1>2, LoadBeat
<1>12. /\ acts'.accum \in Seq(Cell) /\ Len(acts'.accum) = fsm.load_beat * 4 + 4
       /\ \A k \in 1 .. fsm.load_beat * 4 + 4 : acts'.accum[k] = <<<<"acts", host.col, LoadAt>>, k, ACTS>>
  <2>1. PICK s, m, v, n, t : /\ s = acts.accum /\ m = fsm.load_beat * 4 /\ v = <<"acts", host.col, LoadAt>> /\ n = ACTS
                             /\ t = acts'.accum
    OBVIOUS
  <2>2. s \in Seq(Cell) /\ m \in Nat /\ m <= Len(s) /\ \A k \in 1 .. m : s[k] = <<v, k, n>>
    BY <1>1, <1>2, <1>6, <1>7, <2>1 DEF AccumInv, TypeInv, DataType
  <2>3. beat \in Seq(Cell) /\ Len(beat) = 4
    BY <1>1, <1>2, <1>4, LoadBeat
  <2>4. \A k \in 1 .. 4 : beat[k] = <<v, m + k, n>>
    <3>1. \A k \in 1 .. 4 : ActBeat[k] = <<<<"acts", host.col, LoadAt>>, fsm.load_beat * BEAT + k, ACTS>>
      BY <1>1, <1>2, <1>6, LoadBeat
    <3>2. fsm.load_beat * BEAT = m
      BY <1>7, <2>1
    <3>3. QED
      BY ONLY <1>4, <2>1, <3>1, <3>2, Zenon
  <2>5. t = SubSeq(s, 1, m) \o beat
    BY <1>5, <1>7, <2>1
  <2>6. t \in Seq(Cell) /\ Len(t) = m + 4 /\ \A k \in 1 .. m + 4 : t[k] = <<v, k, n>>
    <3>1. CellsOf(t, m + 4, v, n)
      BY ONLY <2>2, <2>3, <2>4, <2>5, AccumGrows
    <3>2. QED
      BY ONLY <3>1, Zenon DEF CellsOf
  <2>7. QED
    BY ONLY <2>1, <2>6, Zenon
<1>13. acts'.mem = acts.mem /\ weights' = weights
  BY <1>5 DEF LoadActs
<1>14. DataType'
  BY <1>1, <1>5, <1>12, <1>13 DEF TypeInv, DataType
<1>15. Datapath(FALSE, FALSE, FALSE)
  BY DEF LoadActs, Quiet
<1>16. Empty /\ ~lanes.start
  BY <1>1, <1>2 DEF PipeInv, Feeding
<1>17. LanesType' /\ ~lanes'.start /\ Empty'
  BY <1>1, <1>15, <1>16, LanesTyped, LaneFields, EmptyStays DEF TypeInv
<1>18. TypeInv'
  BY <1>3, <1>9, <1>14, <1>17 DEF TypeInv
<1>19. Loading' /\ ~Feeding' /\ ~Settling' /\ ~Finished' /\ ~Finished /\ ~Feeding /\ ~Settling
  BY <1>2, <1>8 DEF Loading, Feeding, Settling, Finished
<1>20. CtrlInv' /\ StreamInv'
  BY <1>1, <1>2, <1>3, <1>8, <1>19 DEF CtrlInv, StreamInv, HostMoved
<1>21. LoadInv'
  <2>1. host'.apos = LoadAt' * (ACTS + BEAT) + fsm'.load_beat * BEAT
    BY <1>3, <1>6, <1>7, <1>8, <1>10, <1>11 DEF HostMoved
  <2>2. fsm'.load_beat \in 0 .. ACT_BEATS /\ (fsm'.state = "LOAD_SCALE" <=> fsm'.load_beat = ACT_BEATS)
    BY <1>6, <1>7, <1>8
  <2>3. QED
    BY <1>3, <1>6, <1>8, <1>10, <2>1, <2>2 DEF LoadInv, HostMoved, PlaceKept
<1>22. AccumInv'
  <2>1. fsm'.load_beat * BEAT = fsm.load_beat * 4 + 4
    BY <1>6, <1>7, <1>8
  <2>2. fsm'.state = "LOAD_SCALE" => fsm.load_beat * 4 + 4 = ACTS
    BY <1>6, <1>7, <1>8
  <2>3. host'.col = host.col
    BY <1>3 DEF HostMoved
  <2>4. QED
    BY <1>6, <1>10, <1>12, <2>1, <2>2, <2>3 DEF AccumInv
<1>23. RamInv'
  BY <1>1, <1>2, <1>3, <1>10, <1>13, <1>19 DEF RamInv, HostMoved
<1>24. FeedInv' /\ WeightsInv' /\ SettleInv'
  BY <1>19 DEF FeedInv, WeightsInv, SettleInv
<1>25. ResultsInv'
  BY <1>1, <1>3, <1>19 DEF ResultsInv, Emitted, HostMoved
<1>26. PipeInv' /\ DoneInv'
  <2>1. fsm'.state # "DRAIN" /\ fsm'.state # "WAIT_DONE"
    BY <1>8
  <2>2. QED
    BY <1>17, <1>19, <2>1 DEF PipeInv, DoneInv
<1>27. QED
  BY <1>18, <1>20, <1>21, <1>22, <1>23, <1>24, <1>25, <1>26 DEF KernelInv

\* The register holds a whole sub-block.
LEMMA WholeIs ==
  ASSUME NEW v \in Value, NEW n \in Nat, NEW t, t \in Seq(Cell), Len(t) = n, \A k \in 1 .. n : t[k] = <<v, k, n>>
  PROVE  t = Whole(v, n)
<1>1. Whole(v, n) \in Seq(Cell) /\ Len(Whole(v, n)) = n /\ \A i \in 1 .. n : Whole(v, n)[i] = <<v, i, n>>
  BY WholeCells
<1>2. PICK u : u = Whole(v, n)
  OBVIOUS
<1>3. u \in Seq(Cell) /\ Len(u) = n /\ \A i \in 1 .. n : u[i] = t[i]
  BY <1>1, <1>2
<1>4. t = u
  BY <1>3, SeqEqual
<1>5. QED
  BY <1>2, <1>4

\* The scale completes a sub-block in the RAM; after the column's last one the first rowblock starts.
LEMMA LoadScaleKeeps ==
  ASSUME KernelInv, LoadScale
  PROVE  KernelInv'
<1>1. TypeInv /\ CtrlInv /\ PipeInv /\ ResultsInv /\ LoadInv /\ AccumInv /\ RamInv
  BY DEF KernelInv
<1>2. fsm.state = "LOAD_SCALE" /\ Loading /\ host.col > 0
  BY <1>1 DEF LoadScale, Loading, CtrlInv
<1>3. HostMoved(host.wpos, host.apos + BEAT, host.results, host.tlast) /\ HostType'
  BY <1>1, LoadHost DEF LoadScale
<1>4. PICK end, i, x : /\ end = (fsm.load_sub = LAST_SUB /\ fsm.load_q1 + 1 = host.shape[2])
                       /\ i = LoadAt /\ x = <<acts.accum, Head(ActBeat)>>
  OBVIOUS
<1>5. end \in BOOLEAN
  BY <1>4
<1>6. /\ fsm.load_q1 \in 0 .. Bpr - 1 /\ fsm.load_sub \in 0 .. Q8_SUBBLOCKS - 1
      /\ fsm.load_beat = ACT_BEATS
      /\ host.apos = i * (ACTS + BEAT) + ACTS
      /\ host.wpos = 0 /\ fsm.q1_remaining = Bpr /\ fsm.q1_processed = 0
      /\ fsm.q8_index = 0 /\ fsm.beat_index = 0 /\ fsm.rowblock_remaining = Nrb
  BY <1>1, <1>2, <1>4 DEF LoadInv, ACTS
<1>7. /\ BEAT = 4 /\ ACTS \in Nat /\ ACT_BEATS \in Nat \ {0} /\ Q8_SUBBLOCKS \in Nat \ {0} /\ LAST_SUB = Q8_SUBBLOCKS - 1
      /\ Bpr \in Nat \ {0} /\ Subs \in Nat \ {0} /\ Nrb \in Nat \ {0} /\ host.col \in Nat
  BY <1>1, <1>2, Sizes, MatrixSizes DEF TypeInv
<1>8. /\ i \in Nat /\ i \in 0 .. Subs - 1 /\ RamIndex(fsm.load_q1, fsm.load_sub) = i /\ i \in 0 .. MAX_SUB_INDEX - 1
      /\ fsm.load_sub # LAST_SUB \/ fsm.load_q1 + 1 # Bpr => i + 1 < Subs
      /\ fsm.load_sub = LAST_SUB => i + 1 = (fsm.load_q1 + 1) * Q8_SUBBLOCKS
      /\ fsm.load_sub = LAST_SUB /\ fsm.load_q1 + 1 = Bpr => i + 1 = Subs
  <2>1. PICK q, r : q = fsm.load_q1 /\ r = fsm.load_sub
    OBVIOUS
  <2>2. q \in 0 .. Bpr - 1 /\ r \in 0 .. Q8_SUBBLOCKS - 1 /\ i = q * Q8_SUBBLOCKS + r
    BY <1>4, <1>6, <2>1 DEF LoadAt
  <2>3. HostType
    BY <1>1 DEF TypeInv
  <2>4. /\ i \in Nat /\ i \in 0 .. Subs - 1 /\ RamIndex(q, r) = i /\ i \in 0 .. MAX_SUB_INDEX - 1
        /\ r # LAST_SUB \/ q + 1 # Bpr => i + 1 < Subs
        /\ r = LAST_SUB => i + 1 = (q + 1) * Q8_SUBBLOCKS
        /\ r = LAST_SUB /\ q + 1 = Bpr => i + 1 = Subs
    BY <1>2, <2>2, <2>3, SubPlace
  <2>5. QED
    BY <2>1, <2>4
<1>9. x = ActOf(host.col, i)
  <2>1. acts.accum \in Seq(Cell) /\ Len(acts.accum) = ACTS
    BY <1>1, <1>2 DEF TypeInv, DataType, AccumInv
  <2>2. \A k \in 1 .. ACTS : acts.accum[k] = <<<<"acts", host.col, i>>, k, ACTS>>
    BY <1>1, <1>2, <1>4, <1>6 DEF AccumInv, ACTS
  <2>3. PICK v, t, n : v = <<"acts", host.col, i>> /\ t = acts.accum /\ n = ACTS
    OBVIOUS
  <2>4. v \in Value
    BY <1>7, <1>8, <2>3, Values
  <2>5. t = Whole(v, n)
    <3>1. t \in Seq(Cell) /\ Len(t) = n /\ n \in Nat /\ \A k \in 1 .. n : t[k] = <<v, k, n>>
      BY <1>7, <2>1, <2>2, <2>3
    <3>2. QED
      BY ONLY <2>4, <3>1, WholeIs
  <2>6. Head(ActBeat) = <<<<"act_scale", host.col, i>>, 1, 1>>
    BY <1>1, <1>2, <1>4, <1>6, LoadBeat
  <2>7. QED
    BY ONLY <1>4, <2>3, <2>5, <2>6, Zenon DEF ActOf
<1>10. /\ acts' = [mem |-> [acts.mem EXCEPT ![i] = x], q |-> ActsQ(acts.mem), accum |-> acts.accum]
       /\ weights' = weights
  <2>1. PICK m, q, a, y, z : /\ acts = [mem |-> m, q |-> q, accum |-> a] /\ y = ActsQ(acts.mem)
                             /\ z = [acts.mem EXCEPT ![i] = x]
    BY <1>1 DEF TypeInv, DataType
  <2>2. acts' = [acts EXCEPT !.mem = z, !.q = y]
    BY <1>4, <1>8, <2>1 DEF LoadScale
  <2>3. acts' = [mem |-> z, q |-> y, accum |-> a] /\ acts.accum = a
    BY ONLY <2>1, <2>2
  <2>4. weights' = weights
    BY DEF LoadScale
  <2>5. QED
    BY ONLY <2>1, <2>3, <2>4, Zenon
<1>11. /\ acts'.accum = acts.accum /\ acts'.mem = [acts.mem EXCEPT ![i] = x]
  BY <1>10
<1>12. DataType'
  <2>1. acts'.mem = [j \in 0 .. MAX_SUB_INDEX - 1 |-> acts'.mem[j]]
    BY <1>1, <1>11 DEF TypeInv, DataType
  <2>2. acts' = [mem |-> acts'.mem, q |-> acts'.q, accum |-> acts'.accum]
    BY <1>10
  <2>3. QED
    BY <1>1, <1>10, <1>11, <2>1, <2>2 DEF TypeInv, DataType
<1>13. \A j \in 0 .. i : acts'.mem[j] = ActOf(host.col, j)
  <2>1. SUFFICES ASSUME NEW j \in 0 .. i PROVE acts'.mem[j] = ActOf(host.col, j)
    OBVIOUS
  <2>2. j \in 0 .. MAX_SUB_INDEX - 1
    <3>1. i \in 0 .. MAX_SUB_INDEX - 1 /\ MAX_SUB_INDEX \in Nat
      BY <1>8, KernelAssumption
    <3>2. QED
      BY ONLY <3>1, j \in 0 .. i
  <2>3. PICK M : M = acts.mem /\ M = [k \in 0 .. MAX_SUB_INDEX - 1 |-> M[k]]
    BY <1>1 DEF TypeInv, DataType
  <2>4. CASE j = i
    BY <1>8, <1>9, <1>11, <2>2, <2>3, <2>4
  <2>5. CASE j # i
    <3>1. j \in 0 .. LoadAt - 1
      BY <1>4, <1>8, <2>5
    <3>2. acts.mem[j] = ActOf(host.col, j)
      BY <1>1, <1>2, <3>1 DEF RamInv
    <3>3. QED
      BY <1>8, <1>11, <2>2, <2>3, <2>5, <3>2
  <2>6. QED
    BY <2>4, <2>5
<1>14. /\ fsm'.state = (IF end THEN "SCALES" ELSE "LOAD_ACTS") /\ fsm'.load_beat = 0
       /\ fsm'.load_sub = (IF fsm.load_sub = LAST_SUB THEN 0 ELSE fsm.load_sub + 1)
       /\ fsm'.load_q1 = (IF fsm.load_sub = LAST_SUB /\ ~end THEN fsm.load_q1 + 1 ELSE fsm.load_q1)
       /\ PlaceKept /\ fsm'.kernel_done = fsm.kernel_done
  BY <1>1, <1>2, <1>4 DEF LoadScale, TypeInv, FsmType, PlaceKept
<1>15. FsmType'
  <2>1. PICK st, s, q : /\ st = fsm'.state /\ s = fsm'.load_sub /\ q = fsm'.load_q1
                        /\ st \in {"LOAD_ACTS", "SCALES"} /\ s \in Int /\ q \in Int
    BY <1>5, <1>6, <1>14
  <2>2. fsm' = [fsm EXCEPT !.load_beat = 0, !.load_sub = s, !.load_q1 = q, !.state = st] /\ FsmType
    BY <1>1, <1>2, <1>4, <1>14, <2>1 DEF LoadScale, TypeInv
  <2>3. fsm' = [state |-> st, q1_remaining |-> fsm.q1_remaining, rowblock_remaining |-> fsm.rowblock_remaining,
                q8_index |-> fsm.q8_index, beat_index |-> fsm.beat_index, drain_cnt |-> fsm.drain_cnt,
                emit_beat |-> fsm.emit_beat, q1_processed |-> fsm.q1_processed, load_beat |-> 0, load_q1 |-> q,
                load_sub |-> s, kernel_done |-> fsm.kernel_done]
    BY ONLY <2>2 DEF FsmType
  <2>4. QED
    BY ONLY <2>1, <2>2, <2>3 DEF FsmType
<1>16. Bpr' = Bpr /\ Subs' = Subs /\ Nrb' = Nrb
  BY <1>3, SameMatrix DEF HostMoved
<1>17. Datapath(end, FALSE, FALSE)
  BY <1>4 DEF LoadScale
<1>18. Empty /\ ~lanes.start
  BY <1>1, <1>2 DEF PipeInv, Feeding
<1>19. LanesType' /\ lanes'.start = end /\ Empty'
  BY <1>1, <1>5, <1>17, <1>18, LanesTyped, LaneFields, EmptyStays DEF TypeInv
<1>20. TypeInv'
  BY <1>3, <1>12, <1>15, <1>19 DEF TypeInv
<1>21. CtrlInv'
  BY <1>1, <1>2, <1>3, <1>14 DEF CtrlInv, HostMoved
<1>22. host'.apos = (i + 1) * (ACTS + BEAT)
  BY <1>3, <1>6, <1>7, <1>8 DEF HostMoved
<1>23. CASE end
  <2>1. Feeding' /\ ~Loading' /\ ~Settling' /\ ~Finished' /\ ~Finished /\ ~Feeding /\ ~Settling /\ fsm'.state = "SCALES"
    BY <1>2, <1>14, <1>23 DEF Loading, Feeding, Settling, Finished
  <2>2. i + 1 = Subs
    BY <1>4, <1>8, <1>23 DEF Bpr
  <2>3. LoadInv' /\ AccumInv' /\ SettleInv' /\ StreamInv'
    BY <1>3, <2>1 DEF LoadInv, AccumInv, SettleInv, StreamInv, HostMoved
  <2>4. RamInv'
    <3>1. \A j \in 0 .. Subs - 1 : acts'.mem[j] = ActOf(host.col, j)
      BY <1>8, <1>13, <2>2
    <3>2. QED
      BY <1>3, <1>16, <1>22, <2>1, <2>2, <3>1 DEF RamInv, HostMoved
  <2>5. Rb' = 0
    BY <1>6, <1>7, <1>14, <1>16 DEF Rb, PlaceKept
  <2>6. FeedAt' = 0
    BY <1>6, <1>7, <1>14, <1>16, <2>5, WeightSize DEF FeedAt, PlaceKept
  <2>7. FeedInv'
    <3>1. 0 \in 0 .. SCALE_BEATS - 1 /\ 0 \in 0 .. Q8_SUBBLOCKS - 1
      BY Sizes
    <3>2. host'.wpos = 0
      BY <1>3, <1>6 DEF HostMoved
    <3>3. QED
      BY <1>6, <1>7, <1>14, <1>16, <2>1, <2>6, <3>1, <3>2 DEF FeedInv, PlaceKept
  <2>8. WeightsInv'
    <3>1. \A l \in Lane : ~(l \div 4 < 0)
      BY Sizes DEF Lane
    <3>2. fsm'.beat_index = 0
      BY <1>6, <1>14 DEF PlaceKept
    <3>3. QED
      BY <2>1, <3>1, <3>2 DEF WeightsInv
  <2>9. ResultsInv'
    <3>1. Emitted' = 0 /\ Emitted = 0
      BY <2>1, <2>5, Sizes DEF Emitted
    <3>2. QED
      BY <1>1, <1>3, <2>1, <3>1 DEF ResultsInv, HostMoved
  <2>10. PipeInv' /\ DoneInv'
    BY <1>6, <1>14, <1>19, <1>23, <2>1 DEF PipeInv, DoneInv, PlaceKept
  <2>11. QED
    BY <1>20, <1>21, <2>3, <2>4, <2>7, <2>8, <2>9, <2>10 DEF KernelInv
<1>24. CASE ~end
  <2>1. Loading' /\ ~Feeding' /\ ~Settling' /\ ~Finished' /\ ~Finished /\ ~Feeding /\ ~Settling /\ fsm'.state = "LOAD_ACTS"
    BY <1>2, <1>14, <1>24 DEF Loading, Feeding, Settling, Finished
  <2>2. /\ LoadAt' = i + 1 /\ fsm'.load_q1 \in 0 .. Bpr - 1 /\ fsm'.load_sub \in 0 .. Q8_SUBBLOCKS - 1
    <3>1. CASE fsm.load_sub = LAST_SUB
      <4>1. fsm'.load_sub = 0 /\ fsm'.load_q1 = fsm.load_q1 + 1 /\ fsm.load_q1 + 1 # Bpr
        BY <1>4, <1>14, <1>24, <3>1 DEF Bpr
      <4>2. fsm'.load_q1 \in 0 .. Bpr - 1 /\ fsm'.load_sub \in 0 .. Q8_SUBBLOCKS - 1
        BY ONLY <1>6, <1>7, <4>1
      <4>3. LoadAt' = (fsm.load_q1 + 1) * Q8_SUBBLOCKS + 0
        BY <4>1 DEF LoadAt
      <4>4. QED
        BY <1>8, <3>1, <4>2, <4>3
    <3>2. CASE fsm.load_sub # LAST_SUB
      <4>1. fsm'.load_sub = fsm.load_sub + 1 /\ fsm'.load_q1 = fsm.load_q1
        BY <1>14, <3>2
      <4>2. fsm'.load_q1 \in 0 .. Bpr - 1 /\ fsm'.load_sub \in 0 .. Q8_SUBBLOCKS - 1
        BY ONLY <1>6, <1>7, <3>2, <4>1
      <4>3. LoadAt' = fsm.load_q1 * Q8_SUBBLOCKS + (fsm.load_sub + 1) /\ i = fsm.load_q1 * Q8_SUBBLOCKS + fsm.load_sub
        BY <1>4, <4>1 DEF LoadAt
      <4>4. QED
        BY <1>6, <1>7, <4>2, <4>3
    <3>3. QED
      BY <3>1, <3>2
  <2>3. LoadInv'
    BY <1>3, <1>6, <1>7, <1>8, <1>14, <1>16, <1>22, <2>1, <2>2 DEF LoadInv, HostMoved, PlaceKept
  <2>4. AccumInv'
    BY <1>1, <1>7, <1>11, <1>14, <2>1 DEF AccumInv, TypeInv, DataType
  <2>5. RamInv'
    <3>1. \A j \in 0 .. (i + 1) - 1 : acts'.mem[j] = ActOf(host.col, j)
      BY <1>8, <1>13
    <3>2. QED
      BY <1>3, <2>1, <2>2, <3>1 DEF RamInv, HostMoved
  <2>6. FeedInv' /\ WeightsInv' /\ SettleInv' /\ StreamInv'
    BY <1>3, <2>1 DEF FeedInv, WeightsInv, SettleInv, StreamInv, HostMoved
  <2>7. ResultsInv'
    BY <1>1, <1>3, <2>1 DEF ResultsInv, Emitted, HostMoved
  <2>8. PipeInv' /\ DoneInv'
    BY <1>19, <1>24, <2>1 DEF PipeInv, DoneInv
  <2>9. QED
    BY <1>20, <1>21, <2>3, <2>4, <2>5, <2>6, <2>7, <2>8 DEF KernelInv
<1>25. QED
  BY <1>5, <1>23, <1>24
-----------------------------------------------------------------------------
(* The weights come in. *)

\* A clock that takes weights only reads the RAM.
LEMMA FeedRam ==
  ASSUME TypeInv, ReadRam, weights' = [scales |-> weights'.scales, bits |-> weights'.bits]
  PROVE  DataType' /\ acts'.mem = acts.mem
<1>1. acts' = [mem |-> acts.mem, q |-> ActsQ(acts.mem), accum |-> acts.accum]
  BY DEF TypeInv, DataType, ReadRam
<1>2. acts'.mem = acts.mem /\ acts'.accum = acts.accum /\ acts'.q = ActsQ(acts.mem)
  BY <1>1
<1>3. QED
  BY <1>1, <1>2 DEF TypeInv, DataType

\* The sizes while the lanes are fed.
LEMMA FeedSizes ==
  ASSUME TypeInv, CtrlInv, FeedInv, Feeding
  PROVE  /\ host.col > 0 /\ host.shape \in Shapes /\ host.shape[1] \in Nat \ {0} /\ Rb \in 0 .. Nrb - 1 /\ Rb \in Nat
         /\ fsm.q1_processed \in 0 .. Bpr - 1 /\ fsm.q1_processed \in Nat
         /\ Bpr \in Nat \ {0} /\ Nrb \in Nat \ {0} /\ FeedAt \in Nat /\ FeedSub \in Nat /\ FeedSub \in 0 .. Subs - 1
<1>1. host.col > 0 /\ HostType
  BY DEF CtrlInv, Feeding, TypeInv
<1>2. host.shape \in Shapes /\ host.shape[1] \in Nat \ {0} /\ Bpr \in Nat \ {0} /\ Nrb \in Nat \ {0}
  BY <1>1, MatrixSizes
<1>3. /\ fsm.rowblock_remaining \in 1 .. Nrb /\ fsm.q1_processed \in 0 .. Bpr - 1
      /\ fsm.q8_index \in 0 .. Q8_SUBBLOCKS - 1
  BY DEF FeedInv
<1>4. Rb \in 0 .. Nrb - 1 /\ Rb \in Nat /\ fsm.q1_processed \in Nat
  BY <1>2, <1>3 DEF Rb
<1>5. FeedAt \in Nat
  <2>1. PICK b, n, q, p : b = Rb /\ n = Bpr /\ q = fsm.q1_processed /\ p = PACKED_PER_Q1_BLOCK
    OBVIOUS
  <2>2. b \in Nat /\ n \in Nat /\ q \in Nat /\ p \in Nat
    BY <1>2, <1>4, <2>1, WeightSize
  <2>3. b * n \in Nat
    BY ONLY <2>2, MulMono
  <2>4. b * n + q \in Nat
    BY ONLY <2>2, <2>3
  <2>5. (b * n + q) * p \in Nat
    BY ONLY <2>2, <2>4, MulMono
  <2>6. QED
    BY <2>1, <2>5 DEF FeedAt
<1>6. FeedSub \in Nat /\ FeedSub \in 0 .. Subs - 1
  <2>1. PICK q, r, i : q = fsm.q1_processed /\ r = fsm.q8_index /\ i = FeedSub
    OBVIOUS
  <2>2. q \in 0 .. Bpr - 1 /\ r \in 0 .. Q8_SUBBLOCKS - 1 /\ i = q * Q8_SUBBLOCKS + r
    BY <1>3, <2>1 DEF FeedSub
  <2>3. i \in Nat /\ i \in 0 .. Subs - 1
    BY <1>1, <2>2, SubPlace
  <2>4. QED
    BY <2>1, <2>3
<1>7. QED
  BY <1>1, <1>2, <1>3, <1>4, <1>5, <1>6

\* Four lanes' scales.
LEMMA ScalesIn ==
  ASSUME TypeInv, CtrlInv, FeedInv, fsm.state = "SCALES"
  PROVE  \A l \in Lane : l \div 4 = fsm.beat_index => WeightBeat[(l % 4) + 1] = RightScale(l)
<1>1. Feeding
  BY DEF Feeding
<1>2. /\ host.shape \in Shapes /\ Rb \in 0 .. Nrb - 1 /\ fsm.q1_processed \in 0 .. Bpr - 1
      /\ fsm.beat_index \in 0 .. SCALE_BEATS - 1 /\ host.wpos = FeedAt + fsm.beat_index * BEAT
  BY <1>1, FeedSizes DEF FeedInv
<1>3. PICK s, W, rb, q1, b, p, beat :
        /\ s = host.shape /\ W = WeightStream[host.shape] /\ rb = Rb /\ q1 = fsm.q1_processed /\ b = fsm.beat_index
        /\ p = host.wpos /\ beat = WeightBeat
  OBVIOUS
<1>4. /\ s \in Shapes /\ W = WeightStream[s] /\ rb \in 0 .. Rowblocks(s[1]) - 1 /\ q1 \in 0 .. s[2] - 1
      /\ b \in 0 .. SCALE_BEATS - 1 /\ p = (rb * s[2] + q1) * PACKED_PER_Q1_BLOCK + b * BEAT
      /\ beat = SubSeq(W, p + 1, p + BEAT)
  BY <1>2, <1>3, Zenon DEF WeightBeat, FeedAt, Bpr, Nrb
<1>5. ScaleBeatIs(beat, W, p, s[1], rb, q1, b)
  BY ONLY <1>4, ScaleBeat
<1>6. \A l \in Lane : l \div 4 = b => beat[(l % 4) + 1] = LaneScale(s[1], rb * ROWS_PER_BLOCK + l, q1)
  BY ONLY <1>5, Zenon DEF ScaleBeatIs
<1>7. QED
  BY ONLY <1>3, <1>6, Zenon DEF RightScale, RowOf

\* Two lanes' masks.
LEMMA BitsIn ==
  ASSUME TypeInv, CtrlInv, FeedInv, fsm.state = "WBITS"
  PROVE  \A l \in Lane : l \div 2 = fsm.beat_index =>
           SubSeq(WeightBeat, 2 * (l % 2) + 1, 2 * (l % 2) + 2) = RightBits(l)
<1>1. Feeding
  BY DEF Feeding
<1>2. /\ host.shape \in Shapes /\ Rb \in 0 .. Nrb - 1 /\ fsm.q1_processed \in 0 .. Bpr - 1
      /\ fsm.q8_index \in 0 .. Q8_SUBBLOCKS - 1 /\ fsm.beat_index \in 0 .. WBITS_BEATS - 1
      /\ host.wpos = FeedAt + SCALES + fsm.q8_index * WBITS + fsm.beat_index * BEAT
  BY <1>1, FeedSizes DEF FeedInv
<1>3. PICK s, W, rb, q1, sub, b, p, beat :
        /\ s = host.shape /\ W = WeightStream[host.shape] /\ rb = Rb /\ q1 = fsm.q1_processed /\ sub = fsm.q8_index
        /\ b = fsm.beat_index /\ p = host.wpos /\ beat = WeightBeat
  OBVIOUS
<1>4. /\ s \in Shapes /\ W = WeightStream[s] /\ rb \in 0 .. Rowblocks(s[1]) - 1 /\ q1 \in 0 .. s[2] - 1
      /\ sub \in 0 .. Q8_SUBBLOCKS - 1 /\ b \in 0 .. WBITS_BEATS - 1
      /\ p = (rb * s[2] + q1) * PACKED_PER_Q1_BLOCK + SCALES + sub * WBITS + b * BEAT
      /\ beat = SubSeq(W, p + 1, p + BEAT)
  BY <1>2, <1>3, Zenon DEF WeightBeat, FeedAt, Bpr, Nrb
<1>5. BitBeatIs(beat, W, p, s[1], rb, q1, sub, b)
  BY ONLY <1>4, BitBeat
<1>6. \A l \in Lane : l \div 2 = b =>
        SubSeq(beat, 2 * (l % 2) + 1, 2 * (l % 2) + 2) =
          <<LaneBits(s[1], rb * ROWS_PER_BLOCK + l, q1, sub, 1), LaneBits(s[1], rb * ROWS_PER_BLOCK + l, q1, sub, 2)>>
  BY ONLY <1>5, Zenon DEF BitBeatIs
<1>7. QED
  BY ONLY <1>3, <1>6, Zenon DEF RightBits, RowOf

\* A beat of weights: what all of it leaves as it is.
LEMMA FedOn ==
  ASSUME KernelInv, Feeding, HostMoved(host.wpos + BEAT, host.apos, host.results, host.tlast),
         Datapath(FALSE, FALSE, FALSE), Feeding', fsm'.rowblock_remaining = fsm.rowblock_remaining,
         fsm'.q1_processed = fsm.q1_processed, fsm'.q8_index = fsm.q8_index, fsm'.kernel_done = fsm.kernel_done,
         acts'.mem = acts.mem
  PROVE  /\ CtrlInv' /\ LoadInv' /\ AccumInv' /\ RamInv' /\ SettleInv' /\ ResultsInv' /\ StreamInv' /\ PipeInv' /\ DoneInv'
         /\ LanesType' /\ Bpr' = Bpr /\ Nrb' = Nrb /\ Rb' = Rb /\ FeedAt' = FeedAt
<1>1. TypeInv /\ CtrlInv /\ RamInv /\ FeedInv /\ ResultsInv /\ PipeInv /\ DoneInv
  BY DEF KernelInv
<1>2. Bpr' = Bpr /\ Subs' = Subs /\ Nrb' = Nrb /\ Rb' = Rb /\ Contributions' = Contributions
  BY SameMatrix, SameRowblock DEF HostMoved
<1>3. FeedAt' = FeedAt /\ FeedSub' = FeedSub
  BY <1>2 DEF FeedAt, FeedSub
<1>4. ~Loading /\ ~Settling /\ ~Finished /\ ~Loading' /\ ~Settling' /\ ~Finished'
  BY DEF Feeding, Loading, Settling, Finished
<1>5. CtrlInv'
  BY <1>1 DEF CtrlInv, HostMoved, Feeding
<1>6. LoadInv' /\ AccumInv' /\ SettleInv' /\ StreamInv'
  BY <1>4 DEF LoadInv, AccumInv, SettleInv, StreamInv, HostMoved
<1>7. RamInv'
  BY <1>1, <1>2, <1>4 DEF RamInv, HostMoved
<1>8. ResultsInv'
  <2>1. Emitted' = Emitted
    BY <1>2, <1>4 DEF Emitted, Feeding
  <2>2. QED
    BY <1>1, <1>4, <2>1 DEF ResultsInv, HostMoved
<1>9. LanesType' /\ ~lanes'.start /\ ~lanes'.valid
  BY <1>1, LanesTyped, LaneFields DEF TypeInv
<1>10. Issued' = Issued
  BY <1>3 DEF Issued
<1>11. PipeNow'
  BY <1>1, <1>2, <1>10, Flowing
<1>12. PipeInv'
  BY <1>9, <1>11 DEF PipeInv, Feeding
<1>13. NoLast'
  <2>1. LanesType /\ (lanes.start \/ (NoLast /\ ~(lanes.valid /\ lanes.last)))
    BY <1>1 DEF DoneInv, TypeInv
  <2>2. QED
    BY <2>1, NoLastStays
<1>14. DoneInv'
  BY <1>9, <1>13 DEF DoneInv, Feeding
<1>15. QED
  BY <1>2, <1>3, <1>5, <1>6, <1>7, <1>8, <1>9, <1>12, <1>14

\* A beat of scales fills four lanes' registers with their rows' scales of the block.
LEMMA ScalesKeeps ==
  ASSUME KernelInv, Scales
  PROVE  KernelInv'
<1>1. TypeInv /\ CtrlInv /\ FeedInv /\ WeightsInv
  BY DEF KernelInv
<1>2. fsm.state = "SCALES" /\ Feeding
  BY DEF Scales, Feeding
<1>3. HostMoved(host.wpos + BEAT, host.apos, host.results, host.tlast) /\ HostType'
  BY <1>1, FeedHost DEF Scales
<1>4. PICK f : f = [l \in Lane |-> IF l \div 4 = fsm.beat_index THEN WeightBeat[(l % 4) + 1] ELSE weights.scales[l]]
  OBVIOUS
<1>5. weights' = [scales |-> f, bits |-> weights.bits]
  <2>1. PICK s, b : weights = [scales |-> s, bits |-> b] /\ s = weights.scales /\ b = weights.bits
    BY <1>1 DEF TypeInv, DataType
  <2>2. weights' = [weights EXCEPT !.scales = f]
    BY <1>4 DEF Scales
  <2>3. weights' = [scales |-> f, bits |-> b]
    BY ONLY <2>1, <2>2
  <2>4. QED
    BY ONLY <2>1, <2>3, Zenon
<1>6. weights'.scales = f /\ weights'.bits = weights.bits
  BY <1>5
<1>7. DataType' /\ acts'.mem = acts.mem
  BY <1>1, <1>5, FeedRam DEF Scales
<1>8. PICK end \in BOOLEAN : end <=> fsm.beat_index = SCALE_BEATS - 1
  OBVIOUS
<1>9. /\ fsm.q8_index = 0 /\ fsm.beat_index \in 0 .. SCALE_BEATS - 1 /\ host.wpos = FeedAt + fsm.beat_index * BEAT
      /\ fsm.rowblock_remaining \in 1 .. Nrb /\ fsm.q1_processed \in 0 .. Bpr - 1
      /\ fsm.q1_remaining = Bpr - fsm.q1_processed
  BY <1>1, <1>2 DEF FeedInv
<1>10. /\ fsm'.state = (IF end THEN "WBITS" ELSE "SCALES") /\ fsm'.beat_index = (IF end THEN 0 ELSE fsm.beat_index + 1)
       /\ fsm'.q8_index = 0 /\ fsm'.q1_remaining = fsm.q1_remaining /\ fsm'.rowblock_remaining = fsm.rowblock_remaining
       /\ fsm'.q1_processed = fsm.q1_processed /\ fsm'.kernel_done = fsm.kernel_done
  BY <1>1, <1>2, <1>8, <1>9 DEF Scales, TypeInv, FsmType
<1>11. FsmType'
  <2>1. PICK st, b : st = fsm'.state /\ b = fsm'.beat_index /\ st \in {"SCALES", "WBITS"} /\ b \in Int
    BY <1>8, <1>9, <1>10
  <2>2. fsm' = [fsm EXCEPT !.beat_index = b, !.q8_index = 0, !.state = st] /\ FsmType
    BY <1>1, <1>2, <1>8, <1>9, <1>10, <2>1 DEF Scales, TypeInv
  <2>3. fsm' = [state |-> st, q1_remaining |-> fsm.q1_remaining, rowblock_remaining |-> fsm.rowblock_remaining,
                q8_index |-> 0, beat_index |-> b, drain_cnt |-> fsm.drain_cnt,
                emit_beat |-> fsm.emit_beat, q1_processed |-> fsm.q1_processed, load_beat |-> fsm.load_beat,
                load_q1 |-> fsm.load_q1, load_sub |-> fsm.load_sub, kernel_done |-> fsm.kernel_done]
    BY ONLY <2>2 DEF FsmType
  <2>4. QED
    BY ONLY <2>1, <2>2, <2>3 DEF FsmType
<1>12. Feeding'
  BY <1>8, <1>10 DEF Feeding
<1>13. Datapath(FALSE, FALSE, FALSE)
  BY DEF Scales, Quiet
<1>14. /\ CtrlInv' /\ LoadInv' /\ AccumInv' /\ RamInv' /\ SettleInv' /\ ResultsInv' /\ StreamInv' /\ PipeInv' /\ DoneInv'
       /\ LanesType' /\ Bpr' = Bpr /\ Nrb' = Nrb /\ Rb' = Rb /\ FeedAt' = FeedAt
  BY <1>2, <1>3, <1>7, <1>9, <1>10, <1>12, <1>13, FedOn
<1>15. TypeInv'
  BY <1>3, <1>7, <1>11, <1>14 DEF TypeInv
<1>16. FeedInv'
  <2>1. FeedAt \in Nat /\ BEAT = 4 /\ SCALES = SCALE_BEATS * 4 /\ SCALE_BEATS \in Nat /\ WBITS_BEATS \in Nat \ {0} /\ WBITS \in Nat
        /\ Q8_SUBBLOCKS \in Nat \ {0}
    BY <1>1, <1>2, FeedSizes, Sizes
  <2>2. host'.wpos = FeedAt + fsm.beat_index * 4 + 4
    BY <1>3, <1>9, <2>1 DEF HostMoved
  <2>3. CASE end
    <3>1. host'.wpos = FeedAt + SCALES + 0 * WBITS + 0 * BEAT
      <4>1. fsm.beat_index = SCALE_BEATS - 1
        BY <1>8, <2>3
      <4>2. QED
        BY ONLY <2>1, <2>2, <4>1
    <3>2. fsm'.state = "WBITS" /\ fsm'.beat_index = 0
      BY <1>10, <2>3
    <3>3. QED
      BY <1>9, <1>10, <1>14, <2>1, <3>1, <3>2 DEF FeedInv
  <2>4. CASE ~end
    <3>1. fsm'.state = "SCALES" /\ fsm'.beat_index = fsm.beat_index + 1
      BY <1>10, <2>4
    <3>2. fsm'.beat_index \in 0 .. SCALE_BEATS - 1
      <4>1. fsm.beat_index # SCALE_BEATS - 1
        BY <1>8, <2>4
      <4>2. QED
        BY ONLY <1>9, <2>1, <3>1, <4>1
    <3>3. host'.wpos = FeedAt + fsm'.beat_index * BEAT
      BY <1>9, <2>1, <2>2, <3>1
    <3>4. QED
      BY <1>9, <1>10, <1>14, <2>1, <3>1, <3>2, <3>3 DEF FeedInv
  <2>5. QED
    BY <1>8, <2>3, <2>4
<1>17. WeightsInv'
  <2>1. ASSUME NEW l \in Lane PROVE RightScale(l)' = RightScale(l)
    BY <1>3, <1>10, <1>14 DEF RightScale, RowOf, HostMoved
  <2>2. ASSUME NEW l \in Lane, l \div 4 = fsm.beat_index PROVE f[l] = RightScale(l)
    <3>1. WeightBeat[(l % 4) + 1] = RightScale(l)
      BY <1>1, <1>2, <2>2, ScalesIn
    <3>2. QED
      BY <1>4, <2>2, <3>1
  <2>3. ASSUME NEW l \in Lane, l \div 4 < fsm.beat_index PROVE f[l] = RightScale(l)
    <3>1. weights.scales[l] = RightScale(l)
      BY <1>1, <1>2, <2>3 DEF WeightsInv
    <3>2. l \div 4 # fsm.beat_index
      BY <1>9, <2>3
    <3>3. QED
      BY <1>4, <3>1, <3>2
  <2>4. ASSUME NEW l \in Lane PROVE /\ l \in Nat /\ l \div 4 \in Nat /\ l \div 4 < SCALE_BEATS /\ ~(l \div 2 < 0)
    <3>1. l \in Nat /\ l < ROWS_PER_BLOCK /\ ROWS_PER_BLOCK \in Nat /\ SCALE_BEATS \in Nat /\ ROWS_PER_BLOCK <= SCALE_BEATS * 4
      BY Sizes DEF Lane
    <3>2. QED
      BY ONLY <3>1
  <2>5. CASE end
    <3>1. fsm'.state = "WBITS" /\ fsm'.beat_index = 0
      BY <1>10, <2>5
    <3>2. ASSUME NEW l \in Lane PROVE f[l] = RightScale(l)
      <4>1. l \div 4 = fsm.beat_index \/ l \div 4 < fsm.beat_index
        <5>1. l \div 4 \in Nat /\ l \div 4 < SCALE_BEATS
          BY <2>4
        <5>2. SCALE_BEATS \in Nat /\ fsm.beat_index = SCALE_BEATS - 1
          BY <1>8, <2>5, Sizes
        <5>3. QED
          BY ONLY <5>1, <5>2
      <4>2. QED
        BY <2>2, <2>3, <4>1
    <3>3. QED
      BY <1>6, <2>1, <2>4, <3>1, <3>2 DEF WeightsInv
  <2>6. CASE ~end
    <3>1. fsm'.state = "SCALES" /\ fsm'.beat_index = fsm.beat_index + 1
      BY <1>10, <2>6
    <3>2. ASSUME NEW l \in Lane, l \div 4 < fsm.beat_index + 1 PROVE f[l] = RightScale(l)
      <4>1. l \div 4 = fsm.beat_index \/ l \div 4 < fsm.beat_index
        <5>1. l \div 4 \in Nat /\ fsm.beat_index \in Int
          BY <1>9, <2>4
        <5>2. QED
          BY ONLY <3>2, <5>1
      <4>2. QED
        BY <2>2, <2>3, <4>1
    <3>3. QED
      BY <1>6, <2>1, <3>1, <3>2 DEF WeightsInv
  <2>7. QED
    BY <1>8, <2>5, <2>6
<1>18. QED
  BY <1>14, <1>15, <1>16, <1>17 DEF KernelInv

\* A beat of masks fills two lanes' registers with their rows' masks of the sub-block.
LEMMA WbitsKeeps ==
  ASSUME KernelInv, Wbits
  PROVE  KernelInv'
<1>1. TypeInv /\ CtrlInv /\ FeedInv /\ WeightsInv
  BY DEF KernelInv
<1>2. fsm.state = "WBITS" /\ Feeding
  BY DEF Wbits, Feeding
<1>3. HostMoved(host.wpos + BEAT, host.apos, host.results, host.tlast) /\ HostType'
  BY <1>1, FeedHost DEF Wbits
<1>4. PICK f : f = [l \in Lane |-> IF l \div 2 = fsm.beat_index
                                   THEN SubSeq(WeightBeat, 2 * (l % 2) + 1, 2 * (l % 2) + 2) ELSE weights.bits[l]]
  OBVIOUS
<1>5. weights' = [scales |-> weights.scales, bits |-> f]
  <2>1. PICK s, b : weights = [scales |-> s, bits |-> b] /\ s = weights.scales /\ b = weights.bits
    BY <1>1 DEF TypeInv, DataType
  <2>2. weights' = [weights EXCEPT !.bits = f]
    BY <1>4 DEF Wbits
  <2>3. weights' = [scales |-> s, bits |-> f]
    BY ONLY <2>1, <2>2
  <2>4. QED
    BY ONLY <2>1, <2>3, Zenon
<1>6. weights'.bits = f /\ weights'.scales = weights.scales
  BY <1>5
<1>7. DataType' /\ acts'.mem = acts.mem
  BY <1>1, <1>5, FeedRam DEF Wbits
<1>8. PICK end \in BOOLEAN : end <=> fsm.beat_index = WBITS_BEATS - 1
  OBVIOUS
<1>9. /\ fsm.q8_index \in 0 .. Q8_SUBBLOCKS - 1 /\ fsm.beat_index \in 0 .. WBITS_BEATS - 1
      /\ host.wpos = FeedAt + SCALES + fsm.q8_index * WBITS + fsm.beat_index * BEAT
      /\ fsm.rowblock_remaining \in 1 .. Nrb /\ fsm.q1_processed \in 0 .. Bpr - 1
      /\ fsm.q1_remaining = Bpr - fsm.q1_processed
  BY <1>1, <1>2 DEF FeedInv
<1>10. /\ fsm'.state = (IF end THEN "ISSUE" ELSE "WBITS") /\ fsm'.beat_index = (IF end THEN 0 ELSE fsm.beat_index + 1)
       /\ fsm'.q8_index = fsm.q8_index /\ fsm'.q1_remaining = fsm.q1_remaining
       /\ fsm'.rowblock_remaining = fsm.rowblock_remaining
       /\ fsm'.q1_processed = fsm.q1_processed /\ fsm'.kernel_done = fsm.kernel_done
  BY <1>1, <1>2, <1>8, <1>9 DEF Wbits, TypeInv, FsmType
<1>11. FsmType'
  <2>1. PICK st, b : st = fsm'.state /\ b = fsm'.beat_index /\ st \in {"ISSUE", "WBITS"} /\ b \in Int
    BY <1>8, <1>9, <1>10
  <2>2. fsm' = [fsm EXCEPT !.beat_index = b, !.state = st] /\ FsmType
    BY <1>1, <1>2, <1>8, <1>9, <1>10, <2>1 DEF Wbits, TypeInv
  <2>3. fsm' = [state |-> st, q1_remaining |-> fsm.q1_remaining, rowblock_remaining |-> fsm.rowblock_remaining,
                q8_index |-> fsm.q8_index, beat_index |-> b, drain_cnt |-> fsm.drain_cnt,
                emit_beat |-> fsm.emit_beat, q1_processed |-> fsm.q1_processed, load_beat |-> fsm.load_beat,
                load_q1 |-> fsm.load_q1, load_sub |-> fsm.load_sub, kernel_done |-> fsm.kernel_done]
    BY ONLY <2>2 DEF FsmType
  <2>4. QED
    BY ONLY <2>1, <2>2, <2>3 DEF FsmType
<1>12. Feeding'
  BY <1>8, <1>10 DEF Feeding
<1>13. Datapath(FALSE, FALSE, FALSE)
  BY DEF Wbits, Quiet
<1>14. /\ CtrlInv' /\ LoadInv' /\ AccumInv' /\ RamInv' /\ SettleInv' /\ ResultsInv' /\ StreamInv' /\ PipeInv' /\ DoneInv'
       /\ LanesType' /\ Bpr' = Bpr /\ Nrb' = Nrb /\ Rb' = Rb /\ FeedAt' = FeedAt
  BY <1>2, <1>3, <1>7, <1>9, <1>10, <1>12, <1>13, FedOn
<1>15. TypeInv'
  BY <1>3, <1>7, <1>11, <1>14 DEF TypeInv
<1>16. FeedInv'
  <2>1. FeedAt \in Nat /\ BEAT = 4 /\ SCALES \in Nat /\ WBITS = WBITS_BEATS * 4 /\ WBITS_BEATS \in Nat /\ WBITS \in Nat
        /\ Q8_SUBBLOCKS \in Nat \ {0}
    BY <1>1, <1>2, FeedSizes, Sizes
  <2>2. PICK d : d = fsm.q8_index * WBITS /\ d \in Nat
    BY <1>9, WeightSize
  <2>3. host'.wpos = FeedAt + SCALES + d + fsm.beat_index * 4 + 4
    BY <1>3, <1>9, <2>1, <2>2 DEF HostMoved
  <2>4. CASE end
    <3>1. fsm'.state = "ISSUE" /\ fsm'.beat_index = 0
      BY <1>10, <2>4
    <3>2. host'.wpos = FeedAt + SCALES + d + WBITS
      <4>1. fsm.beat_index = WBITS_BEATS - 1
        BY <1>8, <2>4
      <4>2. QED
        BY ONLY <2>1, <2>2, <2>3, <4>1
    <3>3. QED
      BY <1>9, <1>10, <1>14, <2>1, <2>2, <3>1, <3>2 DEF FeedInv
  <2>5. CASE ~end
    <3>1. fsm'.state = "WBITS" /\ fsm'.beat_index = fsm.beat_index + 1
      BY <1>10, <2>5
    <3>2. fsm'.beat_index \in 0 .. WBITS_BEATS - 1
      <4>1. fsm.beat_index # WBITS_BEATS - 1
        BY <1>8, <2>5
      <4>2. fsm.beat_index \in 0 .. WBITS_BEATS - 1 /\ WBITS_BEATS \in Nat
        BY <1>9, <2>1
      <4>3. QED
        BY ONLY <3>1, <4>1, <4>2
    <3>3. host'.wpos = FeedAt + SCALES + d + fsm'.beat_index * BEAT
      BY ONLY <1>9, <2>1, <2>2, <2>3, <3>1
    <3>4. QED
      BY <1>9, <1>10, <1>14, <2>1, <2>2, <3>1, <3>2, <3>3 DEF FeedInv
  <2>6. QED
    BY <1>8, <2>4, <2>5
<1>17. WeightsInv'
  <2>1. ASSUME NEW l \in Lane PROVE RightScale(l)' = RightScale(l) /\ RightBits(l)' = RightBits(l)
    BY <1>3, <1>10, <1>14 DEF RightScale, RightBits, RowOf, HostMoved
  <2>2. ASSUME NEW l \in Lane, l \div 2 = fsm.beat_index PROVE f[l] = RightBits(l)
    <3>1. SubSeq(WeightBeat, 2 * (l % 2) + 1, 2 * (l % 2) + 2) = RightBits(l)
      BY <1>1, <1>2, <2>2, BitsIn
    <3>2. QED
      BY <1>4, <2>2, <3>1
  <2>3. ASSUME NEW l \in Lane, l \div 2 < fsm.beat_index PROVE f[l] = RightBits(l)
    <3>1. weights.bits[l] = RightBits(l)
      BY <1>1, <1>2, <2>3 DEF WeightsInv
    <3>2. l \div 2 # fsm.beat_index
      BY <1>9, <2>3
    <3>3. QED
      BY <1>4, <3>1, <3>2
  <2>4. ASSUME NEW l \in Lane PROVE /\ l \in Nat /\ l \div 2 \in Nat /\ l \div 2 < WBITS_BEATS
    <3>1. l \in Nat /\ l < ROWS_PER_BLOCK /\ ROWS_PER_BLOCK \in Nat /\ WBITS_BEATS \in Nat /\ ROWS_PER_BLOCK = 2 * WBITS_BEATS
      BY Sizes DEF Lane
    <3>2. QED
      BY ONLY <3>1
  <2>5. \A l \in Lane : weights'.scales[l] = RightScale(l)
    BY <1>1, <1>2, <1>6 DEF WeightsInv
  <2>6. CASE end
    <3>1. fsm'.state = "ISSUE"
      BY <1>10, <2>6
    <3>2. ASSUME NEW l \in Lane PROVE f[l] = RightBits(l)
      <4>1. l \div 2 = fsm.beat_index \/ l \div 2 < fsm.beat_index
        <5>1. l \div 2 \in Nat /\ l \div 2 < WBITS_BEATS
          BY <2>4
        <5>2. WBITS_BEATS \in Nat /\ fsm.beat_index = WBITS_BEATS - 1
          BY <1>8, <2>6, Sizes
        <5>3. QED
          BY ONLY <5>1, <5>2
      <4>2. QED
        BY <2>2, <2>3, <4>1
    <3>3. QED
      BY <1>6, <2>1, <2>5, <3>1, <3>2 DEF WeightsInv
  <2>7. CASE ~end
    <3>1. fsm'.state = "WBITS" /\ fsm'.beat_index = fsm.beat_index + 1
      BY <1>10, <2>7
    <3>2. ASSUME NEW l \in Lane, l \div 2 < fsm.beat_index + 1 PROVE f[l] = RightBits(l)
      <4>1. l \div 2 = fsm.beat_index \/ l \div 2 < fsm.beat_index
        <5>1. l \div 2 \in Nat /\ fsm.beat_index \in Int
          BY <1>9, <2>4
        <5>2. QED
          BY ONLY <3>2, <5>1
      <4>2. QED
        BY <2>2, <2>3, <4>1
    <3>3. QED
      BY <1>6, <2>1, <2>5, <3>1, <3>2 DEF WeightsInv
  <2>8. QED
    BY <1>8, <2>6, <2>7
<1>18. QED
  BY <1>14, <1>15, <1>16, <1>17 DEF KernelInv
-----------------------------------------------------------------------------
(* A sub-block goes to the lanes. *)

\* The operands of the clock after ST_ISSUE.
LEMMA OperandsRight ==
  ASSUME KernelInv, fsm.state = "ISSUE", acts'.q = ActsQ(acts.mem), weights' = weights
  PROVE  Operands' = Contributions[FeedSub]
<1>1. TypeInv /\ CtrlInv /\ FeedInv /\ WeightsInv /\ RamInv /\ Feeding
  BY DEF KernelInv, Feeding
<1>2. /\ host.col > 0 /\ host.shape \in Shapes /\ host.shape[1] \in Nat \ {0} /\ Rb \in Nat /\ fsm.q1_processed \in 0 .. Bpr - 1
      /\ fsm.q1_processed \in Nat /\ FeedSub \in Nat /\ FeedSub \in 0 .. Subs - 1 /\ Bpr \in Nat
  BY <1>1, FeedSizes
<1>3. fsm.q8_index \in 0 .. Q8_SUBBLOCKS - 1 /\ FeedSub = fsm.q1_processed * Q8_SUBBLOCKS + fsm.q8_index
  BY <1>1 DEF FeedInv, FeedSub
<1>4. acts'.q = ActOf(host.col, FeedSub)
  <2>1. RamIndex(fsm.q1_processed, fsm.q8_index) = FeedSub
    <3>1. PICK q, r, i : q = fsm.q1_processed /\ r = fsm.q8_index /\ i = FeedSub
      OBVIOUS
    <3>2. q \in 0 .. Bpr - 1 /\ r \in 0 .. Q8_SUBBLOCKS - 1 /\ i = q * Q8_SUBBLOCKS + r /\ HostType
      BY <1>1, <1>2, <1>3, <3>1 DEF TypeInv
    <3>3. RamIndex(q, r) = i
      BY <1>2, <3>2, SubPlace
    <3>4. QED
      BY <3>1, <3>3
  <2>2. acts.mem[FeedSub] = ActOf(host.col, FeedSub)
    BY <1>1, <1>2 DEF RamInv
  <2>3. QED
    BY <2>1, <2>2 DEF ActsQ
<1>5. ASSUME NEW l \in Lane
      PROVE  <<weights.scales[l], weights.bits[l], acts'.q>> = Term(host.shape, host.col, Rb * ROWS_PER_BLOCK + l, FeedSub)
  <2>1. weights.scales[l] = RightScale(l) /\ weights.bits[l] = RightBits(l)
    BY <1>1 DEF WeightsInv
  <2>2. PICK shape, col, row, q1, sub, i :
          /\ shape = host.shape /\ col = host.col /\ row = Rb * ROWS_PER_BLOCK + l /\ q1 = fsm.q1_processed
          /\ sub = fsm.q8_index /\ i = FeedSub
    OBVIOUS
  <2>3. row \in Nat
    <3>1. PICK rows, b : rows = host.shape[1] /\ b = Rb /\ rows \in Nat /\ b \in Nat
      BY <1>2
    <3>2. b * ROWS_PER_BLOCK + l \in Nat
      BY <3>1, RowsOfBlock
    <3>3. QED
      BY <2>2, <3>1, <3>2
  <2>4. /\ shape[1] \in Nat /\ shape[2] \in Nat /\ col \in Nat /\ q1 \in Nat /\ sub \in 0 .. Q8_SUBBLOCKS - 1
        /\ i = q1 * Q8_SUBBLOCKS + sub
    BY <1>1, <1>2, <1>3, <2>2, MatrixSizes DEF Bpr, TypeInv
  <2>5. Term(shape, col, row, i) =
           << LaneScale(shape[1], row, q1),
              <<LaneBits(shape[1], row, q1, sub, 1), LaneBits(shape[1], row, q1, sub, 2)>>,
              <<Whole(<<"acts", col, i>>, ACTS), <<<<"act_scale", col, i>>, 1, 1>>>> >>
    BY ONLY <2>3, <2>4, TermParts
  <2>6. /\ RightScale(l) = LaneScale(shape[1], row, q1)
        /\ RightBits(l) = <<LaneBits(shape[1], row, q1, sub, 1), LaneBits(shape[1], row, q1, sub, 2)>>
        /\ ActOf(host.col, FeedSub) = <<Whole(<<"acts", col, i>>, ACTS), <<<<"act_scale", col, i>>, 1, 1>>>>
    BY ONLY <2>2, Zenon DEF RightScale, RightBits, RowOf, ActOf
  <2>7. QED
    BY ONLY <1>4, <2>1, <2>2, <2>5, <2>6, Zenon
<1>6. Contributions[FeedSub] = [l \in Lane |-> Term(host.shape, host.col, Rb * ROWS_PER_BLOCK + l, FeedSub)]
  BY <1>2, Zenon DEF Contributions, Contribution
<1>7. Operands' = [l \in Lane |-> <<weights.scales[l], weights.bits[l], acts'.q>>]
  BY Zenon DEF Operands
<1>8. QED
  BY <1>5, <1>6, <1>7, Zenon

\* Where the stream is after a sub-block.
LEMMA FeedEnds ==
  ASSUME NEW b \in Nat, NEW n \in Nat, NEW q \in Nat, NEW f, f = (b * n + q) * PACKED_PER_Q1_BLOCK,
         NEW w, w = f + SCALES + LAST_SUB * WBITS + WBITS
  PROVE  w = (b * n + (q + 1)) * PACKED_PER_Q1_BLOCK /\ (q + 1 = n => w = ((b + 1) * n) * PACKED_PER_Q1_BLOCK)
<1>. DEFINE P == PACKED_PER_Q1_BLOCK
            x == b * n
            d == LAST_SUB * WBITS
<1>1. P \in Nat /\ SCALES \in Nat /\ WBITS \in Nat /\ Q8_SUBBLOCKS \in Nat \ {0} /\ LAST_SUB = Q8_SUBBLOCKS - 1
  BY WeightSize, Sizes
<1>2. x \in Nat /\ (b + 1) * n = x + n
  BY MulMono, MulNext
<1>3. d \in Int /\ Q8_SUBBLOCKS * WBITS = d + WBITS
  <2>1. LAST_SUB \in Int /\ LAST_SUB + 1 = Q8_SUBBLOCKS /\ WBITS \in Int
    BY <1>1
  <2>2. (LAST_SUB + 1) * WBITS = LAST_SUB * WBITS + WBITS /\ LAST_SUB * WBITS \in Int
    BY ONLY <2>1, MulNext
  <2>3. QED
    BY <2>1, <2>2
<1>4. P = SCALES + (d + WBITS)
  BY <1>3 DEF PACKED_PER_Q1_BLOCK
<1>. HIDE DEF P, x, d
<1>5. f = (x + q) * P /\ w = f + SCALES + d + WBITS
  BY DEF P, x, d
<1>6. ((x + q) + 1) * P = (x + q) * P + P /\ (x + q) * P \in Int
  BY <1>1, <1>2, x + q \in Int, P \in Int, MulNext
<1>7. w = ((x + q) + 1) * P
  <2>1. PICK y : y = (x + q) * P /\ y \in Int
    BY <1>6
  <2>2. QED
    BY ONLY <1>1, <1>3, <1>4, <1>5, <1>6, <2>1
<1>8. (x + q) + 1 = x + (q + 1)
  BY <1>2
<1>9. w = (x + (q + 1)) * P
  BY <1>7, <1>8
<1>10. q + 1 = n => w = ((b + 1) * n) * P
  BY <1>2, <1>9
<1>11. QED
  BY <1>9, <1>10 DEF P, x

\* A sub-block is issued once, in its turn, with the operands of its rows and its activations.
LEMMA IssueKeeps ==
  ASSUME KernelInv, Issue
  PROVE  KernelInv'
<1>1. TypeInv /\ CtrlInv /\ FeedInv /\ WeightsInv /\ RamInv /\ ResultsInv /\ PipeInv /\ DoneInv
  BY DEF KernelInv
<1>2. fsm.state = "ISSUE" /\ Feeding /\ ~lanes.start
  BY <1>1 DEF Issue, Feeding, PipeInv
<1>3. HostKept /\ HostType'
  BY <1>1, HostKeeps DEF Issue
<1>4. DataType' /\ acts'.mem = acts.mem /\ acts'.q = ActsQ(acts.mem) /\ weights' = weights
  BY <1>1, RamKeeps DEF Issue
<1>5. PICK sub \in BOOLEAN, q1 \in BOOLEAN : (sub <=> fsm.q8_index = LAST_SUB) /\ (q1 <=> fsm.q1_remaining = 1)
  OBVIOUS
<1>6. /\ fsm.q8_index \in 0 .. Q8_SUBBLOCKS - 1 /\ fsm.beat_index = 0
      /\ host.wpos = FeedAt + SCALES + fsm.q8_index * WBITS + WBITS
      /\ fsm.rowblock_remaining \in 1 .. Nrb /\ fsm.q1_processed \in 0 .. Bpr - 1
      /\ fsm.q1_remaining = Bpr - fsm.q1_processed
  BY <1>1, <1>2 DEF FeedInv
<1>7. /\ fsm'.q8_index = (IF sub THEN 0 ELSE fsm.q8_index + 1)
      /\ fsm'.q1_remaining = (IF sub /\ ~q1 THEN fsm.q1_remaining - 1 ELSE fsm.q1_remaining)
      /\ fsm'.q1_processed = (IF sub /\ ~q1 THEN fsm.q1_processed + 1 ELSE fsm.q1_processed)
      /\ fsm'.state = (IF ~sub THEN "WBITS" ELSE IF q1 THEN "WAIT_DONE" ELSE "SCALES")
      /\ fsm'.beat_index = 0 /\ fsm'.rowblock_remaining = fsm.rowblock_remaining /\ fsm'.kernel_done = fsm.kernel_done
  BY <1>1, <1>2, <1>5, <1>6 DEF Issue, TypeInv, FsmType
<1>8. FsmType'
  <2>1. PICK st, i, r, p : /\ st = fsm'.state /\ i = fsm'.q8_index /\ r = fsm'.q1_remaining /\ p = fsm'.q1_processed
                           /\ st \in {"WBITS", "WAIT_DONE", "SCALES"} /\ i \in Int /\ r \in Int /\ p \in Int
    <3>1. fsm.q8_index \in Int /\ fsm.q1_remaining \in Int /\ fsm.q1_processed \in Int
      BY <1>1 DEF TypeInv, FsmType
    <3>2. QED
      BY <1>7, <3>1
  <2>2. fsm' = [fsm EXCEPT !.q8_index = i, !.q1_remaining = r, !.q1_processed = p, !.state = st] /\ FsmType
    BY <1>1, <1>2, <1>5, <1>7, <2>1 DEF Issue, TypeInv
  <2>3. fsm' = [state |-> st, q1_remaining |-> r, rowblock_remaining |-> fsm.rowblock_remaining,
                q8_index |-> i, beat_index |-> fsm.beat_index, drain_cnt |-> fsm.drain_cnt,
                emit_beat |-> fsm.emit_beat, q1_processed |-> p, load_beat |-> fsm.load_beat,
                load_q1 |-> fsm.load_q1, load_sub |-> fsm.load_sub, kernel_done |-> fsm.kernel_done]
    BY ONLY <2>2 DEF FsmType
  <2>4. QED
    BY ONLY <2>1, <2>2, <2>3 DEF FsmType
<1>9. Datapath(FALSE, TRUE, LastIssue) /\ LastIssue \in BOOLEAN /\ (LastIssue <=> sub /\ q1)
  BY <1>5 DEF Issue, LastIssue
<1>10. LanesType' /\ ~lanes'.start /\ lanes'.valid = TRUE /\ lanes'.last = LastIssue
  BY <1>1, <1>9, LanesTyped, LaneFields DEF TypeInv
<1>11. TypeInv'
  BY <1>3, <1>4, <1>8, <1>10 DEF TypeInv
<1>12. Bpr' = Bpr /\ Subs' = Subs /\ Nrb' = Nrb /\ Rb' = Rb /\ Contributions' = Contributions
  BY <1>3, <1>7, SameMatrix, SameRowblock DEF HostKept
<1>13. ~Loading' /\ ~Finished' /\ ~Finished /\ (Feeding' <=> ~(sub /\ q1)) /\ (Settling' <=> sub /\ q1)
  BY <1>2, <1>7 DEF Loading, Feeding, Settling, Finished
<1>14. CtrlInv'
  BY <1>1, <1>2, <1>3, <1>7 DEF CtrlInv, HostKept
<1>15. LoadInv' /\ AccumInv' /\ StreamInv'
  BY <1>3, <1>13 DEF LoadInv, AccumInv, StreamInv, HostKept
<1>16. RamInv'
  BY <1>1, <1>2, <1>3, <1>4, <1>12, <1>13 DEF RamInv, HostKept
<1>17. ResultsInv'
  <2>1. Emitted' = Emitted
    <3>1. fsm'.state # "EMIT"
      BY <1>7
    <3>2. Feeding' \/ Settling'
      BY <1>13
    <3>3. QED
      BY <1>2, <1>12, <1>13, <3>1, <3>2 DEF Emitted
  <2>2. QED
    BY <1>1, <1>3, <1>13, <2>1 DEF ResultsInv, HostKept
<1>18. /\ FeedAt \in Nat /\ FeedSub \in Nat /\ Rb \in Nat /\ Bpr \in Nat \ {0} /\ fsm.q1_processed \in Nat
       /\ Q8_SUBBLOCKS \in Nat \ {0} /\ LAST_SUB = Q8_SUBBLOCKS - 1 /\ WBITS \in Nat /\ SCALES \in Nat /\ BEAT = 4
       /\ host.col > 0
  BY <1>1, <1>2, FeedSizes, Sizes
<1>19. /\ sub => FeedSub + 1 = (fsm.q1_processed + 1) * Q8_SUBBLOCKS
       /\ sub /\ q1 => FeedSub + 1 = Subs
  <2>1. PICK q, r, i : q = fsm.q1_processed /\ r = fsm.q8_index /\ i = FeedSub
    OBVIOUS
  <2>2. q \in 0 .. Bpr - 1 /\ r \in 0 .. Q8_SUBBLOCKS - 1 /\ i = q * Q8_SUBBLOCKS + r /\ HostType
    BY <1>1, <1>6, <2>1 DEF FeedSub, TypeInv
  <2>3. /\ r = LAST_SUB => i + 1 = (q + 1) * Q8_SUBBLOCKS
        /\ r = LAST_SUB /\ q + 1 = Bpr => i + 1 = Subs
    BY <1>18, <2>2, SubPlace
  <2>4. q1 => q + 1 = Bpr
    BY <1>5, <1>6, <1>18, <2>1
  <2>5. QED
    BY <1>5, <2>1, <2>3, <2>4
<1>20. Issued = FeedSub /\ Issued' = Issued + 1
  <2>1. Issued = FeedSub
    BY <1>2 DEF Issued
  <2>2. CASE ~sub
    <3>1. FeedSub' = fsm.q1_processed * Q8_SUBBLOCKS + (fsm.q8_index + 1) /\ FeedSub = fsm.q1_processed * Q8_SUBBLOCKS + fsm.q8_index
      BY <1>7, <2>2 DEF FeedSub
    <3>2. fsm.q8_index \in Int /\ fsm.q1_processed * Q8_SUBBLOCKS \in Nat
      BY <1>6, <1>18, MulMono
    <3>3. FeedSub' = FeedSub + 1
      BY ONLY <3>1, <3>2
    <3>4. QED
      BY <1>13, <2>1, <2>2, <3>3 DEF Issued
  <2>3. CASE sub /\ ~q1
    <3>1. FeedSub' = (fsm.q1_processed + 1) * Q8_SUBBLOCKS + 0
      BY <1>7, <2>3 DEF FeedSub
    <3>2. FeedSub' = FeedSub + 1
      BY <1>18, <1>19, <2>3, <3>1
    <3>3. QED
      BY <1>13, <2>1, <2>3, <3>2 DEF Issued
  <2>4. CASE sub /\ q1
    BY <1>12, <1>13, <1>19, <2>1, <2>4 DEF Issued
  <2>5. QED
    BY <1>5, <2>1, <2>2, <2>3, <2>4
<1>21. PipeNow'
  <2>1. Operands' = Contributions[Issued]
    BY <1>2, <1>4, <1>20, OperandsRight
  <2>2. LanesType /\ Issued' = Issued + (IF TRUE THEN 1 ELSE 0)
    BY <1>1, <1>20 DEF TypeInv
  <2>3. QED
    BY <1>1, <1>2, <1>9, <1>12, <2>1, <2>2, Flows
<1>22. PipeInv'
  <2>1. fsm'.state # "DRAIN" /\ (Feeding' \/ fsm'.state = "WAIT_DONE")
    BY <1>7, <1>13
  <2>2. QED
    BY <1>10, <1>21, <2>1 DEF PipeInv
<1>23. DoneInv'
  <2>1. LanesType /\ (lanes.start \/ (NoLast /\ ~(lanes.valid /\ lanes.last)))
    BY <1>1, <1>2 DEF DoneInv, TypeInv
  <2>2. NoLast'
    BY <1>9, <2>1, NoLastStays
  <2>3. Feeding' => ~lanes'.last
    BY <1>9, <1>10, <1>13
  <2>4. QED
    BY <2>2, <2>3 DEF DoneInv, NoLast
<1>24. FeedInv'
  <2>1. CASE ~sub
    <3>1. fsm'.state = "WBITS" /\ fsm'.q8_index = fsm.q8_index + 1 /\ fsm'.q1_processed = fsm.q1_processed
          /\ fsm'.q1_remaining = fsm.q1_remaining
      BY <1>7, <2>1
    <3>2. fsm'.q8_index \in 0 .. Q8_SUBBLOCKS - 1
      <4>1. fsm.q8_index # Q8_SUBBLOCKS - 1
        BY <1>5, <1>18, <2>1
      <4>2. fsm.q8_index \in 0 .. Q8_SUBBLOCKS - 1 /\ Q8_SUBBLOCKS \in Nat
        BY <1>6, <1>18
      <4>3. QED
        BY ONLY <3>1, <4>1, <4>2
    <3>3. FeedAt' = FeedAt
      BY <1>12, <3>1 DEF FeedAt
    <3>4. host'.wpos = FeedAt' + SCALES + fsm'.q8_index * WBITS + fsm'.beat_index * BEAT
      <4>1. (fsm.q8_index + 1) * WBITS = fsm.q8_index * WBITS + WBITS /\ fsm.q8_index * WBITS \in Int
        BY <1>6, <1>18, fsm.q8_index \in Int, WBITS \in Int, MulNext
      <4>2. PICK x, y : x = fsm.q8_index * WBITS /\ y = fsm'.q8_index * WBITS /\ x \in Int /\ y = x + WBITS
        BY <3>1, <4>1
      <4>3. host'.wpos = FeedAt + SCALES + x + WBITS
        BY <1>3, <1>6, <4>2 DEF HostKept
      <4>4. fsm'.beat_index * BEAT = 0
        BY <1>7, <1>18
      <4>5. host'.wpos = FeedAt + SCALES + y + 0
        BY ONLY <1>18, <4>2, <4>3
      <4>6. QED
        BY <3>3, <4>2, <4>4, <4>5
    <3>5. 0 \in 0 .. WBITS_BEATS - 1
      BY Sizes
    <3>6. QED
      BY <1>6, <1>7, <1>12, <3>1, <3>2, <3>4, <3>5 DEF FeedInv
  <2>2. CASE sub /\ ~q1
    <3>1. fsm'.state = "SCALES" /\ fsm'.q8_index = 0 /\ fsm'.q1_processed = fsm.q1_processed + 1
          /\ fsm'.q1_remaining = fsm.q1_remaining - 1
      BY <1>7, <2>2
    <3>2. fsm'.q1_processed \in 0 .. Bpr - 1 /\ fsm'.q1_remaining = Bpr - fsm'.q1_processed
      <4>1. fsm.q1_remaining # 1
        BY <1>5, <2>2
      <4>2. /\ fsm.q1_processed \in 0 .. Bpr - 1 /\ fsm.q1_remaining = Bpr - fsm.q1_processed /\ Bpr \in Nat
            /\ fsm'.q1_processed = fsm.q1_processed + 1 /\ fsm'.q1_remaining = fsm.q1_remaining - 1
        BY <1>6, <1>18, <3>1
      <4>3. QED
        BY ONLY <4>1, <4>2
    <3>3. host'.wpos = FeedAt' + fsm'.beat_index * BEAT
      <4>1. PICK b, n, q, f, w : b = Rb /\ n = Bpr /\ q = fsm.q1_processed /\ f = FeedAt /\ w = host.wpos
        OBVIOUS
      <4>2. b \in Nat /\ n \in Nat /\ q \in Nat /\ f = (b * n + q) * PACKED_PER_Q1_BLOCK
            /\ w = f + SCALES + LAST_SUB * WBITS + WBITS
        BY <1>5, <1>6, <1>18, <2>2, <4>1 DEF FeedAt
      <4>3. w = (b * n + (q + 1)) * PACKED_PER_Q1_BLOCK
        BY ONLY <4>2, FeedEnds
      <4>4. FeedAt' = (b * n + (q + 1)) * PACKED_PER_Q1_BLOCK
        BY <1>12, <3>1, <4>1 DEF FeedAt
      <4>5. fsm'.beat_index * BEAT = 0 /\ host'.wpos = w /\ w \in Int
        BY <1>1, <1>3, <1>7, <1>18, <4>1 DEF HostKept, TypeInv, HostType
      <4>6. QED
        BY ONLY <4>3, <4>4, <4>5
    <3>4. 0 \in 0 .. SCALE_BEATS - 1 /\ 0 \in 0 .. Q8_SUBBLOCKS - 1
      BY Sizes
    <3>5. QED
      BY <1>6, <1>7, <1>12, <3>1, <3>2, <3>3, <3>4 DEF FeedInv
  <2>3. CASE sub /\ q1
    BY <1>13, <2>3 DEF FeedInv
  <2>4. QED
    BY <1>5, <2>1, <2>2, <2>3
<1>25. WeightsInv'
  <2>1. \A l \in Lane : ~(l \div 4 < 0) /\ ~(l \div 2 < 0)
    BY Sizes DEF Lane
  <2>2. CASE ~sub
    <3>1. fsm'.state = "WBITS" /\ fsm'.q1_processed = fsm.q1_processed /\ fsm'.beat_index = 0
      BY <1>7, <2>2
    <3>2. \A l \in Lane : weights.scales[l] = RightScale(l)
      BY <1>1, <1>2 DEF WeightsInv
    <3>3. ASSUME NEW l \in Lane PROVE RightScale(l)' = RightScale(l)
      BY <1>3, <1>12, <3>1 DEF RightScale, RowOf, HostKept
    <3>4. QED
      BY <1>4, <2>1, <3>1, <3>2, <3>3 DEF WeightsInv
  <2>3. CASE sub /\ ~q1
    <3>1. fsm'.state = "SCALES" /\ fsm'.beat_index = 0
      BY <1>7, <2>3
    <3>2. QED
      BY <2>1, <3>1 DEF WeightsInv
  <2>4. CASE sub /\ q1
    BY <1>13, <2>4 DEF WeightsInv
  <2>5. QED
    BY <1>5, <2>2, <2>3, <2>4
<1>26. SettleInv'
  <2>1. CASE sub /\ q1
    <3>1. fsm'.state = "WAIT_DONE"
      BY <1>7, <2>1
    <3>2. host'.wpos = ((Rb + 1) * Bpr) * PACKED_PER_Q1_BLOCK
      <4>1. PICK b, n, q, f, w : b = Rb /\ n = Bpr /\ q = fsm.q1_processed /\ f = FeedAt /\ w = host.wpos
        OBVIOUS
      <4>2. b \in Nat /\ n \in Nat /\ q \in Nat /\ f = (b * n + q) * PACKED_PER_Q1_BLOCK
            /\ w = f + SCALES + LAST_SUB * WBITS + WBITS
        BY <1>5, <1>6, <1>18, <2>1, <4>1 DEF FeedAt
      <4>3. q + 1 = n
        BY <1>5, <1>6, <1>18, <2>1, <4>1
      <4>4. w = ((b + 1) * n) * PACKED_PER_Q1_BLOCK
        BY ONLY <4>2, <4>3, FeedEnds
      <4>5. host'.wpos = w
        BY <1>3, <4>1 DEF HostKept
      <4>6. QED
        BY <4>1, <4>4, <4>5
    <3>3. QED
      BY <1>6, <1>7, <1>12, <3>1, <3>2 DEF SettleInv
  <2>2. CASE ~(sub /\ q1)
    BY <1>13, <2>2 DEF SettleInv
  <2>3. QED
    BY <2>1, <2>2
<1>27. QED
  BY <1>11, <1>14, <1>15, <1>16, <1>17, <1>22, <1>23, <1>24, <1>25, <1>26 DEF KernelInv
-----------------------------------------------------------------------------
(* The sums leave. *)

\* A sequence given by its elements, and two more of them.
LEMMA TwoMore ==
  ASSUME NEW m \in Nat, NEW f, NEW s, s = [i \in 1 .. m |-> f[i]]
  PROVE  s \o <<f[m + 1], f[m + 2]>> = [i \in 1 .. m + 2 |-> f[i]]
<1>. DEFINE S == {f[i] : i \in 1 .. m + 2}
            u == <<f[m + 1], f[m + 2]>>
            t == s \o u
            g == [i \in 1 .. m + 2 |-> f[i]]
<1>1. \A i \in 1 .. m + 2 : f[i] \in S
  OBVIOUS
<1>2. m + 1 \in 1 .. m + 2 /\ m + 2 \in 1 .. m + 2 /\ \A i \in 1 .. m : i \in 1 .. m + 2
  OBVIOUS
<1>. HIDE DEF S
<1>3. s \in [1 .. m -> S] /\ \A i \in 1 .. m : s[i] = f[i]
  BY <1>1, <1>2
<1>4. s \in Seq(S) /\ Len(s) = m
  BY <1>3
<1>5. f[m + 1] \in S /\ f[m + 2] \in S
  BY <1>1, <1>2
<1>6. u \in Seq(S) /\ Len(u) = 2 /\ u[1] = f[m + 1] /\ u[2] = f[m + 2]
  BY <1>5
<1>7. g \in [1 .. m + 2 -> S] /\ \A i \in 1 .. m + 2 : g[i] = f[i]
  BY <1>1
<1>. HIDE DEF g, u
<1>8. g \in Seq(S) /\ Len(g) = m + 2
  BY <1>7
<1>9. t \in Seq(S) /\ Len(t) = m + 2
  <2>1. t \in Seq(S) /\ Len(t) = Len(s) + Len(u)
    BY <1>4, <1>6, ConcatProperties
  <2>2. QED
    BY <1>4, <1>6, <2>1
<1>10. /\ \A k \in 1 .. Len(s) : t[k] = s[k]
       /\ \A k \in 1 .. Len(u) : t[Len(s) + k] = u[k]
  <2>1. s \in Seq(S) /\ u \in Seq(S)
    BY <1>4, <1>6
  <2>2. QED
    BY ONLY <2>1, ConcatPlaces
<1>. HIDE DEF t
<1>11. ASSUME NEW k \in 1 .. m + 2 PROVE t[k] = g[k]
  <2>1. k \in 1 .. m \/ k = m + 1 \/ k = m + 2
    OBVIOUS
  <2>2. CASE k \in 1 .. m
    BY <1>3, <1>4, <1>7, <1>10, <2>2
  <2>3. 1 \in 1 .. Len(u) /\ 2 \in 1 .. Len(u)
    BY <1>6
  <2>4. t[m + 1] = u[1] /\ t[m + 2] = u[2]
    BY <1>4, <1>10, <2>3
  <2>5. QED
    BY <1>6, <1>7, <2>1, <2>2, <2>4
<1>12. t = g
  BY <1>8, <1>9, <1>11, SeqEqual
<1>13. QED
  BY <1>12 DEF t, u, g

\* An empty pipeline: the sums are whole.
LEMMA SumsWhole ==
  ASSUME TypeInv, CtrlInv, PipeInv, fsm.state = "EMIT", NEW l \in Lane
  PROVE  lanes.acc[l] = RowSum(host.shape, host.col, Rb * ROWS_PER_BLOCK + l)
<1>1. Settling /\ ~Feeding /\ ~lanes.start
  BY DEF Settling, Feeding, PipeInv
<1>2. ~lanes.valid /\ lanes.s1 = Bubble /\ lanes.s2 = Bubble /\ lanes.out = Bubble
  BY <1>1 DEF PipeInv, Empty
<1>3. Pipe(Subs, Contributions, lanes.acc, lanes.out, lanes.s2, lanes.s1, lanes.valid, Operands)
  BY <1>1, Zenon DEF PipeInv, PipeNow, Issued
<1>4. PICK C, n : C = Contributions /\ n = Subs
  OBVIOUS
<1>5. PICK m \in Nat :
        /\ n = m + Filled(lanes.out) + Filled(lanes.s2) + Filled(lanes.s1) + (IF lanes.valid THEN 1 ELSE 0)
        /\ lanes.acc = [k \in Lane |-> [i \in 1 .. m |-> C[i - 1][k]]]
        /\ lanes.out # Bubble => lanes.out = C[m]
        /\ lanes.s2 # Bubble => lanes.s2 = C[m + Filled(lanes.out)]
        /\ lanes.s1 # Bubble => lanes.s1 = C[m + Filled(lanes.out) + Filled(lanes.s2)]
        /\ lanes.valid => Operands = C[n - 1]
  <2>1. Pipe(n, C, lanes.acc, lanes.out, lanes.s2, lanes.s1, lanes.valid, Operands)
    BY ONLY <1>3, <1>4, Zenon
  <2>2. QED
    BY ONLY <2>1, Zenon DEF Pipe
<1>6. m = n
  <2>1. Filled(lanes.out) = 0 /\ Filled(lanes.s2) = 0 /\ Filled(lanes.s1) = 0
    BY <1>2 DEF Filled
  <2>2. QED
    BY <1>2, <1>5, <2>1
<1>7. lanes.acc[l] = [i \in 1 .. n |-> C[i - 1][l]]
  <2>1. lanes.acc = [k \in Lane |-> [i \in 1 .. m |-> C[i - 1][k]]]
    BY <1>5
  <2>2. lanes.acc[l] = [i \in 1 .. m |-> C[i - 1][l]]
    BY ONLY <2>1, l \in Lane, Zenon
  <2>3. QED
    BY ONLY <1>6, <2>2, Zenon
<1>8. ASSUME NEW i \in 1 .. n PROVE C[i - 1][l] = Term(host.shape, host.col, Rb * ROWS_PER_BLOCK + l, i - 1)
  <2>1. i - 1 \in 0 .. Subs - 1
    <3>1. Subs \in Nat
      BY MatrixSizes DEF CtrlInv, TypeInv
    <3>2. QED
      BY ONLY <1>4, <3>1, i \in 1 .. n
  <2>2. C[i - 1] = Contribution(i - 1)
    BY <1>4, <2>1, Zenon DEF Contributions
  <2>3. Contribution(i - 1)[l] = Term(host.shape, host.col, Rb * ROWS_PER_BLOCK + l, i - 1)
    BY Zenon DEF Contribution
  <2>4. QED
    BY <2>2, <2>3
<1>9. lanes.acc[l] = [i \in 1 .. n |-> Term(host.shape, host.col, Rb * ROWS_PER_BLOCK + l, i - 1)]
  BY <1>7, <1>8, Zenon
<1>10. n = host.shape[2] * Q8_SUBBLOCKS
  BY <1>4 DEF Subs, Bpr
<1>11. QED
  BY <1>9, <1>10, Zenon DEF RowSum

\* Results are taken.
LEMMA EmitHost ==
  ASSUME TypeInv, NEW r, NEW t \in BOOLEAN, host' = [Latched(host) EXCEPT !.results = r, !.tlast = t]
  PROVE  HostMoved(host.wpos, host.apos, r, t) /\ HostType'
<1>1. PICK d, g, y, h : /\ d = (~host.strobe /\ (host.done \/ fsm.kernel_done)) /\ g = Latched(host)
                        /\ y = FALSE /\ h = host'
  OBVIOUS
<1>2. g = [shape |-> host.shape, col |-> host.col, wpos |-> host.wpos, apos |-> host.apos,
           results |-> host.results, tlast |-> host.tlast, strobe |-> y, done |-> d]
  BY <1>1, LatchedIs, Zenon DEF TypeInv
<1>3. PICK x : x = t
  OBVIOUS
<1>4. h = [g EXCEPT !.results = r, !.tlast = x]
  BY <1>1, <1>3, Zenon
<1>5. h = [shape |-> host.shape, col |-> host.col, wpos |-> host.wpos, apos |-> host.apos,
           results |-> r, tlast |-> x, strobe |-> y, done |-> d]
  BY ONLY <1>2, <1>4
<1>6. HostTo(host.wpos, host.apos, r, t)
  BY ONLY <1>1, <1>3, <1>5, Zenon DEF HostTo
<1>7. host.wpos \in Int /\ host.apos \in Int
  BY DEF TypeInv, HostType
<1>8. QED
  BY <1>6, <1>7, HostMoves, Zenon

\* Two results more.
LEMMA TwoResults ==
  ASSUME TypeInv, CtrlInv, PipeInv, SettleInv, ResultsInv, fsm.state = "EMIT"
  PROVE  /\ Rb \in Nat /\ Rb < Nrb /\ Rb * ROWS_PER_BLOCK \in Nat
         /\ host.results \o <<lanes.acc[2 * fsm.emit_beat], lanes.acc[2 * fsm.emit_beat + 1]>> =
              [i \in 1 .. Rb * ROWS_PER_BLOCK + 2 * fsm.emit_beat + 2 |-> RowSum(host.shape, host.col, i - 1)]
<1>1. Settling /\ ~Feeding /\ ~Finished /\ host.col > 0 /\ HostType
  BY DEF Settling, Feeding, Finished, CtrlInv, TypeInv
<1>2. Nrb \in Nat /\ ROWS_PER_BLOCK \in Nat /\ EMIT_BEATS = WBITS_BEATS /\ ROWS_PER_BLOCK = 2 * WBITS_BEATS /\ WBITS_BEATS \in Nat
  BY <1>1, MatrixSizes, Sizes
<1>3. fsm.rowblock_remaining \in 1 .. Nrb /\ fsm.emit_beat \in 0 .. EMIT_BEATS - 1
  BY <1>1 DEF SettleInv
<1>4. Rb \in Nat /\ Rb < Nrb
  BY <1>2, <1>3 DEF Rb
<1>5. PICK p, e : p = Rb * ROWS_PER_BLOCK /\ e = fsm.emit_beat /\ p \in Nat
  BY <1>2, <1>4, MulMono
<1>6. PICK m : m = p + 2 * e
  OBVIOUS
<1>7. m \in Nat /\ 2 * e \in Lane /\ 2 * e + 1 \in Lane /\ e \in Nat
  BY <1>2, <1>3, <1>5, <1>6 DEF Lane
<1>8. PICK f : f = [i \in 1 .. m + 2 |-> RowSum(host.shape, host.col, i - 1)]
  OBVIOUS
<1>9. host.results = [i \in 1 .. m |-> f[i]]
  <2>1. Emitted = m
    BY <1>1, <1>5, <1>6 DEF Emitted
  <2>2. host.results = [i \in 1 .. m |-> RowSum(host.shape, host.col, i - 1)]
    BY <2>1, Zenon DEF ResultsInv
  <2>3. \A i \in 1 .. m : i \in 1 .. m + 2
    BY <1>7
  <2>4. \A i \in 1 .. m : f[i] = RowSum(host.shape, host.col, i - 1)
    BY <1>8, <2>3, Zenon
  <2>5. QED
    BY <2>2, <2>4, Zenon
<1>10. lanes.acc[2 * e] = f[m + 1] /\ lanes.acc[2 * e + 1] = f[m + 2]
  <2>1. lanes.acc[2 * e] = RowSum(host.shape, host.col, p + 2 * e)
    BY <1>5, <1>7, SumsWhole
  <2>2. lanes.acc[2 * e + 1] = RowSum(host.shape, host.col, p + (2 * e + 1))
    BY <1>5, <1>7, SumsWhole
  <2>3. /\ m + 1 \in 1 .. m + 2 /\ m + 2 \in 1 .. m + 2 /\ (m + 1) - 1 = p + 2 * e /\ (m + 2) - 1 = p + (2 * e + 1)
    BY <1>5, <1>6, <1>7
  <2>4. f[m + 1] = RowSum(host.shape, host.col, (m + 1) - 1) /\ f[m + 2] = RowSum(host.shape, host.col, (m + 2) - 1)
    BY <1>8, <2>3, Zenon
  <2>5. QED
    BY ONLY <2>1, <2>2, <2>3, <2>4, Zenon
<1>11. PICK s : s = host.results
  OBVIOUS
<1>12. s \o <<f[m + 1], f[m + 2]>> = [i \in 1 .. m + 2 |-> f[i]]
  BY <1>7, <1>9, <1>11, TwoMore
<1>13. [i \in 1 .. m + 2 |-> f[i]] = [i \in 1 .. m + 2 |-> RowSum(host.shape, host.col, i - 1)]
  <2>1. \A i \in 1 .. m + 2 : f[i] = RowSum(host.shape, host.col, i - 1)
    BY <1>8, Zenon
  <2>2. QED
    BY <2>1, Zenon
<1>14. host.results \o <<lanes.acc[2 * fsm.emit_beat], lanes.acc[2 * fsm.emit_beat + 1]>> =
         [i \in 1 .. m + 2 |-> RowSum(host.shape, host.col, i - 1)]
  BY ONLY <1>5, <1>10, <1>11, <1>12, <1>13, Zenon
<1>15. QED
  BY ONLY <1>4, <1>5, <1>6, <1>14, Zenon

\* Two sums leave, both whole; after the last two the next rowblock starts, or the kernel ends.
LEMMA EmitKeeps ==
  ASSUME KernelInv, Emit
  PROVE  KernelInv'
<1>1. TypeInv /\ CtrlInv /\ FeedInv /\ RamInv /\ ResultsInv /\ PipeInv /\ SettleInv
  BY DEF KernelInv
<1>2. fsm.state = "EMIT" /\ Settling /\ ~Feeding /\ ~Finished /\ host.col > 0
  BY <1>1 DEF Emit, Feeding, Settling, Finished, CtrlInv
<1>3. PICK final \in BOOLEAN, end \in BOOLEAN :
        (final <=> fsm.emit_beat = EMIT_BEATS - 1) /\ (end <=> final /\ fsm.rowblock_remaining = 1)
  <2>1. PICK la \in BOOLEAN : la <=> fsm.emit_beat = EMIT_BEATS - 1
    OBVIOUS
  <2>2. PICK en \in BOOLEAN : en <=> la /\ fsm.rowblock_remaining = 1
    OBVIOUS
  <2>3. QED
    BY <2>1, <2>2
<1>4. PICK r, p, e : /\ r = host.results \o <<lanes.acc[2 * fsm.emit_beat], lanes.acc[2 * fsm.emit_beat + 1]>>
                     /\ p = Rb * ROWS_PER_BLOCK /\ e = fsm.emit_beat
  OBVIOUS
<1>5. HostMoved(host.wpos, host.apos, r, end) /\ HostType'
  <2>1. PICK x : x = (fsm.emit_beat = EMIT_BEATS - 1 /\ fsm.rowblock_remaining = 1)
    OBVIOUS
  <2>2. host' = [Latched(host) EXCEPT !.results = r, !.tlast = x]
    <3>1. PICK g : g = Latched(host)
      OBVIOUS
    <3>2. g.results = host.results
      <4>1. g = [shape |-> host.shape, col |-> host.col, wpos |-> host.wpos, apos |-> host.apos,
                 results |-> host.results, tlast |-> host.tlast, strobe |-> FALSE,
                 done |-> ~host.strobe /\ (host.done \/ fsm.kernel_done)]
        BY <1>1, <3>1, LatchedIs, Zenon DEF TypeInv
      <4>2. QED
        BY ONLY <4>1
    <3>3. host' = [g EXCEPT !.results = g.results \o <<lanes.acc[2 * fsm.emit_beat], lanes.acc[2 * fsm.emit_beat + 1]>>,
                            !.tlast = x]
      BY <2>1, <3>1, Zenon DEF Emit
    <3>4. QED
      BY ONLY <1>4, <3>1, <3>2, <3>3, Zenon
  <2>3. x = end /\ x \in BOOLEAN
    BY <1>3, <2>1
  <2>4. HostMoved(host.wpos, host.apos, r, x) /\ HostType'
    BY <1>1, <2>2, <2>3, EmitHost
  <2>5. QED
    BY <2>3, <2>4, Zenon
<1>6. /\ Rb \in Nat /\ Rb < Nrb /\ p \in Nat /\ r = [i \in 1 .. p + 2 * e + 2 |-> RowSum(host.shape, host.col, i - 1)]
  BY <1>1, <1>2, <1>4, TwoResults, Zenon
<1>7. DataType' /\ acts'.mem = acts.mem
  BY <1>1, RamKeeps DEF Emit
<1>8. /\ e \in 0 .. EMIT_BEATS - 1 /\ fsm.rowblock_remaining \in 1 .. Nrb
      /\ host.wpos = ((Rb + 1) * Bpr) * PACKED_PER_Q1_BLOCK
      /\ host.apos = Subs * (ACTS + BEAT) /\ \A i \in 0 .. Subs - 1 : acts.mem[i] = ActOf(host.col, i)
  BY <1>1, <1>2, <1>4 DEF SettleInv, RamInv
<1>9. /\ Bpr \in Nat \ {0} /\ Nrb \in Nat \ {0} /\ Rb = Nrb - fsm.rowblock_remaining /\ ROWS_PER_BLOCK \in Nat
      /\ EMIT_BEATS \in Nat \ {0} /\ ROWS_PER_BLOCK = 2 * EMIT_BEATS
  BY <1>1, <1>2, MatrixSizes, Sizes DEF TypeInv, Rb
<1>10. fsm'.kernel_done = fsm.kernel_done
       /\ (end => fsm'.state = "FINISH")
       /\ (final /\ ~end => /\ fsm'.state = "SCALES" /\ fsm'.rowblock_remaining = fsm.rowblock_remaining - 1
                           /\ fsm'.q1_remaining = Bpr /\ fsm'.q1_processed = 0 /\ fsm'.q8_index = 0 /\ fsm'.beat_index = 0)
       /\ (~final => fsm'.state = "EMIT" /\ fsm'.emit_beat = e + 1 /\ fsm'.rowblock_remaining = fsm.rowblock_remaining)
  <2>1. CASE end
    <3>1. fsm' = [fsm EXCEPT !.state = "FINISH"] /\ final
      BY <1>3, <2>1 DEF Emit
    <3>2. QED
      BY <1>1, <2>1, <3>1 DEF TypeInv, FsmType
  <2>2. CASE final /\ ~end
    <3>1. fsm' = [fsm EXCEPT !.rowblock_remaining = fsm.rowblock_remaining - 1, !.q1_remaining = Bpr,
                             !.q1_processed = 0, !.q8_index = 0, !.beat_index = 0, !.state = "SCALES"]
      BY <1>3, <2>2 DEF Emit, Bpr
    <3>2. QED
      BY <1>1, <2>2, <3>1 DEF TypeInv, FsmType
  <2>3. CASE ~final
    <3>1. fsm' = [fsm EXCEPT !.emit_beat = fsm.emit_beat + 1] /\ ~end
      BY <1>3, <2>3 DEF Emit
    <3>2. QED
      BY <1>1, <1>2, <1>4, <2>3, <3>1 DEF TypeInv, FsmType
  <2>4. QED
    BY <1>3, <2>1, <2>2, <2>3
<1>11. FsmType'
  <2>1. FsmType
    BY <1>1 DEF TypeInv
  <2>2. CASE end
    <3>1. fsm' = [fsm EXCEPT !.state = "FINISH"]
      BY <1>3, <2>2 DEF Emit
    <3>2. QED
      BY ONLY <2>1, <3>1 DEF FsmType
  <2>3. CASE final /\ ~end
    <3>1. PICK b, n : b = fsm.rowblock_remaining - 1 /\ n = Bpr /\ b \in Int /\ n \in Int
      BY <1>8, <1>9
    <3>2. fsm' = [fsm EXCEPT !.rowblock_remaining = b, !.q1_remaining = n,
                             !.q1_processed = 0, !.q8_index = 0, !.beat_index = 0, !.state = "SCALES"]
      BY <1>3, <2>3, <3>1 DEF Emit, Bpr
    <3>3. fsm' = [state |-> "SCALES", q1_remaining |-> n, rowblock_remaining |-> b, q8_index |-> 0, beat_index |-> 0,
                  drain_cnt |-> fsm.drain_cnt, emit_beat |-> fsm.emit_beat, q1_processed |-> 0,
                  load_beat |-> fsm.load_beat, load_q1 |-> fsm.load_q1, load_sub |-> fsm.load_sub,
                  kernel_done |-> fsm.kernel_done]
      BY ONLY <2>1, <3>2 DEF FsmType
    <3>4. QED
      BY ONLY <2>1, <3>1, <3>3 DEF FsmType
  <2>4. CASE ~final
    <3>1. fsm' = [fsm EXCEPT !.emit_beat = fsm.emit_beat + 1]
      BY <1>3, <2>4 DEF Emit
    <3>2. QED
      BY ONLY <2>1, <3>1 DEF FsmType
  <2>5. QED
    BY <1>3, <2>2, <2>3, <2>4
<1>12. PICK st \in BOOLEAN : (st <=> final /\ ~end) /\ Datapath(st, FALSE, FALSE)
  <2>1. PICK x : x = (fsm.emit_beat = EMIT_BEATS - 1
                      /\ ~(fsm.emit_beat = EMIT_BEATS - 1 /\ fsm.rowblock_remaining = 1))
    OBVIOUS
  <2>2. Datapath(x, FALSE, FALSE)
    BY <2>1, Zenon DEF Emit
  <2>3. x \in BOOLEAN /\ (x <=> final /\ ~end)
    BY <1>3, <2>1
  <2>4. QED
    BY <2>2, <2>3
<1>13. Empty /\ ~lanes.start
  BY <1>1, <1>2 DEF PipeInv, Feeding
<1>14. LanesType' /\ lanes'.start = st /\ Empty'
  BY <1>1, <1>12, <1>13, LanesTyped, LaneFields, EmptyStays DEF TypeInv
<1>15. TypeInv'
  BY <1>5, <1>7, <1>11, <1>14 DEF TypeInv
<1>16. Bpr' = Bpr /\ Subs' = Subs /\ Nrb' = Nrb /\ host'.shape = host.shape /\ host'.col = host.col
  BY <1>5, SameMatrix DEF HostMoved
<1>17. CtrlInv'
  BY <1>1, <1>2, <1>3, <1>5, <1>10 DEF CtrlInv, HostMoved
<1>18. /\ host'.wpos = host.wpos /\ host'.apos = host.apos /\ host'.results = r /\ host'.tlast = end /\ host'.strobe = FALSE
  BY <1>5 DEF HostMoved
<1>19. ASSUME NEW n, n = p + 2 * e + 2, Emitted' = n PROVE host'.results = [i \in 1 .. Emitted |-> RowSum(host.shape, host.col, i - 1)]'
  <2>1. host'.results = [i \in 1 .. n |-> RowSum(host.shape, host.col, i - 1)]
    BY ONLY <1>6, <1>18, <1>19, Zenon
  <2>2. QED
    BY ONLY <1>16, <1>19, <2>1, Zenon
<1>20. CASE ~final
  <2>1. fsm'.state = "EMIT" /\ fsm'.emit_beat = e + 1 /\ fsm'.rowblock_remaining = fsm.rowblock_remaining /\ ~end /\ ~st
    BY <1>3, <1>10, <1>12, <1>20
  <2>2. Rb' = Rb /\ Contributions' = Contributions
    BY <1>16, <2>1, SameRowblock
  <2>3. ~Loading' /\ ~Feeding' /\ Settling' /\ ~Finished'
    BY <2>1 DEF Loading, Feeding, Settling, Finished
  <2>4. LoadInv' /\ AccumInv' /\ FeedInv' /\ WeightsInv' /\ StreamInv'
    BY <1>18, <2>3 DEF LoadInv, AccumInv, FeedInv, WeightsInv, StreamInv
  <2>5. RamInv'
    BY <1>7, <1>8, <1>16, <1>18, <2>3 DEF RamInv
  <2>6. SettleInv'
    <3>1. e + 1 \in 0 .. EMIT_BEATS - 1
      <4>1. e # EMIT_BEATS - 1
        BY <1>3, <1>4, <1>20
      <4>2. e \in 0 .. EMIT_BEATS - 1 /\ EMIT_BEATS \in Nat
        BY <1>8, <1>9
      <4>3. QED
        BY ONLY <4>1, <4>2
    <3>2. QED
      BY <1>8, <1>16, <1>18, <2>1, <2>2, <3>1 DEF SettleInv
  <2>7. ResultsInv'
    <3>1. Emitted' = p + 2 * e + 2
      <4>1. Emitted' = Rb * ROWS_PER_BLOCK + 2 * (e + 1)
        BY <2>1, <2>2, <2>3 DEF Emitted
      <4>2. e \in Int
        BY <1>8, <1>9
      <4>3. QED
        BY ONLY <1>4, <1>6, <4>1, <4>2
    <3>2. QED
      BY <1>18, <1>19, <2>1, <2>3, <3>1 DEF ResultsInv
  <2>8. PipeNow'
    <3>1. Issued' = Issued
      BY <1>2, <1>16, <2>3 DEF Issued
    <3>2. Datapath(FALSE, FALSE, FALSE)
      BY <1>12, <2>1
    <3>3. QED
      BY <1>1, <1>2, <2>2, <3>1, <3>2, Flowing
  <2>9. PipeInv' /\ DoneInv'
    BY <1>14, <2>1, <2>3, <2>8 DEF PipeInv, DoneInv
  <2>10. QED
    BY <1>15, <1>17, <2>4, <2>5, <2>6, <2>7, <2>9 DEF KernelInv
<1>21. final => p + 2 * e + 2 = p + ROWS_PER_BLOCK /\ (Rb + 1) * ROWS_PER_BLOCK = p + ROWS_PER_BLOCK
  <2>1. final => e = EMIT_BEATS - 1
    BY <1>3, <1>4
  <2>2. (Rb + 1) * ROWS_PER_BLOCK = p + ROWS_PER_BLOCK
    BY <1>4, <1>6, <1>9, Rb \in Int, ROWS_PER_BLOCK \in Int, MulNext
  <2>3. QED
    BY ONLY <1>6, <1>9, <2>1, <2>2
<1>22. CASE final /\ ~end
  <2>1. /\ fsm'.state = "SCALES" /\ fsm'.rowblock_remaining = fsm.rowblock_remaining - 1
        /\ fsm'.q1_remaining = Bpr /\ fsm'.q1_processed = 0 /\ fsm'.q8_index = 0 /\ fsm'.beat_index = 0 /\ st
    BY <1>3, <1>10, <1>12, <1>22
  <2>2. fsm'.rowblock_remaining \in 1 .. Nrb /\ Rb' = Rb + 1
    <3>1. fsm.rowblock_remaining # 1
      BY <1>3, <1>22
    <3>2. fsm'.rowblock_remaining \in 1 .. Nrb
      <4>1. fsm.rowblock_remaining \in 1 .. Nrb /\ Nrb \in Nat /\ fsm'.rowblock_remaining = fsm.rowblock_remaining - 1
        BY <1>8, <1>9, <2>1
      <4>2. QED
        BY ONLY <3>1, <4>1
    <3>3. Rb' = Nrb - fsm'.rowblock_remaining
      BY <1>16 DEF Rb
    <3>4. fsm.rowblock_remaining \in Int
      BY <1>8
    <3>5. QED
      BY ONLY <1>9, <2>1, <3>2, <3>3, <3>4
  <2>3. ~Loading' /\ Feeding' /\ ~Settling' /\ ~Finished'
    BY <2>1 DEF Loading, Feeding, Settling, Finished
  <2>4. LoadInv' /\ AccumInv' /\ SettleInv' /\ StreamInv'
    BY <1>18, <2>3 DEF LoadInv, AccumInv, SettleInv, StreamInv
  <2>5. RamInv'
    BY <1>7, <1>8, <1>16, <1>18, <2>3 DEF RamInv
  <2>6. FeedAt' = ((Rb + 1) * Bpr) * PACKED_PER_Q1_BLOCK
    <3>1. FeedAt' = ((Rb + 1) * Bpr + 0) * PACKED_PER_Q1_BLOCK
      BY <1>16, <2>1, <2>2 DEF FeedAt
    <3>2. (Rb + 1) * Bpr \in Nat
      BY <1>6, <1>9, Rb + 1 \in Nat, MulMono
    <3>3. (Rb + 1) * Bpr + 0 = (Rb + 1) * Bpr
      BY ONLY <3>2
    <3>4. QED
      BY <3>1, <3>3
  <2>7. FeedInv'
    <3>1. 0 \in 0 .. SCALE_BEATS - 1 /\ 0 \in 0 .. Q8_SUBBLOCKS - 1 /\ 0 \in 0 .. Bpr - 1
      BY <1>9, Sizes
    <3>2. host'.wpos = FeedAt' + 0 * BEAT
      <4>1. host'.wpos = FeedAt' /\ host'.wpos \in Int /\ BEAT = 4
        BY <1>5, <1>8, <1>18, <2>6, Sizes DEF HostType
      <4>2. QED
        BY ONLY <4>1
    <3>3. Bpr = Bpr - 0
      BY <1>9
    <3>4. QED
      BY <1>16, <2>1, <2>2, <3>1, <3>2, <3>3 DEF FeedInv
  <2>8. WeightsInv'
    <3>1. \A l \in Lane : ~(l \div 4 < 0)
      BY Sizes DEF Lane
    <3>2. QED
      BY <2>1, <2>3, <3>1 DEF WeightsInv
  <2>9. ResultsInv'
    <3>1. Emitted' = p + 2 * e + 2
      <4>1. Emitted' = (Rb + 1) * ROWS_PER_BLOCK + 0
        BY <2>1, <2>2, <2>3 DEF Emitted
      <4>2. QED
        BY <1>6, <1>9, <1>21, <1>22, <4>1
    <3>2. QED
      BY <1>18, <1>19, <1>22, <2>3, <3>1 DEF ResultsInv
  <2>10. PipeInv' /\ DoneInv'
    BY <1>14, <2>1, <2>3 DEF PipeInv, DoneInv
  <2>11. QED
    BY <1>15, <1>17, <2>4, <2>5, <2>7, <2>8, <2>9, <2>10 DEF KernelInv
<1>23. CASE end
  <2>1. fsm'.state = "FINISH" /\ final /\ ~st
    BY <1>3, <1>10, <1>12, <1>23
  <2>2. ~Loading' /\ ~Feeding' /\ ~Settling' /\ Finished'
    BY <2>1 DEF Loading, Feeding, Settling, Finished
  <2>3. Rb + 1 = Nrb
    <3>1. fsm.rowblock_remaining = 1
      BY <1>3, <1>23
    <3>2. QED
      BY ONLY <1>9, <3>1
  <2>4. LoadInv' /\ AccumInv' /\ RamInv' /\ FeedInv' /\ WeightsInv' /\ SettleInv'
    BY <2>2 DEF LoadInv, AccumInv, RamInv, FeedInv, WeightsInv, SettleInv
  <2>5. StreamInv'
    BY <1>8, <1>16, <1>18, <2>3 DEF StreamInv
  <2>6. ResultsInv'
    <3>1. Emitted' = p + 2 * e + 2
      <4>1. Emitted' = Nrb * ROWS_PER_BLOCK
        BY <1>16, <2>2 DEF Emitted
      <4>2. QED
        BY <1>21, <2>1, <2>3, <4>1
    <3>2. QED
      BY <1>18, <1>19, <1>23, <2>2, <3>1 DEF ResultsInv
  <2>7. PipeInv' /\ DoneInv'
    BY <1>14, <2>1, <2>2 DEF PipeInv, DoneInv
  <2>8. QED
    BY <1>15, <1>17, <2>4, <2>5, <2>6, <2>7 DEF KernelInv
<1>24. QED
  BY <1>20, <1>22, <1>23
-----------------------------------------------------------------------------
(* The kernel keeps its promise. *)

\* Nothing moves.
LEMMA StutterKeeps ==
  ASSUME KernelInv, UNCHANGED vars
  PROVE  KernelInv'
<1>1. fsm' = fsm /\ acts' = acts /\ weights' = weights /\ lanes' = lanes /\ host' = host
  BY DEF vars
<1>2. TypeInv /\ CtrlInv
  BY DEF KernelInv
<1>3. TypeInv'
  BY <1>1, <1>2 DEF TypeInv, FsmType, DataType, HostType, LanesType
<1>4. CtrlInv'
  BY <1>1, <1>2 DEF CtrlInv
<1>5. Loading' = Loading /\ Feeding' = Feeding /\ Settling' = Settling /\ Finished' = Finished
  BY <1>1 DEF Loading, Feeding, Settling, Finished
<1>6. Bpr' = Bpr /\ Subs' = Subs /\ Nrb' = Nrb /\ Rb' = Rb /\ Contributions' = Contributions
  BY <1>1, SameMatrix, SameRowblock
<1>7. LoadAt' = LoadAt /\ FeedAt' = FeedAt /\ FeedSub' = FeedSub
  BY <1>1, <1>6 DEF LoadAt, FeedAt, FeedSub
<1>8. Issued' = Issued /\ Emitted' = Emitted /\ Operands' = Operands /\ Empty' = Empty /\ NoLast' = NoLast
  BY <1>1, <1>5, <1>6, <1>7 DEF Issued, Emitted, Operands, Empty, NoLast
<1>9. PipeNow' = PipeNow
  BY <1>1, <1>6, <1>8, Zenon DEF PipeNow
<1>10. LoadInv' /\ AccumInv'
  BY <1>1, <1>5, <1>6, <1>7 DEF KernelInv, LoadInv, AccumInv
<1>11. RamInv' /\ SettleInv' /\ StreamInv'
  BY <1>1, <1>5, <1>6, <1>7 DEF KernelInv, RamInv, SettleInv, StreamInv
<1>12. FeedInv'
  BY <1>1, <1>5, <1>6, <1>7 DEF KernelInv, FeedInv
<1>13. WeightsInv'
  BY <1>1, <1>5, <1>6 DEF KernelInv, WeightsInv, RightScale, RightBits, RowOf
<1>14. ResultsInv'
  BY <1>1, <1>5, <1>8 DEF KernelInv, ResultsInv
<1>15. PipeInv' /\ DoneInv'
  BY <1>1, <1>5, <1>8, <1>9 DEF KernelInv, PipeInv, DoneInv
<1>16. QED
  BY <1>3, <1>4, <1>10, <1>11, <1>12, <1>13, <1>14, <1>15 DEF KernelInv

\* What the invariant says of the results and the streams.
LEMMA InvImplies == KernelInv => RowsExact
<1>1. SUFFICES ASSUME KernelInv PROVE RowsExact
  OBVIOUS
<1>2. TypeInv /\ CtrlInv /\ ResultsInv /\ StreamInv /\ SettleInv /\ FeedInv
  BY <1>1 DEF KernelInv
<1>3. host.results = [i \in 1 .. Emitted |-> RowSum(host.shape, host.col, i - 1)]
  BY <1>2 DEF ResultsInv
<1>4. \A i \in DOMAIN host.results : host.results[i] = RowSum(host.shape, host.col, i - 1)
  BY <1>3, Zenon
<1>5. HostType
  BY <1>2 DEF TypeInv
<1>6. Finished => host.col > 0
  BY <1>2 DEF Finished, CtrlInv
<1>7. host.col > 0 => Emitted \in Nat /\ (Emitted = Nrb * ROWS_PER_BLOCK <=> Finished)
  <2>1. SUFFICES ASSUME host.col > 0 PROVE Emitted \in Nat /\ (Emitted = Nrb * ROWS_PER_BLOCK <=> Finished)
    OBVIOUS
  <2>2. Nrb \in Nat \ {0} /\ ROWS_PER_BLOCK \in Nat \ {0} /\ ROWS_PER_BLOCK = 2 * WBITS_BEATS /\ EMIT_BEATS = WBITS_BEATS
        /\ WBITS_BEATS \in Nat
    BY <1>5, <2>1, MatrixSizes, Sizes
  <2>3. \A a, b \in Nat \ {0} : a * b \in Nat \ {0}
    OBVIOUS
  <2>4. Nrb * ROWS_PER_BLOCK \in Nat \ {0}
    BY <2>2, <2>3
  <2>5. CASE Finished
    BY <2>4, <2>5 DEF Emitted
  <2>6. CASE ~Finished /\ (Feeding \/ Settling)
    <3>1. fsm.rowblock_remaining \in 1 .. Nrb /\ (fsm.state = "EMIT" => fsm.emit_beat \in 0 .. EMIT_BEATS - 1)
      BY <1>2, <2>6 DEF FeedInv, SettleInv, Settling
    <3>2. Rb \in Nat /\ Rb < Nrb
      BY <2>2, <3>1 DEF Rb
    <3>3. PICK x : x = (IF fsm.state = "EMIT" THEN 2 * fsm.emit_beat ELSE 0)
      OBVIOUS
    <3>4. x \in Nat /\ x < ROWS_PER_BLOCK /\ x + 1 <= ROWS_PER_BLOCK
      BY ONLY <2>2, <3>1, <3>3
    <3>5. Rb * ROWS_PER_BLOCK + (x + 1) <= Nrb * ROWS_PER_BLOCK
      BY <2>2, <3>2, <3>4, x + 1 \in Nat, PlaceInside
    <3>6. Rb * ROWS_PER_BLOCK \in Nat
      BY <2>2, <3>2, MulMono
    <3>7. Emitted = Rb * ROWS_PER_BLOCK + x
      BY <2>6, <3>3, Zenon DEF Emitted
    <3>8. PICK y, z : y = Rb * ROWS_PER_BLOCK /\ z = Nrb * ROWS_PER_BLOCK /\ y \in Nat /\ z \in Nat
      BY <2>4, <3>6
    <3>9. Emitted \in Nat /\ Emitted # z
      BY ONLY <3>4, <3>5, <3>7, <3>8
    <3>10. QED
      BY <2>6, <3>8, <3>9
  <2>7. CASE ~Finished /\ ~(Feeding \/ Settling)
    BY <2>4, <2>7 DEF Emitted
  <2>8. QED
    BY <2>5, <2>6, <2>7
<1>8. host.col > 0 => Len(host.results) = Emitted
  <2>1. SUFFICES ASSUME host.col > 0 PROVE Len(host.results) = Emitted
    OBVIOUS
  <2>2. Emitted \in Nat
    BY <1>7, <2>1
  <2>3. QED
    BY <1>3, <2>2
<1>9. host.tlast <=> (host.col > 0 /\ Len(host.results) = Rowblocks(host.shape[1]) * ROWS_PER_BLOCK)
  BY <1>2, <1>6, <1>7, <1>8 DEF ResultsInv, Nrb
<1>10. ASSUME host.done, ~host.strobe PROVE host.tlast /\ ~WeightsLeft /\ ~ActsLeft
  <2>1. Finished /\ host.col > 0
    BY <1>2, <1>10 DEF CtrlInv, Finished
  <2>2. host.tlast /\ host.wpos = (Nrb * Bpr) * PACKED_PER_Q1_BLOCK /\ host.apos = Subs * (ACTS + BEAT)
    BY <1>2, <2>1 DEF ResultsInv, StreamInv
  <2>3. PICK s, c, W, A, rows, bpr : /\ s = host.shape /\ c = host.col /\ W = WeightStream[host.shape]
                                    /\ A = ActStream[host.shape][host.col] /\ rows = s[1] /\ bpr = s[2]
    OBVIOUS
  <2>4. s \in Shapes /\ c \in 1 .. MAX_STARTS /\ c \in Nat
    BY <1>5, <2>1, <2>3, MatrixSizes
  <2>5. /\ rows \in Nat \ {0} /\ bpr \in Nat \ {0} /\ W = PackWeights(Q1Matrix(rows, bpr), rows, bpr)
        /\ A = PackActs(QuantsOf(c, bpr), ActScalesOf(c, bpr), bpr)
    BY <2>3, <2>4, StreamsAre
  <2>6. PackedAs(W, rows, bpr) /\ ActsAs(A, c, bpr)
    BY <2>4, <2>5, PackedCellsAre, PackedActsAre
  <2>7. Len(W) = (Rowblocks(rows) * bpr) * PACKED_PER_Q1_BLOCK /\ Len(A) = (bpr * Q8_SUBBLOCKS) * (ACTS + BEAT)
    BY <2>6, Zenon DEF PackedAs, ActsAs
  <2>8. host.wpos = Len(W) /\ host.apos = Len(A)
    BY <2>2, <2>3, <2>7, Zenon DEF Nrb, Bpr, Subs
  <2>9. host.wpos \in Int /\ host.apos \in Int
    BY <1>5 DEF HostType
  <2>10. ~(host.wpos < Len(W)) /\ ~(host.apos < Len(A))
    BY ONLY <2>8, <2>9
  <2>11. QED
    BY <2>2, <2>3, <2>10, Zenon DEF WeightsLeft, ActsLeft
<1>11. QED
  BY <1>4, <1>9, <1>10 DEF RowsExact

\* For every shape that fits the activation RAM, every size of the blocks and every length of the
\* done pipe: whatever leaves q1a8_kernel is each row's sum, made of its own weights against the
\* column's activations, every sub-block once and in order, however the streams and the result DMA
\* stall and whatever ran before; tlast marks the last beat only; and done_latched is set only when
\* all results are out and both streams are used up.
THEOREM RowsAreExact == Spec => []RowsExact
<1>1. Init => KernelInv
  BY InitHolds
<1>2. KernelInv /\ [Next]_vars => KernelInv'
  BY StutterKeeps, StallKeeps, StartKeeps, LoadActsKeeps, LoadScaleKeeps, ScalesKeeps, WbitsKeeps, IssueKeeps, WaitDoneKeeps,
     DrainKeeps, EmitKeeps, FinishKeeps, StrobeKeeps DEF Next, Step
<1>3. KernelInv => RowsExact
  BY InvImplies
<1>4. QED
  BY <1>1, <1>2, <1>3, PTL DEF Spec

-----------------------------------------------------------------------------
(***************************************************************************)
(* The ARM's kernels.                                                      *)
(***************************************************************************)

(* Operands have pointers wherever the allocator has cut their tensors. *)

\* An operand that was refused because its tensor is cut.
IsCut(v) == ~HasAddress(v) /\ v.code = "multi_extent"

Hidden(bound) == Len(bound) \in Nat /\ \A i \in 1 .. Len(bound) : bound[i].code # "multi_extent"

\* The first error is one of the operands'.
LEMMA FirstErrorHidden ==
  ASSUME NEW bound, Hidden(bound)
  PROVE  FirstError(bound) # "multi_extent"
<1>. DEFINE I == {i \in 1 .. Len(bound) : bound[i].code # "ok"}
            k == Min(I)
<1>1. CASE I = {}
  BY <1>1 DEF FirstError, SelectInSeq
<1>2. CASE I # {}
  <2>0. I \subseteq Nat
    BY DEF Hidden
  <2>1. k \in I
    <3>1. k = CHOOSE x \in I : \A y \in I : x =< y
      BY DEF Min
    <3>. HIDE DEF I, k
    <3>2. QED
      BY ONLY <1>2, <2>0, <3>1, LeastIsChosen
  <2>2. FirstError(bound) = IF k = 0 THEN "ok" ELSE bound[k].code
    BY <1>2 DEF FirstError, SelectInSeq
  <2>3. QED
    BY <2>1, <2>2 DEF Hidden
<1>3. QED
  BY <1>1, <1>2

\* _readable_base: a cut operand is read.
LEMMA InHidden ==
  ASSUME NEW role, NEW x, NEW n
  PROVE  InPtr(role, x, n).code # "multi_extent"
<1>1. RangeCode(x, n) # "multi_extent"
  BY DEF RangeCode
<1>2. QED
  BY <1>1 DEF InPtr, Resolved, Failed, Copied

\* _writable_base: a cut result gets a buffer.
LEMMA OutHidden ==
  ASSUME NEW role, NEW x, NEW n
  PROVE  OutPtr(role, x, n).code # "multi_extent"
BY DEF OutPtr, ZeroedFor, Resolved, Copied

\* _slab_pointer_or_scratch: on PYNQ a cut operand gets a scratch buffer.
LEMMA ScratchHidden ==
  ASSUME board.pynq, NEW role, NEW x, NEW n
  PROVE  ScratchPtr(role, x, n).code # "multi_extent"
BY DEF ScratchPtr, ScratchFor, Resolved, Copied

\* The operands of the element-wise kernels.
LEMMA OperandsHidden ==
  ASSUME NEW ins, NEW m \in Nat, DOMAIN ins = 1 .. m, NEW out
  PROVE  Hidden(ReadOperands(ins, out))
<1>. DEFINE f == [i \in 1 .. m |-> InPtr(ins[i][1], ins[i][2], ins[i][3])]
            e == OutPtr("dst", out[1], out[2])
            S == {f[i] : i \in 1 .. m} \cup {e}
            b == Append(f, e)
<1>1. \A i \in 1 .. m : f[i].code # "multi_extent"
  BY InHidden
<1>2. e.code # "multi_extent"
  BY OutHidden
<1>3. f \in [1 .. m -> S] /\ e \in S
  OBVIOUS
<1>. HIDE DEF f, e
<1>4. \A s \in S : s.code # "multi_extent"
  BY <1>1, <1>2
<1>. HIDE DEF S
<1>5. f \in Seq(S)
  BY <1>3
<1>6. b \in Seq(S) /\ Len(b) \in Nat
  BY <1>3, <1>5
<1>. HIDE DEF b
<1>7. \A i \in 1 .. Len(b) : b[i] \in S
  BY <1>6
<1>8. ReadOperands(ins, out) = b
  BY DEF ReadOperands, b, f, e
<1>9. QED
  BY <1>4, <1>6, <1>7, <1>8 DEF Hidden

LEMMA TwoIns ==
  ASSUME NEW a, NEW b, NEW out
  PROVE  Hidden(ReadOperands(<<a, b>>, out)) /\ Hidden(ReadOperands(<<a>>, out))
<1>1. DOMAIN <<a, b>> = 1 .. 2 /\ DOMAIN <<a>> = 1 .. 1
  OBVIOUS
<1>2. QED
  BY <1>1, OperandsHidden

\* What the element-wise kernels answer if an operand has no pointer.
LEMMA TwoOperands ==
  \A a, b, out : FirstError(ReadOperands(<<a, b>>, out)) # "multi_extent"
BY TwoIns, FirstErrorHidden

LEMMA OneOperand ==
  \A a, out : FirstError(ReadOperands(<<a>>, out)) # "multi_extent"
BY TwoIns, FirstErrorHidden

\* ADD and MUL.
LEMMA BinaryF32Hidden ==
  ASSUME NEW op, BinaryF32(op)
  PROVE  last'.code # "multi_extent" /\ last'.wrote = {}
BY TwoOperands DEF BinaryF32, Native, Verdict, Raise, Done, Outcome

\* SCALE and SILU.
LEMMA UnaryF32Hidden ==
  ASSUME NEW op, UnaryF32(op)
  PROVE  last'.code # "multi_extent" /\ last'.wrote = {}
BY OneOperand DEF UnaryF32, Native, Verdict, Raise, Done, Outcome

\* SWIGLU.
LEMMA SwigluF32Hidden ==
  ASSUME NEW op, SwigluF32(op)
  PROVE  last'.code # "multi_extent" /\ last'.wrote = {}
BY TwoOperands DEF SwigluF32, Native, Verdict, Raise, Done, Outcome

\* RMS_NORM.
LEMMA RmsNormF32Hidden ==
  ASSUME NEW op, RmsNormF32(op)
  PROVE  last'.code # "multi_extent" /\ last'.wrote = {}
BY OneOperand DEF RmsNormF32, Native, Verdict, Raise, Done, Outcome

\* RMS_NORM_MUL.
LEMMA RmsNormMulF32Hidden ==
  ASSUME NEW op, RmsNormMulF32(op)
  PROVE  last'.code # "multi_extent" /\ last'.wrote = {}
BY TwoOperands DEF RmsNormMulF32, Native, Verdict, Raise, Done, Outcome

\* ROPE.
LEMMA RopeF32Hidden ==
  ASSUME NEW op, RopeF32(op)
  PROVE  last'.code # "multi_extent" /\ last'.wrote = {}
BY TwoOperands DEF RopeF32, Native, Verdict, Raise, Done, Outcome

\* COPY to halves.
LEMMA CopyF32ToF16Hidden ==
  ASSUME NEW op, CopyF32ToF16(op)
  PROVE  last'.code # "multi_extent" /\ last'.wrote = {}
BY OneOperand DEF CopyF32ToF16, Native, Verdict, Raise, Done, Outcome

\* COPY and the ARM's matmul check ranges, and copy.
LEMMA CopyHidden ==
  ASSUME NEW op, Copy(op) \/ MatmulQ1A8(op)
  PROVE  last'.code # "multi_extent" /\ last'.wrote = {}
<1>1. \A x, n : RangeCode(x, n) # "multi_extent"
  BY DEF RangeCode
<1>. USE DEF Raise, Done, Outcome
<1>2. CASE Copy(op)
  BY <1>1, <1>2 DEF Copy
<1>3. CASE MatmulQ1A8(op)
  BY <1>1, <1>3 DEF MatmulQ1A8
<1>4. QED
  BY <1>2, <1>3

\* Attention's operands, with a mask and without.
LEMMA AttnHidden ==
  ASSUME NEW op, FlashAttnExtF32(op), board.pynq
  PROVE  last'.code # "multi_extent"
<1>1. \A all : Len(all) \in Nat /\ DOMAIN all = 1 .. Len(all) => FirstError(ScratchOperands(all)) # "multi_extent"
  <2>1. SUFFICES ASSUME NEW all, NEW m \in Nat, m = Len(all), DOMAIN all = 1 .. m
                 PROVE  FirstError(ScratchOperands(all)) # "multi_extent"
    OBVIOUS
  <2>. DEFINE f == [i \in 1 .. m |-> ScratchPtr(all[i][1], all[i][2], all[i][3])]
              S == {f[i] : i \in 1 .. m}
  <2>2. \A i \in 1 .. m : f[i].code # "multi_extent"
    BY ScratchHidden
  <2>3. ScratchOperands(all) = f
    BY <2>1 DEF ScratchOperands
  <2>4. f \in [1 .. m -> S]
    OBVIOUS
  <2>. HIDE DEF f, S
  <2>5. Len(f) = m
    BY <2>4
  <2>6. QED
    BY <2>2, <2>3, <2>5, FirstErrorHidden DEF Hidden
<1>2. ASSUME NEW a, NEW b, NEW c, NEW e, NEW d
      PROVE  /\ FirstError(ScratchOperands(<<a, b, c>> \o <<e>> \o <<d>>)) # "multi_extent"
             /\ FirstError(ScratchOperands(<<a, b, c>> \o <<>> \o <<d>>)) # "multi_extent"
  <2>. DEFINE s == <<a, b, c>> \o <<e>> \o <<d>>
              t == <<a, b, c>> \o <<>> \o <<d>>
  <2>1. Len(s) = 5 /\ DOMAIN s = 1 .. Len(s)
    OBVIOUS
  <2>2. Len(t) = 4 /\ DOMAIN t = 1 .. Len(t)
    OBVIOUS
  <2>. HIDE DEF s, t
  <2>3. QED
    BY <1>1, <2>1, <2>2 DEF s, t
<1>3. CASE op.has_mask
  BY <1>2, <1>3 DEF FlashAttnExtF32, Native, Verdict, Raise, Done, Outcome
<1>4. CASE ~op.has_mask
  BY <1>2, <1>4 DEF FlashAttnExtF32, Native, Verdict, Raise, Done, Outcome
<1>5. QED
  BY <1>3, <1>4
-----------------------------------------------------------------------------
(* The rows of GET_ROWS. *)

\* The rows of all planes.
LEMMA RowsAre ==
  ASSUME NEW op, op.n \in Nat, op.planes \in Nat
  PROVE  Rows(op) \in Seq(Nat \X Nat)
<1>. DEFINE R == Nat \X Nat
            f(j) == [i \in 1 .. op.n |-> <<i - 1, j - 1>>]
            g == [j \in 1 .. op.planes |-> f(j)]
<1>1. \A j \in 1 .. op.planes : f(j) \in Seq(R)
  OBVIOUS
<1>2. Rows(op) = FlattenSeq(g)
  BY DEF Rows
<1>. HIDE DEF f, R
<1>3. g \in [1 .. op.planes -> Seq(R)]
  BY <1>1
<1>. HIDE DEF g
<1>4. g \in Seq(Seq(R)) /\ <<>> \in Seq(R)
  BY <1>3
<1>5. QED
  BY <1>2, <1>4, FlattenAppend DEF R

\* An index is a number, whatever the cells of the table hold.
LEMMA IndexIsInt ==
  ASSUME NEW op, NEW idx, NEW r
  PROVE  TableIndex(op, idx, r) \in Int
<1>1. \A v : IntOf(v) \in Int
  BY DEF IntOf
<1>2. QED
  BY <1>1 DEF TableIndex

\* No row that a GET_ROWS of a board may read or write is cut.
InOnePiece(b, x, n) == x.t \in DOMAIN b.tensors => ~IsCut(SlabView(b.tensors[x.t], x.off, n))
RowsUncut ==
  \A b \in Cases : \A op \in b.ops :
    b.pynq /\ op.kind = "GET_ROWS" =>
      \A k \in DOMAIN Rows(op) :
        /\ \A row \in 0 .. op.ne01 - 1 : InOnePiece(b, SourceOf(op, Rows(op)[k], row), SourceSize(op))
        /\ InOnePiece(b, TargetOf(op, Rows(op)[k]), op.dst_nb1)

\* GET_ROWS with a pointer for every row.
LEMMA GatherHidden ==
  ASSUME board \in Cases, board.pynq, RowsUncut, NEW op \in board.ops, op.kind = "GET_ROWS", NEW idx
  PROVE  GatherRows(op, idx).code # "multi_extent"
<1>. DEFINE rows == Rows(op)
            n == Len(rows)
            b == [code |-> "ok", mem |-> mem]
            St(x, k) == GetRowsStep(op, x, rows[k], TableIndex(op, idx, rows[k]))
            Solves(f, m) == f = [k \in 0 .. m |-> IF k = 0 THEN b ELSE St(f[k - 1], k)]
            g == CHOOSE f : Solves(f, n)
            Good(x) == DOMAIN x = {"code", "mem"} /\ x.code # "multi_extent"
<1>1. n \in Nat /\ rows \in Seq(Nat \X Nat) /\ DOMAIN rows = 1 .. n /\ op.ne01 \in Nat
  <2>1. {op.n, op.planes} \subseteq Nat /\ op.ne01 \in Nat
    BY BoardAssumption
  <2>2. rows \in Seq(Nat \X Nat)
    BY <2>1, RowsAre
  <2>. HIDE DEF rows
  <2>3. QED
    BY <2>1, <2>2
<1>2. GatherRows(op, idx) = g[n]
  BY DEF GatherRows
<1>3. Good(b)
  OBVIOUS
<1>4. \A x, k : k \in 1 .. n /\ Good(x) => Good(St(x, k))
  <2>1. SUFFICES ASSUME NEW x, NEW k \in 1 .. n, Good(x) PROVE Good(St(x, k))
    OBVIOUS
  <2>. DEFINE r == rows[k]
              row == TableIndex(op, idx, r)
              bound == <<RowPtr("row", x.mem, SourceOf(op, r, row), SourceSize(op)),
                         RowOut("out", TargetOf(op, r), op.dst_nb1)>>
  <2>2. row \in Int
    BY IndexIsInt
  <2>3. CASE x.code # "ok"
    BY <2>1, <2>3 DEF GetRowsStep
  <2>4. CASE x.code = "ok" /\ (row < 0 \/ row >= op.ne01)
    <3>1. St(x, k) = [x EXCEPT !.code = "RuntimeError"]
      BY <2>4 DEF GetRowsStep
    <3>. HIDE DEF St
    <3>2. QED
      BY <2>1, <3>1
  <2>5. CASE x.code = "ok" /\ ~(row < 0 \/ row >= op.ne01)
    <3>1. row \in 0 .. op.ne01 - 1
      BY <1>1, <2>2, <2>5
    <3>2. /\ InOnePiece(board, SourceOf(op, r, row), SourceSize(op))
          /\ InOnePiece(board, TargetOf(op, r), op.dst_nb1)
      BY <1>1, <3>1, Zenon DEF RowsUncut
    <3>. HIDE DEF row, r
    <3>3. \A y, m : InOnePiece(board, y, m) => ~IsCut(SlabPointer(y, m))
      BY DEF InOnePiece, SlabPointer, OfCma, View, Rec, IsCut, Failed, HasAddress
    <3>4. \A v, role, data : ~IsCut(v) => RowFor(v, role, data).code # "multi_extent"
      BY DEF IsCut, RowFor, Resolved, Copied
    <3>5. \A role, y, m, d : InOnePiece(board, y, m) =>
             RowPtr(role, d, y, m).code # "multi_extent" /\ RowOut(role, y, m).code # "multi_extent"
      BY <3>3, <3>4 DEF RowPtr, RowOut
    <3>6. FirstError(bound) # "multi_extent"
      <4>1. Len(bound) = 2 /\ bound[1].code # "multi_extent" /\ bound[2].code # "multi_extent"
        BY <3>2, <3>5
      <4>. HIDE DEF bound
      <4>2. Hidden(bound)
        BY <4>1 DEF Hidden
      <4>3. QED
        BY <4>2, FirstErrorHidden
    <3>. DEFINE lane == IF IsPacked(op) THEN row % ROWS_PER_BLOCK ELSE 0
    <3>7. St(x, k) = GatherRow(op, x, lane, TargetOf(op, r), bound)
      BY <2>5 DEF GetRowsStep, row, r
    <3>. HIDE DEF St, bound, lane
    <3>8. QED
      BY <2>1, <3>6, <3>7 DEF GatherRow
  <2>6. QED
    BY <2>3, <2>4, <2>5
<1>. HIDE DEF b, St, rows, n
<1>5. \E f : Solves(f, n)
  <2>. DEFINE T == {m \in Nat : \E f : Solves(f, m)}
  <2>1. 0 \in T
    <3>1. Solves([k \in 0 .. 0 |-> b], 0)
      <4>1. [k \in 0 .. 0 |-> b] = [k \in 0 .. 0 |-> IF k = 0 THEN b ELSE St([j \in 0 .. 0 |-> b][k - 1], k)]
        OBVIOUS
      <4>2. QED
        BY <4>1
    <3>2. QED
      BY <3>1
  <2>2. ASSUME NEW m \in Nat, m \in T PROVE m + 1 \in T
    <3>1. PICK f : Solves(f, m)
      BY <2>2
    <3>. DEFINE h == [k \in 0 .. m + 1 |-> IF k = m + 1 THEN St(f[m], m + 1) ELSE f[k]]
    <3>2. \A k \in 0 .. m : f[k] = IF k = 0 THEN b ELSE St(f[k - 1], k)
      BY <3>1
    <3>3. ASSUME NEW k \in 0 .. m + 1 PROVE h[k] = IF k = 0 THEN b ELSE St(h[k - 1], k)
      <4>1. CASE k = m + 1
        <5>1. k # 0 /\ k - 1 = m /\ m \in 0 .. m + 1 /\ m # m + 1
          BY <4>1
        <5>2. h[m] = f[m]
          BY <5>1
        <5>3. QED
          BY <4>1, <5>1, <5>2
      <4>2. CASE k # m + 1 /\ k # 0
        <5>1. k \in 0 .. m /\ k - 1 \in 0 .. m + 1 /\ k - 1 # m + 1
          BY <4>2
        <5>2. h[k] = f[k] /\ h[k - 1] = f[k - 1]
          BY <4>2, <5>1
        <5>3. QED
          BY <3>2, <4>2, <5>1, <5>2
      <4>3. CASE k = 0
        <5>1. k \in 0 .. m /\ k # m + 1
          BY <4>3
        <5>2. QED
          BY <3>2, <4>3, <5>1
      <4>4. QED
        BY <4>1, <4>2, <4>3
    <3>4. h = [k \in 0 .. m + 1 |-> h[k]]
      OBVIOUS
    <3>. HIDE DEF h
    <3>5. [k \in 0 .. m + 1 |-> h[k]] = [k \in 0 .. m + 1 |-> IF k = 0 THEN b ELSE St(h[k - 1], k)]
      BY <3>3
    <3>6. Solves(h, m + 1)
      BY <3>4, <3>5
    <3>7. QED
      BY <3>6
  <2>. HIDE DEF T
  <2>3. \A m \in Nat : m \in T
    BY <2>1, <2>2, NatSetInduction
  <2>4. QED
    BY <1>1, <2>3 DEF T
<1>6. Solves(g, n)
  BY <1>5
<1>. HIDE DEF g
<1>7. g[0] = b /\ \A k \in 1 .. n : g[k] = St(g[k - 1], k)
  <2>1. 0 \in 0 .. n /\ \A k \in 1 .. n : k \in 0 .. n /\ k # 0
    BY <1>1
  <2>2. QED
    BY <1>6, <2>1
<1>. HIDE DEF Solves
<1>. HIDE DEF Good
<1>8. Good(g[n])
  <2>. DEFINE T == {k \in Nat : k <= n => Good(g[k])}
  <2>1. 0 \in T
    BY <1>3, <1>7
  <2>2. ASSUME NEW k \in Nat, k \in T PROVE k + 1 \in T
    <3>1. SUFFICES ASSUME k + 1 <= n PROVE Good(g[k + 1])
      OBVIOUS
    <3>2. k + 1 \in 1 .. n /\ (k + 1) - 1 = k /\ k <= n
      BY <1>1, <3>1
    <3>3. Good(g[k])
      BY <2>2, <3>2
    <3>4. g[k + 1] = St(g[k], k + 1)
      BY <1>7, <3>2
    <3>5. QED
      BY <1>4, <3>2, <3>3, <3>4
  <2>. HIDE DEF T
  <2>3. \A k \in Nat : k \in T
    BY <2>1, <2>2, NatSetInduction
  <2>4. QED
    BY <1>1, <2>3 DEF T
<1>9. QED
  BY <1>2, <1>8 DEF Good

\* GET_ROWS.
LEMMA GetRowsHidden ==
  ASSUME board \in Cases, board.pynq, RowsUncut, NEW op \in board.ops, GetRows(op)
  PROVE  last'.code # "multi_extent"
<1>1. \A x, n : RangeCode(x, n) # "multi_extent"
  BY DEF RangeCode
<1>2. op.kind = "GET_ROWS"
  BY DEF GetRows, Takes
<1>3. \A idx : GatherRows(op, idx).code # "multi_extent"
  BY <1>2, GatherHidden
<1>4. QED
  BY <1>1, <1>3 DEF GetRows, Raise, RowsGot, Outcome

-----------------------------------------------------------------------------
(* The rows of SET_ROWS. *)

\* A pointer that slab_view gives is a number of bytes into its slab.
LEMMA ViewOffset ==
  ASSUME NEW rec, Len(rec.extents) \in Nat,
         \A k \in 1 .. Len(rec.extents) : rec.extents[k].off \in Nat /\ rec.extents[k].nbytes \in Nat,
         NEW a \in Int, NEW size, HasAddress(SlabView(rec, a, size))
  PROVE  SlabView(rec, a, size).off \in Int
<1>. DEFINE ext == rec.extents
            n == Len(ext)
            b == [cursor |-> 0, offset |-> a, size |-> size, found |-> <<>>]
            St(x, k) == ViewStep(x, ext[k])
            Solves(f, m) == f = [k \in 0 .. m |-> IF k = 0 THEN b ELSE St(f[k - 1], k)]
            g == CHOOSE f : Solves(f, n)
            Good(x) == /\ x = [cursor |-> x.cursor, offset |-> a, size |-> size, found |-> x.found]
                       /\ x.cursor \in Int
                       /\ x.found # <<>> /\ HasAddress(x.found[1]) => x.found[1].off \in Int
<1>1. n \in Nat
  OBVIOUS
<1>2. SlabView(rec, a, size) = IF a + size > rec.nbytes THEN Failed("out_of_bounds")
                               ELSE IF g[n].found = <<>> THEN Failed("internal_error") ELSE g[n].found[1]
  BY DEF SlabView
<1>3. Good(b)
  OBVIOUS
<1>4. \A x, k : k \in 1 .. n /\ Good(x) => Good(St(x, k))
  <2>1. SUFFICES ASSUME NEW x, NEW k \in 1 .. n, Good(x) PROVE Good(St(x, k))
    OBVIOUS
  <2>. DEFINE e == ext[k]
              r == IF x.offset - x.cursor + x.size > e.nbytes THEN Failed("multi_extent")
                   ELSE Extent(e.slab, e.off + (x.offset - x.cursor), x.size)
  <2>2. e.off \in Int /\ e.nbytes \in Int /\ x.offset = a /\ x.cursor \in Int
    BY <2>1
  <2>3. CASE x.found # <<>>
    BY <2>1, <2>3 DEF ViewStep
  <2>4. CASE x.found = <<>> /\ x.offset >= x.cursor + e.nbytes
    <3>1. St(x, k) = [x EXCEPT !.cursor = @ + e.nbytes]
      BY <2>4 DEF ViewStep
    <3>. HIDE DEF St, e
    <3>2. QED
      BY <2>1, <2>2, <2>4, <3>1
  <2>5. CASE x.found = <<>> /\ ~(x.offset >= x.cursor + e.nbytes)
    <3>1. St(x, k) = [x EXCEPT !.found = <<r>>]
      BY <2>5 DEF ViewStep
    <3>2. HasAddress(r) => r.off \in Int
      BY <2>2 DEF HasAddress, Failed, Extent
    <3>. HIDE DEF St, e, r
    <3>3. QED
      BY <2>1, <2>2, <3>1, <3>2
  <2>6. QED
    BY <2>3, <2>4, <2>5
<1>. HIDE DEF b, St, ext, n
<1>5. \E f : Solves(f, n)
  <2>. DEFINE T == {m \in Nat : \E f : Solves(f, m)}
  <2>1. 0 \in T
    <3>1. Solves([k \in 0 .. 0 |-> b], 0)
      <4>1. [k \in 0 .. 0 |-> b] = [k \in 0 .. 0 |-> IF k = 0 THEN b ELSE St([j \in 0 .. 0 |-> b][k - 1], k)]
        OBVIOUS
      <4>2. QED
        BY <4>1
    <3>2. QED
      BY <3>1
  <2>2. ASSUME NEW m \in Nat, m \in T PROVE m + 1 \in T
    <3>1. PICK f : Solves(f, m)
      BY <2>2
    <3>. DEFINE h == [k \in 0 .. m + 1 |-> IF k = m + 1 THEN St(f[m], m + 1) ELSE f[k]]
    <3>2. \A k \in 0 .. m : f[k] = IF k = 0 THEN b ELSE St(f[k - 1], k)
      BY <3>1
    <3>3. ASSUME NEW k \in 0 .. m + 1 PROVE h[k] = IF k = 0 THEN b ELSE St(h[k - 1], k)
      <4>1. CASE k = m + 1
        <5>1. k # 0 /\ k - 1 = m /\ m \in 0 .. m + 1 /\ m # m + 1
          BY <4>1
        <5>2. h[m] = f[m]
          BY <5>1
        <5>3. QED
          BY <4>1, <5>1, <5>2
      <4>2. CASE k # m + 1 /\ k # 0
        <5>1. k \in 0 .. m /\ k - 1 \in 0 .. m + 1 /\ k - 1 # m + 1
          BY <4>2
        <5>2. h[k] = f[k] /\ h[k - 1] = f[k - 1]
          BY <4>2, <5>1
        <5>3. QED
          BY <3>2, <4>2, <5>1, <5>2
      <4>3. CASE k = 0
        <5>1. k \in 0 .. m /\ k # m + 1
          BY <4>3
        <5>2. QED
          BY <3>2, <4>3, <5>1
      <4>4. QED
        BY <4>1, <4>2, <4>3
    <3>4. h = [k \in 0 .. m + 1 |-> h[k]]
      OBVIOUS
    <3>. HIDE DEF h
    <3>5. [k \in 0 .. m + 1 |-> h[k]] = [k \in 0 .. m + 1 |-> IF k = 0 THEN b ELSE St(h[k - 1], k)]
      BY <3>3
    <3>6. Solves(h, m + 1)
      BY <3>4, <3>5
    <3>7. QED
      BY <3>6
  <2>. HIDE DEF T
  <2>3. \A m \in Nat : m \in T
    BY <2>1, <2>2, NatSetInduction
  <2>4. QED
    BY <1>1, <2>3 DEF T
<1>6. Solves(g, n)
  BY <1>5
<1>. HIDE DEF g
<1>7. g[0] = b /\ \A k \in 1 .. n : g[k] = St(g[k - 1], k)
  <2>1. 0 \in 0 .. n /\ \A k \in 1 .. n : k \in 0 .. n /\ k # 0
    BY <1>1
  <2>2. QED
    BY <1>6, <2>1
<1>. HIDE DEF Solves
<1>. HIDE DEF Good
<1>8. Good(g[n])
  <2>. DEFINE T == {k \in Nat : k <= n => Good(g[k])}
  <2>1. 0 \in T
    BY <1>3, <1>7
  <2>2. ASSUME NEW k \in Nat, k \in T PROVE k + 1 \in T
    <3>1. SUFFICES ASSUME k + 1 <= n PROVE Good(g[k + 1])
      OBVIOUS
    <3>2. k + 1 \in 1 .. n /\ (k + 1) - 1 = k /\ k <= n
      BY <1>1, <3>1
    <3>3. Good(g[k])
      BY <2>2, <3>2
    <3>4. g[k + 1] = St(g[k], k + 1)
      BY <1>7, <3>2
    <3>5. QED
      BY <1>4, <3>2, <3>3, <3>4
  <2>. HIDE DEF T
  <2>3. \A k \in Nat : k \in T
    BY <2>1, <2>2, NatSetInduction
  <2>4. QED
    BY <1>1, <2>3 DEF T
<1>9. g[n].found # <<>> /\ HasAddress(g[n].found[1]) => g[n].found[1].off \in Int
  BY <1>8 DEF Good
<1>10. QED
  BY <1>2, <1>9 DEF HasAddress, Failed

\* The hull of what has been touched, per slab: intervals of numbers.
Hulls(touched) ==
  \A s \in DOMAIN touched : touched[s] = <<touched[s][1], touched[s][2]>> /\ touched[s][1] \in Int /\ touched[s][2] \in Int
Within(touched, s, lo, hi) == s \in DOMAIN touched /\ touched[s][1] <= lo /\ hi <= touched[s][2]

\* A hull only grows, and takes the new row in.
LEMMA TouchCovers ==
  ASSUME NEW touched, Hulls(touched), NEW slab, NEW lo \in Int, NEW hi \in Int
  PROVE  /\ Hulls(Touch(touched, slab, lo, hi))
         /\ Within(Touch(touched, slab, lo, hi), slab, lo, hi)
         /\ \A s \in DOMAIN touched : Within(Touch(touched, slab, lo, hi), s, touched[s][1], touched[s][2])
<1>. DEFINE t == Touch(touched, slab, lo, hi)
<1>1. CASE slab \in DOMAIN touched
  <2>. DEFINE a == Lesser(touched[slab][1], lo)
              b == Greater(touched[slab][2], hi)
  <2>2. /\ a \in Int /\ b \in Int /\ a <= lo /\ hi <= b
        /\ a <= touched[slab][1] /\ touched[slab][2] <= b
    BY <1>1 DEF Hulls, Lesser, Greater
  <2>3. /\ DOMAIN t = DOMAIN touched /\ t[slab] = <<a, b>>
        /\ \A s \in DOMAIN touched : s # slab => t[s] = touched[s]
    BY <1>1 DEF Touch
  <2>. HIDE DEF t, a, b
  <2>4. Hulls(t)
    BY <2>2, <2>3 DEF Hulls
  <2>5. Within(t, slab, lo, hi)
    BY <1>1, <2>2, <2>3 DEF Within
  <2>6. ASSUME NEW s \in DOMAIN touched PROVE Within(t, s, touched[s][1], touched[s][2])
    BY <1>1, <2>2, <2>3 DEF Within, Hulls
  <2>7. QED
    BY <2>4, <2>5, <2>6 DEF t
<1>2. CASE slab \notin DOMAIN touched
  <2>2. /\ DOMAIN t = DOMAIN touched \cup {slab} /\ t[slab] = <<lo, hi>>
        /\ \A s \in DOMAIN touched : t[s] = touched[s]
    BY <1>2 DEF Touch
  <2>. HIDE DEF t
  <2>3. Hulls(t)
    BY <2>2 DEF Hulls
  <2>4. Within(t, slab, lo, hi)
    BY <2>2 DEF Within
  <2>5. ASSUME NEW s \in DOMAIN touched PROVE Within(t, s, touched[s][1], touched[s][2])
    BY <2>2 DEF Within, Hulls
  <2>6. QED
    BY <2>3, <2>4, <2>5 DEF t
<1>3. QED
  BY <1>1, <1>2

\* What the rows so far have written in place lies within what they have touched.
Covered(st) ==
  /\ DOMAIN st = {"code", "mem", "wrote", "touched"}
  /\ st.code # "multi_extent"
  /\ Hulls(st.touched)
  /\ \A c \in st.wrote : c[2] \in Int /\ Within(st.touched, c[1], c[2], c[2] + 1)

\* _write_row: in place, with its hull, or through a copy.
LEMMA WriteRowCovers ==
  ASSUME NEW op, op.head_dim \in Nat, NEW st, Covered(st), NEW y, NEW view, HasAddress(view) => view.off \in Int,
         NEW h, NEW src_addr
  PROVE  Covered(WriteRow(op, st, y, view, h, src_addr))
<1>. DEFINE n == op.head_dim * F16
            w == WriteRow(op, st, y, view, h, src_addr)
<1>1. n \in Nat
  BY DEF F16
<1>2. CASE ~HasAddress(view) /\ view.code # "multi_extent"
  <2>1. w = [st EXCEPT !.code = view.code]
    BY <1>2 DEF WriteRow
  <2>. HIDE DEF w
  <2>2. DOMAIN w = DOMAIN st /\ w.code = view.code /\ w.wrote = st.wrote /\ w.touched = st.touched
    BY <2>1 DEF Covered
  <2>3. QED
    BY <1>2, <2>2 DEF Covered, w
<1>3. CASE ~(~HasAddress(view) /\ view.code # "multi_extent") /\ (~HasAddress(view) \/ ~board.pynq)
  <2>1. PICK m : w = [st EXCEPT !.mem = m]
    BY <1>3 DEF WriteRow
  <2>. HIDE DEF w
  <2>2. DOMAIN w = DOMAIN st /\ w.code = st.code /\ w.wrote = st.wrote /\ w.touched = st.touched
    BY <2>1 DEF Covered
  <2>3. QED
    BY <2>2 DEF Covered, w
<1>4. CASE HasAddress(view) /\ board.pynq
  <2>. DEFINE cells == {<<view.slab, view.off + d>> : d \in 0 .. n - 1}
              t == Touch(st.touched, view.slab, view.off, view.off + n)
  <2>1. PICK m : w = [st EXCEPT !.mem = m, !.wrote = @ \cup cells, !.touched = t]
    BY <1>4 DEF WriteRow
  <2>2. view.off \in Int /\ view.off + n \in Int
    BY <1>1, <1>4
  <2>3. /\ Hulls(t) /\ Within(t, view.slab, view.off, view.off + n)
        /\ \A s \in DOMAIN st.touched : Within(t, s, st.touched[s][1], st.touched[s][2])
    BY <2>2, TouchCovers DEF Covered
  <2>. HIDE DEF w, t, n
  <2>4. ASSUME NEW c \in cells PROVE c[2] \in Int /\ Within(t, c[1], c[2], c[2] + 1)
    <3>1. PICK d \in 0 .. n - 1 : c = <<view.slab, view.off + d>>
      OBVIOUS
    <3>2. c[1] = view.slab /\ c[2] = view.off + d /\ d \in Int /\ 0 <= d /\ d + 1 <= n
      BY <1>1, <3>1
    <3>3. view.slab \in DOMAIN t /\ t[view.slab][1] \in Int /\ t[view.slab][2] \in Int
      BY <2>3 DEF Hulls, Within
    <3>4. QED
      BY <1>1, <2>2, <2>3, <3>2, <3>3 DEF Within
  <2>5. ASSUME NEW c \in st.wrote PROVE c[2] \in Int /\ Within(t, c[1], c[2], c[2] + 1)
    <3>1. c[2] \in Int /\ Within(st.touched, c[1], c[2], c[2] + 1)
      BY DEF Covered
    <3>2. c[1] \in DOMAIN st.touched /\ st.touched[c[1]][1] \in Int /\ st.touched[c[1]][2] \in Int
      BY <3>1 DEF Within, Covered, Hulls
    <3>3. Within(t, c[1], st.touched[c[1]][1], st.touched[c[1]][2])
      BY <2>3, <3>2
    <3>4. t[c[1]][1] \in Int /\ t[c[1]][2] \in Int
      BY <2>3, <3>3 DEF Within, Hulls
    <3>5. QED
      BY <3>1, <3>2, <3>3, <3>4 DEF Within
  <2>. HIDE DEF cells
  <2>6. DOMAIN w = DOMAIN st /\ w.code = st.code /\ w.wrote = st.wrote \cup cells /\ w.touched = t
    BY <2>1 DEF Covered
  <2>7. QED
    BY <2>3, <2>4, <2>5, <2>6 DEF Covered, w
<1>5. QED
  BY <1>2, <1>3, <1>4

\* A pointer into a tensor of the board is a number.
LEMMA TargetIsInt ==
  ASSUME board \in Cases, NEW y, y.off \in Int, NEW n, HasAddress(View(y, n))
  PROVE  View(y, n).off \in Int
<1>1. y.t \in DOMAIN board.tensors /\ View(y, n) = SlabView(board.tensors[y.t], y.off, n)
  BY DEF View, Rec, HasAddress, Failed
<1>. DEFINE rec == board.tensors[y.t]
<1>2. /\ Len(rec.extents) \in Nat
      /\ \A k \in 1 .. Len(rec.extents) : rec.extents[k].off \in Nat /\ rec.extents[k].nbytes \in Nat
  BY <1>1, BoardAssumption
<1>. HIDE DEF rec
<1>3. HasAddress(SlabView(rec, y.off, n)) /\ View(y, n) = SlabView(rec, y.off, n)
  BY <1>1 DEF rec
<1>4. QED
  BY <1>2, <1>3, ViewOffset

\* The rows of a SET_ROWS, one after the other.
LEMMA ScatterCovers ==
  ASSUME board \in Cases, NEW op \in board.ops, op.kind = "SET_ROWS", NEW src, NEW idx
  PROVE  Covered(ScatterRows(op, src, idx))
<1>. DEFINE rows == Rows(op)
            n == Len(rows)
            b == [code |-> "ok", mem |-> mem, wrote |-> {}, touched |-> <<>>]
            St(x, k) == SetRowsStep(op, src, x, rows[k], TableIndex(op, idx, rows[k]))
            Solves(f, m) == f = [k \in 0 .. m |-> IF k = 0 THEN b ELSE St(f[k - 1], k)]
            g == CHOOSE f : Solves(f, n)
            Good(x) == Covered(x)
<1>0. /\ op.dst = [t |-> op.dst.t, off |-> op.dst.off] /\ op.dst.off \in Nat
      /\ {op.n, op.planes, op.head_dim, op.dst_nb1, op.dst_nb2} \subseteq Nat
  BY BoardAssumption
<1>1. n \in Nat /\ \A k \in 1 .. n : rows[k] \in Nat \X Nat
  <2>1. rows \in Seq(Nat \X Nat)
    BY <1>0, RowsAre
  <2>. HIDE DEF rows
  <2>2. QED
    BY <2>1
<1>2. ScatterRows(op, src, idx) = g[n]
  BY DEF ScatterRows
<1>3. Good(b)
  BY DEF Covered, Hulls
<1>4. \A x, k : k \in 1 .. n /\ Good(x) => Good(St(x, k))
  <2>1. SUFFICES ASSUME NEW x, NEW k \in 1 .. n, Covered(x) PROVE Covered(St(x, k))
    OBVIOUS
  <2>. DEFINE r == rows[k]
              row == TableIndex(op, idx, r)
              y == [op.dst EXCEPT !.off = @ + row * op.dst_nb1 + r[2] * op.dst_nb2]
              view == View(y, op.head_dim * F16)
  <2>2. row \in Int /\ r[2] \in Nat
    BY <1>1, IndexIsInt
  <2>3. CASE x.code # "ok"
    BY <2>1, <2>3 DEF SetRowsStep
  <2>4. CASE x.code = "ok" /\ row < 0
    <3>1. St(x, k) = [x EXCEPT !.code = "invalid_request"]
      BY <2>4 DEF SetRowsStep
    <3>. HIDE DEF St
    <3>2. QED
      BY <2>1, <3>1 DEF Covered
  <2>5. CASE x.code = "ok" /\ ~(row < 0)
    <3>1. PICK h, a : St(x, k) = WriteRow(op, x, y, view, h, a)
      BY <2>5 DEF SetRowsStep
    <3>. HIDE DEF St, row, r
    <3>2. y.off \in Int
      <4>1. row * op.dst_nb1 \in Int /\ r[2] * op.dst_nb2 \in Int
        BY <1>0, <2>2
      <4>2. y.off = op.dst.off + row * op.dst_nb1 + r[2] * op.dst_nb2
        BY <1>0
      <4>3. QED
        BY <1>0, <4>1, <4>2
    <3>. HIDE DEF y
    <3>3. HasAddress(view) => view.off \in Int
      BY <3>2, TargetIsInt
    <3>. HIDE DEF view
    <3>4. QED
      BY <1>0, <2>1, <3>1, <3>3, WriteRowCovers
  <2>6. QED
    BY <2>3, <2>4, <2>5
<1>. HIDE DEF b, St, rows, n
<1>5. \E f : Solves(f, n)
  <2>. DEFINE T == {m \in Nat : \E f : Solves(f, m)}
  <2>1. 0 \in T
    <3>1. Solves([k \in 0 .. 0 |-> b], 0)
      <4>1. [k \in 0 .. 0 |-> b] = [k \in 0 .. 0 |-> IF k = 0 THEN b ELSE St([j \in 0 .. 0 |-> b][k - 1], k)]
        OBVIOUS
      <4>2. QED
        BY <4>1
    <3>2. QED
      BY <3>1
  <2>2. ASSUME NEW m \in Nat, m \in T PROVE m + 1 \in T
    <3>1. PICK f : Solves(f, m)
      BY <2>2
    <3>. DEFINE h == [k \in 0 .. m + 1 |-> IF k = m + 1 THEN St(f[m], m + 1) ELSE f[k]]
    <3>2. \A k \in 0 .. m : f[k] = IF k = 0 THEN b ELSE St(f[k - 1], k)
      BY <3>1
    <3>3. ASSUME NEW k \in 0 .. m + 1 PROVE h[k] = IF k = 0 THEN b ELSE St(h[k - 1], k)
      <4>1. CASE k = m + 1
        <5>1. k # 0 /\ k - 1 = m /\ m \in 0 .. m + 1 /\ m # m + 1
          BY <4>1
        <5>2. h[m] = f[m]
          BY <5>1
        <5>3. QED
          BY <4>1, <5>1, <5>2
      <4>2. CASE k # m + 1 /\ k # 0
        <5>1. k \in 0 .. m /\ k - 1 \in 0 .. m + 1 /\ k - 1 # m + 1
          BY <4>2
        <5>2. h[k] = f[k] /\ h[k - 1] = f[k - 1]
          BY <4>2, <5>1
        <5>3. QED
          BY <3>2, <4>2, <5>1, <5>2
      <4>3. CASE k = 0
        <5>1. k \in 0 .. m /\ k # m + 1
          BY <4>3
        <5>2. QED
          BY <3>2, <4>3, <5>1
      <4>4. QED
        BY <4>1, <4>2, <4>3
    <3>4. h = [k \in 0 .. m + 1 |-> h[k]]
      OBVIOUS
    <3>. HIDE DEF h
    <3>5. [k \in 0 .. m + 1 |-> h[k]] = [k \in 0 .. m + 1 |-> IF k = 0 THEN b ELSE St(h[k - 1], k)]
      BY <3>3
    <3>6. Solves(h, m + 1)
      BY <3>4, <3>5
    <3>7. QED
      BY <3>6
  <2>. HIDE DEF T
  <2>3. \A m \in Nat : m \in T
    BY <2>1, <2>2, NatSetInduction
  <2>4. QED
    BY <1>1, <2>3 DEF T
<1>6. Solves(g, n)
  BY <1>5
<1>. HIDE DEF g
<1>7. g[0] = b /\ \A k \in 1 .. n : g[k] = St(g[k - 1], k)
  <2>1. 0 \in 0 .. n /\ \A k \in 1 .. n : k \in 0 .. n /\ k # 0
    BY <1>1
  <2>2. QED
    BY <1>6, <2>1
<1>. HIDE DEF Solves
<1>. HIDE DEF Good
<1>8. Good(g[n])
  <2>. DEFINE T == {k \in Nat : k <= n => Good(g[k])}
  <2>1. 0 \in T
    BY <1>3, <1>7
  <2>2. ASSUME NEW k \in Nat, k \in T PROVE k + 1 \in T
    <3>1. SUFFICES ASSUME k + 1 <= n PROVE Good(g[k + 1])
      OBVIOUS
    <3>2. k + 1 \in 1 .. n /\ (k + 1) - 1 = k /\ k <= n
      BY <1>1, <3>1
    <3>3. Good(g[k])
      BY <2>2, <3>2
    <3>4. g[k + 1] = St(g[k], k + 1)
      BY <1>7, <3>2
    <3>5. QED
      BY <1>4, <3>2, <3>3, <3>4
  <2>. HIDE DEF T
  <2>3. \A k \in Nat : k \in T
    BY <2>1, <2>2, NatSetInduction
  <2>4. QED
    BY <1>1, <2>3 DEF T
<1>9. QED
  BY <1>2, <1>8 DEF Good

\* SET_ROWS: its rows resolve their tensor by themselves, and all they touch is flushed.
LEMMA SetRowsFlushes ==
  ASSUME board \in Cases, NEW op \in board.ops, SetRows(op)
  PROVE  last'.code # "multi_extent" /\ FlushCovers'
<1>. DEFINE ni == op.indices_nb1 * op.idx_planes
            src == InPtr("src0", op.src0, op.src0_nb2 * op.planes)
            end == ScatterRows(op, src, IndicesOf(op))
<1>1. \A x, n : RangeCode(x, n) # "multi_extent"
  BY DEF RangeCode
<1>2. src.code # "multi_extent"
  BY InHidden
<1>3. op.kind = "SET_ROWS"
  BY DEF SetRows, Takes
<1>4. Covered(end)
  BY <1>3, ScatterCovers
<1>5. \/ \E code : code # "multi_extent" /\ Raise(op, code)
      \/ RowsSet(op, end)
  BY <1>1, <1>2 DEF SetRows
<1>. HIDE DEF end
<1>6. CASE \E code : code # "multi_extent" /\ Raise(op, code)
  BY <1>6 DEF Raise, Outcome, FlushCovers
<1>7. CASE RowsSet(op, end)
  <2>. DEFINE flushed == {<<s, end.touched[s]>> : s \in DOMAIN end.touched}
  <2>1. /\ last'.code = end.code /\ last'.wrote = end.wrote
        /\ end.code = "ok" => last'.flushed = flushed
    BY <1>7 DEF RowsSet, Outcome
  <2>2. ASSUME NEW c \in end.wrote
        PROVE  \E f \in flushed : f[1] = c[1] /\ c[2] \in f[2][1] .. f[2][2] - 1
    <3>. DEFINE s == c[1]
                f == <<s, end.touched[s]>>
    <3>1. c[2] \in Int /\ Within(end.touched, s, c[2], c[2] + 1)
      BY <1>4 DEF Covered
    <3>2. s \in DOMAIN end.touched /\ end.touched[s][1] \in Int /\ end.touched[s][2] \in Int
      BY <1>4, <3>1 DEF Within, Covered, Hulls
    <3>3. f \in flushed /\ f[1] = s /\ f[2] = end.touched[s]
      BY <3>2
    <3>4. c[2] \in end.touched[s][1] .. end.touched[s][2] - 1
      BY <3>1, <3>2 DEF Within
    <3>5. QED
      BY <3>3, <3>4
  <2>. HIDE DEF flushed
  <2>3. FlushCovers'
    BY <2>1, <2>2 DEF FlushCovers
  <2>4. QED
    BY <1>4, <2>1, <2>3 DEF Covered
<1>8. QED
  BY <1>5, <1>6, <1>7

-----------------------------------------------------------------------------
(* The theorems. *)

\* Only SET_ROWS writes rows in place.
LEMMA AttnWritesNoRows ==
  ASSUME NEW op, FlashAttnExtF32(op)
  PROVE  last'.wrote = {}
BY DEF FlashAttnExtF32, Native, Raise, Done, Outcome

LEMMA GetRowsWritesNoRows ==
  ASSUME NEW op, GetRows(op)
  PROVE  last'.wrote = {}
BY DEF GetRows, Raise, RowsGot, Outcome

\* A board is chosen once.
LEMMA BoardStays ==
  ASSUME PNext
  PROVE  board' = board
<1>1. PICK op \in board.ops :
        \/ BinaryF32(op)     \/ UnaryF32(op)   \/ SwigluF32(op)  \/ RmsNormF32(op)
        \/ RmsNormMulF32(op) \/ RopeF32(op)    \/ Copy(op)       \/ CopyF32ToF16(op)
        \/ MatmulQ1A8(op)    \/ GetRows(op)    \/ SetRows(op)    \/ FlashAttnExtF32(op)
  BY DEF PNext
<1>2. CASE BinaryF32(op)
  BY <1>2 DEF BinaryF32, Native, Raise, Done, Outcome
<1>3. CASE UnaryF32(op)
  BY <1>3 DEF UnaryF32, Native, Raise, Done, Outcome
<1>4. CASE SwigluF32(op)
  BY <1>4 DEF SwigluF32, Native, Raise, Done, Outcome
<1>5. CASE RmsNormF32(op)
  BY <1>5 DEF RmsNormF32, Native, Raise, Done, Outcome
<1>6. CASE RmsNormMulF32(op)
  BY <1>6 DEF RmsNormMulF32, Native, Raise, Done, Outcome
<1>7. CASE RopeF32(op)
  BY <1>7 DEF RopeF32, Native, Raise, Done, Outcome
<1>8. CASE Copy(op)
  BY <1>8 DEF Copy, Raise, Done, Outcome
<1>9. CASE CopyF32ToF16(op)
  BY <1>9 DEF CopyF32ToF16, Native, Raise, Done, Outcome
<1>10. CASE MatmulQ1A8(op)
  BY <1>10 DEF MatmulQ1A8, Raise, Done, Outcome
<1>11. CASE GetRows(op)
  BY <1>11 DEF GetRows, Raise, RowsGot, Outcome
<1>12. CASE SetRows(op)
  BY <1>12 DEF SetRows, Raise, RowsSet, Outcome
<1>13. CASE FlashAttnExtF32(op)
  BY <1>13 DEF FlashAttnExtF32, Native, Raise, Done, Outcome
<1>14. QED
  BY <1>1, <1>2, <1>3, <1>4, <1>5, <1>6, <1>7, <1>8, <1>9, <1>10, <1>11, <1>12, <1>13

\* What any op leaves in last: rows in place are flushed, and a cut is no reason to fail.
LEMMA OpKeeps ==
  ASSUME board \in Cases, PNext
  PROVE  /\ board' \in Cases /\ FlushCovers'
         /\ RowsUncut => CutsAreHidden'
<1>1. PICK op \in board.ops :
        \/ BinaryF32(op)     \/ UnaryF32(op)   \/ SwigluF32(op)  \/ RmsNormF32(op)
        \/ RmsNormMulF32(op) \/ RopeF32(op)    \/ Copy(op)       \/ CopyF32ToF16(op)
        \/ MatmulQ1A8(op)    \/ GetRows(op)    \/ SetRows(op)    \/ FlashAttnExtF32(op)
  BY DEF PNext
<1>2. board' = board
  BY BoardStays
<1>3. last'.wrote = {} => FlushCovers'
  BY DEF FlushCovers
<1>4. CASE \/ BinaryF32(op)     \/ UnaryF32(op)   \/ SwigluF32(op)  \/ RmsNormF32(op)
           \/ RmsNormMulF32(op) \/ RopeF32(op)    \/ Copy(op)       \/ CopyF32ToF16(op)
           \/ MatmulQ1A8(op)
  <2>1. last'.code # "multi_extent" /\ last'.wrote = {}
    BY <1>4, BinaryF32Hidden, UnaryF32Hidden, SwigluF32Hidden, RmsNormF32Hidden, RmsNormMulF32Hidden,
       RopeF32Hidden, CopyHidden, CopyF32ToF16Hidden
  <2>2. QED
    BY <1>2, <1>3, <2>1 DEF CutsAreHidden
<1>5. CASE GetRows(op)
  BY <1>2, <1>3, <1>5, GetRowsWritesNoRows, GetRowsHidden DEF CutsAreHidden
<1>6. CASE SetRows(op)
  BY <1>2, <1>6, SetRowsFlushes DEF CutsAreHidden
<1>7. CASE FlashAttnExtF32(op)
  BY <1>2, <1>3, <1>7, AttnWritesNoRows, AttnHidden DEF CutsAreHidden
<1>8. QED
  BY <1>1, <1>4, <1>5, <1>6, <1>7

\* For any boards and ops: when SET_ROWS has succeeded, every cell that a row wrote in place lies
\* in a range it flushed of the same slab, in whichever order and slabs the rows lie, and
\* whichever of them went through a copy instead.
THEOREM RowsAreFlushed == PSpec => []FlushCovers
<1>. DEFINE Inv == board \in Cases /\ FlushCovers
<1>1. PInit => Inv
  BY DEF PInit, FlushCovers
<1>2. Inv /\ [PNext]_pvars => Inv'
  <2>1. CASE PNext
    BY <2>1, OpKeeps
  <2>2. CASE UNCHANGED pvars
    BY <2>2 DEF pvars, FlushCovers
  <2>3. QED
    BY <2>1, <2>2
<1>3. QED
  BY <1>1, <1>2, PTL DEF PSpec

\* If no row that a GET_ROWS may read or write is cut, then on PYNQ slabs no op of any board fails
\* because of where the allocator has cut its tensors.
THEOREM CutsStayHidden == ASSUME RowsUncut PROVE PSpec => []CutsAreHidden
<1>. DEFINE Inv == board \in Cases /\ CutsAreHidden
<1>1. PInit => Inv
  BY DEF PInit, CutsAreHidden
<1>2. Inv /\ [PNext]_pvars => Inv'
  <2>1. CASE PNext
    BY <2>1, OpKeeps
  <2>2. CASE UNCHANGED pvars
    BY <2>2 DEF pvars, CutsAreHidden
  <2>3. QED
    BY <2>1, <2>2
<1>3. QED
  BY <1>1, <1>2, PTL DEF PSpec
=============================================================================
