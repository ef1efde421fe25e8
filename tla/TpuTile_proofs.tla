--------------------------- MODULE TpuTile_proofs ---------------------------
(***************************************************************************)
(* The tile's invariants, and that it implements TileSpec, for every       *)
(* number of rows and columns and every bus width.                         *)
(***************************************************************************)
EXTENDS TpuTile, SetInduction, TLAPS

-----------------------------------------------------------------------------
(* Arithmetic of bytes and partial sums. *)

\* A partial sum wraps into its range.
LEMMA AddPsumType ==
  ASSUME NEW p \in Int, NEW x \in Int
  PROVE  AddPsum(p, x) \in Psum
<1>1. BYTE * BYTE \in Nat /\ BYTE * BYTE > 0
  BY TileAssumption
<1>2. \A n \in Nat : n > 0 => (p + x) % n \in 0 .. n - 1
  OBVIOUS
<1>3. QED
  BY <1>1, <1>2 DEF AddPsum, Psum

\* Replacing a byte of a partial sum by a byte gives a partial sum.
LEMMA SetByteType ==
  ASSUME NEW v \in Psum, NEW b \in 0 .. PsumBytes - 1, NEW x \in Byte
  PROVE  SetByte(v, b, x) \in Psum
<1>1. BYTE \in Nat /\ BYTE > 1
  BY TileAssumption
<1>. DEFINE q == v \div BYTE
            m == v % BYTE
<1>2. /\ v \in Nat /\ v < BYTE * BYTE /\ x \in Nat /\ x <= BYTE - 1
  BY <1>1 DEF Psum, Byte
<1>3. q \in Nat /\ m \in Nat /\ m <= BYTE - 1 /\ v = q * BYTE + m
  BY <1>1, <1>2
<1>4. q <= BYTE - 1
  BY <1>1, <1>2, <1>3
<1>5. q * BYTE <= (BYTE - 1) * BYTE /\ x * BYTE <= (BYTE - 1) * BYTE
  BY <1>1, <1>2, <1>3, <1>4
<1>6. QED
  BY <1>1, <1>2, <1>3, <1>5 DEF SetByte, Psum
-----------------------------------------------------------------------------
(* Type correctness of the parts every command shares. *)

CtrlType == /\ state \in {"IDLE", "LOAD", "RUN"}
            /\ step \in 0 .. COMPUTE_LAST_STEP
            /\ done_latched \in BOOLEAN /\ weight_done \in BOOLEAN

ArrayType == /\ weight_q \in [Row -> [Col -> Bit]]
             /\ act_out \in [Row -> [Col -> Act]]
             /\ psum_out \in [Row -> [Col -> Psum]]
             /\ valid_out \subseteq Row \X Col

\* The reset values fit every register they are given to.
LEMMA ZeroTypes ==
  /\ 0 \in Act /\ 0 \in Psum /\ 0 \in Bit
  /\ Zero(Col) \in [Col -> Act] /\ Zero(Col) \in [Col -> Psum]
  /\ Zero(Col) \in [Col -> Bit] /\ Zero(Row) \in [Row -> Psum]
<1>1. BYTE \div 2 \in Nat /\ BYTE \div 2 >= 1
  BY TileAssumption
<1>2. BYTE * BYTE \in Nat /\ BYTE * BYTE >= 1
  BY TileAssumption
<1>3. QED
  BY <1>1, <1>2 DEF Act, Psum, Bit, Zero

\* The control FSM keeps its states and its step counter in range: step stops
\* at COLS-1 while loading and at COMPUTE_LAST_STEP while running.
LEMMA TileCtrlType ==
  ASSUME TypeOK, LoadInv, NEW s \in BOOLEAN, TileCtrl(s)
  PROVE  CtrlType'
<1>1. /\ state' \in {"IDLE", "LOAD", "RUN"}
      /\ done_latched' \in BOOLEAN /\ weight_done' \in BOOLEAN
  BY Zenon DEF TypeOK, TileCtrl, ctrl
<1>2. step' \in 0 .. COMPUTE_LAST_STEP
  <2>1. LoadPhase => step < COLS
    BY DEF LoadInv
  <2>2. step \in 0 .. COMPUTE_LAST_STEP
    BY DEF TypeOK
  <2>3. \/ step' = 0
        \/ step' = step
        \/ step' = step + 1 /\ ((LoadPhase /\ step # COLS - 1) \/ step < COMPUTE_LAST_STEP)
    BY Zenon DEF TileCtrl, ctrl
  <2>4. QED
    BY <2>1, <2>2, <2>3, TileAssumption DEF COMPUTE_LAST_STEP
<1>3. QED
  BY <1>1, <1>2 DEF CtrlType

\* What the edges of the array and the neighbours feed a PE has the PE's widths.
LEMMA WiresType ==
  ASSUME TypeOK, LoadInv, NEW r \in Row, NEW c \in Col
  PROVE  /\ LoadPhase => WeightIn(r, c) \in Bit
         /\ ActIn(r, c) \in Act
         /\ PsumIn(r, c) \in Psum
<1>. USE TileAssumption DEF Row, Col
<1>1. LoadPhase => WeightIn(r, c) \in Bit
  BY DEF TypeOK, LoadInv, LoadPhase, WeightIn, COMPUTE_LAST_STEP
<1>2. ActIn(r, c) \in Act
  BY ZeroTypes DEF TypeOK, ActIn
<1>3. PsumIn(r, c) \in Psum
  BY ZeroTypes DEF TypeOK, PsumIn
<1>4. QED
  BY <1>1, <1>2, <1>3

\* The PE registers keep their widths over an edge.
LEMMA PeArrayType ==
  ASSUME TypeOK, LoadInv, PeArray
  PROVE  ArrayType'
<1>1. CASE LoadPhase
  <2>1. weight_q' \in [Row -> [Col -> Bit]]
    BY <1>1, WiresType DEF PeArray
  <2>2. QED
    BY <1>1, <2>1, ZeroTypes DEF PeArray, ArrayType
<1>2. CASE ~LoadPhase
  <2>1. weight_q' \in [Row -> [Col -> Bit]]
    BY <1>2 DEF PeArray, TypeOK
  <2>2. act_out' \in [Row -> [Col -> Act]]
    BY <1>2, WiresType DEF PeArray
  <2>3. ASSUME NEW r \in Row, NEW c \in Col
        PROVE  AddPsum(PsumIn(r, c), Contrib(weight_q[r][c], ActIn(r, c))) \in Psum
    <3>1. PsumIn(r, c) \in Int
      BY WiresType DEF Psum
    <3>2. Contrib(weight_q[r][c], ActIn(r, c)) \in Int
      BY WiresType DEF Act, Contrib
    <3>3. QED
      BY <3>1, <3>2, AddPsumType
  <2>4. psum_out' \in [Row -> [Col -> Psum]]
    BY <1>2, <2>3, ZeroTypes DEF PeArray
  <2>5. valid_out' \subseteq Row \X Col
    BY <1>2 DEF PeArray
  <2>6. QED
    BY <2>1, <2>2, <2>4, <2>5 DEF ArrayType
<1>3. QED
  BY <1>1, <1>2

\* What tpu_acc_mem captures is a partial sum of an existing row.
LEMMA CapturedType ==
  ASSUME TypeOK
  PROVE  Captured \in [Row -> Psum] /\ Exiting \subseteq Row
BY TileAssumption DEF TypeOK, Captured, Exiting, Row, Col
-----------------------------------------------------------------------------
(* What any command but CLEAR does to the pipeline. *)

Advance(s) ==
  /\ TileCtrl(s) /\ PeArray
  /\ ~Idle => UNCHANGED <<weight_mem, act_mem>>
  /\ acc_done' = IF Idle /\ s THEN {} ELSE acc_done \cup Exiting

\* Every command but CLEAR and reset advances controller, array and capture alike.
LEMMA NextIsAdvance ==
  ASSUME Next
  PROVE  Clear \/ Reset \/ \E s \in BOOLEAN : Advance(s)
<1>1. ASSUME NEW row \in RowSel, NEW bits \in [Col -> Bit], Ldw(row, bits)
      PROVE  Advance(FALSE)
  BY <1>1 DEF Ldw, Advance, Capture
<1>2. ASSUME NEW col \in ColSel, NEW a \in Act, Lda(col, a)
      PROVE  Advance(FALSE)
  BY <1>2 DEF Lda, Advance, Capture
<1>3. ASSUME NEW row \in RowSel, NEW b \in 0 .. PsumBytes - 1, NEW x \in Byte, Seed(row, b, x)
      PROVE  Advance(FALSE)
  BY <1>3 DEF Seed, Advance
<1>4. ASSUME Start PROVE Advance(TRUE)
  BY <1>4 DEF Start, Advance
<1>5. ASSUME Observe PROVE Advance(FALSE)
  BY <1>5 DEF Observe, Advance, Capture
<1>6. QED
  BY <1>1, <1>2, <1>3, <1>4, <1>5 DEF Next

\* The wavefront moves one column to the right per edge, and out of the last.
LEMMA ValidMoves ==
  ASSUME PeArray, ~LoadPhase, NEW r \in Row, NEW c \in Col
  PROVE  <<r, c>> \in valid_out' <=> ValidIn(r, c)
BY DEF PeArray

\* An edge of an idle chip keeps the pipeline invariant; START may begin a load.
LEMMA AdvanceIdle ==
  ASSUME TypeOK, PipelineInv, Idle, NEW s \in BOOLEAN, Advance(s)
  PROVE  PipelineInv'
<1>. USE DEF Idle, LoadPhase, RunPhase
<1>1. valid_out = {} /\ Exiting = {}
  BY DEF PipelineInv, IdleInv, Exiting
<1>2. valid_out' = {}
  BY <1>1 DEF Advance, PeArray, ValidIn
<1>3. CASE s
  <2>1. state' = "LOAD" /\ step' = 0 /\ ~done_latched' /\ acc_done' = {}
    BY <1>3 DEF Advance, TileCtrl
  <2>2. \A r \in Row, c \in Col : ~(c < step')
    BY <2>1, TileAssumption DEF Col
  <2>3. LoadInv'
    BY <1>2, <2>1, <2>2, TileAssumption DEF LoadInv
  <2>4. QED
    BY <2>1, <2>3 DEF PipelineInv, IdleInv, WaveInv, WeightInv, DoneMeansCaptured
<1>4. CASE ~s
  <2>1. UNCHANGED ctrl
    BY <1>4 DEF Advance, TileCtrl
  <2>2. acc_done' = acc_done
    BY <1>1, <1>4 DEF Advance
  <2>3. QED
    BY <1>2, <2>1, <2>2
    DEF PipelineInv, IdleInv, LoadInv, WaveInv, WeightInv, DoneMeansCaptured, ctrl, AllRowsDone
<1>5. QED
  BY <1>3, <1>4

\* An edge of the weight load keeps the pipeline invariant; the last one starts
\* the wavefront with every weight in its PE.
LEMMA AdvanceLoad ==
  ASSUME TypeOK, PipelineInv, LoadPhase, NEW s \in BOOLEAN, Advance(s)
  PROVE  PipelineInv'
<1>. USE TileAssumption DEF Idle, LoadPhase, RunPhase
<1>1. /\ step \in Nat /\ step < COLS /\ valid_out = {} /\ acc_done = {} /\ ~done_latched
      /\ \A r \in Row, c \in Col : c < step => weight_q[r][c] = weight_mem[r][(COLS - step) + c]
  BY DEF TypeOK, PipelineInv, LoadInv, DoneMeansCaptured
<1>2. Exiting = {} /\ acc_done' = {} /\ valid_out' = {}
  BY <1>1 DEF Advance, PeArray, Exiting
<1>3. /\ weight_mem' = weight_mem
      /\ weight_q' = [r \in Row |-> [c \in Col |-> WeightIn(r, c)]]
  BY DEF Advance, PeArray
<1>4. ASSUME NEW r \in Row, NEW c \in Col, c < step + 1
      PROVE  weight_q'[r][c] = weight_mem'[r][(COLS - (step + 1)) + c]
  <2>1. CASE c = 0
    BY <1>1, <1>3, <2>1 DEF WeightIn
  <2>2. CASE c > 0
    <3>1. c - 1 \in Col /\ c - 1 < step
      BY <1>1, <1>4, <2>2 DEF Col
    <3>2. weight_q'[r][c] = weight_q[r][c - 1]
      BY <1>3, <2>2 DEF WeightIn, Col
    <3>3. weight_q[r][c - 1] = weight_mem[r][(COLS - step) + (c - 1)]
      BY <1>1, <3>1
    <3>4. (COLS - step) + (c - 1) = (COLS - (step + 1)) + c
      BY <1>1 DEF Col
    <3>5. QED
      BY <1>3, <3>2, <3>3, <3>4
  <2>3. QED
    BY <2>1, <2>2 DEF Col
<1>5. CASE step = COLS - 1
  <2>1. state' = "RUN" /\ step' = 0 /\ weight_done' = TRUE /\ ~done_latched'
    BY <1>1, <1>5 DEF Advance, TileCtrl
  <2>2. \A r \in Row, c \in Col : weight_q'[r][c] = weight_mem'[r][c]
    <3>1. \A c \in Col : c < step + 1 /\ (COLS - (step + 1)) + c = c
      BY <1>5 DEF Col
    <3>2. QED
      BY <3>1, <1>4
  <2>3. weight_q' = weight_mem'
    BY <1>3, <2>2 DEF TypeOK
  <2>4. WaveInv'
    BY <1>2, <2>1 DEF WaveInv, Row, Col
  <2>5. QED
    BY <2>1, <2>3, <2>4 DEF PipelineInv, IdleInv, LoadInv, WeightInv, DoneMeansCaptured
<1>6. CASE step # COLS - 1
  <2>1. state' = "LOAD" /\ step' = step + 1 /\ ~done_latched'
    BY <1>1, <1>6 DEF Advance, TileCtrl
  <2>2. step' < COLS
    BY <1>1, <1>6, <2>1
  <2>3. LoadInv'
    BY <1>2, <1>4, <2>1, <2>2 DEF LoadInv
  <2>4. QED
    BY <2>1, <2>3 DEF PipelineInv, IdleInv, WaveInv, WeightInv, DoneMeansCaptured
<1>7. QED
  BY <1>5, <1>6

\* What the controller does on an edge of a run, without its Boolean inputs.
LEMMA RunCtrl ==
  ASSUME RunPhase, NEW s \in BOOLEAN, TileCtrl(s)
  PROVE  \/ /\ step < COMPUTE_LAST_STEP
            /\ step' = step + 1
            /\ UNCHANGED <<state, done_latched, weight_done>>
         \/ /\ step >= COMPUTE_LAST_STEP /\ AllRowsDone
            /\ state' = "IDLE" /\ done_latched' = TRUE
            /\ UNCHANGED <<step, weight_done>>
         \/ /\ step >= COMPUTE_LAST_STEP /\ ~AllRowsDone
            /\ UNCHANGED <<state, step, done_latched, weight_done>>
BY Zenon DEF TileCtrl, ctrl, Idle, LoadPhase, RunPhase

\* An edge of a run keeps the pipeline invariant: the wavefront moves one
\* anti-diagonal, and the rows it leaves are captured.
LEMMA AdvanceRun ==
  ASSUME TypeOK, PipelineInv, RunPhase, NEW s \in BOOLEAN, Advance(s)
  PROVE  PipelineInv'
<1>. USE TileAssumption DEF Idle, LoadPhase, RunPhase
<1>. DEFINE last == ROWS - 1
<1>0. last \in Row /\ COLS - 1 \in Col
  BY DEF Row, Col
<1>1. /\ step \in Nat /\ step <= COMPUTE_LAST_STEP /\ acc_done \subseteq Row
      /\ \A r \in Row, c \in Col :
           <<r, c>> \in valid_out <=> step = r + c + 1 /\ last \notin acc_done
      /\ \A r \in Row, c \in Col : <<r, c>> \in valid_out => act_out[r][c] = act_mem[c]
      /\ \A r \in Row : r < last => (r \in acc_done <=> step > r + COLS)
      /\ last \in acc_done => step = COMPUTE_LAST_STEP
      /\ weight_done /\ weight_q = weight_mem /\ ~done_latched
  BY DEF TypeOK, COMPUTE_LAST_STEP, PipelineInv, WaveInv, WeightInv, DoneMeansCaptured
<1>2. /\ UNCHANGED <<weight_mem, act_mem, weight_q>>
      /\ act_out' = [r \in Row |-> [c \in Col |-> ActIn(r, c)]]
      /\ acc_done' = acc_done \cup Exiting
      /\ valid_out' \subseteq Row \X Col
      /\ \A r \in Row, c \in Col : <<r, c>> \in valid_out' <=> ValidIn(r, c)
  BY ValidMoves DEF Advance, PeArray
<1>3. \A r \in Row, c \in Col :
        ValidIn(r, c) <=> step = r + c /\ (c > 0 => last \notin acc_done)
  BY <1>1 DEF ValidIn, Row, Col
<1>4. \A r \in Row : r \in Exiting <=> step = r + COLS /\ last \notin acc_done
  BY <1>0, <1>1 DEF Exiting, Row, Col
<1>5. TileCtrl(s)
  BY DEF Advance
<1>6. /\ step < COMPUTE_LAST_STEP =>
           /\ step' = step + 1
           /\ UNCHANGED <<state, done_latched, weight_done>>
      /\ ~(step < COMPUTE_LAST_STEP) /\ AllRowsDone =>
           /\ state' = "IDLE" /\ UNCHANGED <<step, weight_done>>
      /\ ~(step < COMPUTE_LAST_STEP) /\ ~AllRowsDone =>
            UNCHANGED <<state, step, done_latched, weight_done>>
  <2>1. step < COMPUTE_LAST_STEP <=> ~(step >= COMPUTE_LAST_STEP)
    BY <1>1 DEF COMPUTE_LAST_STEP
  <2>2. QED
    BY <1>5, <2>1, RunCtrl, Zenon
<1>7. CASE step < COMPUTE_LAST_STEP
  <2>1. UNCHANGED <<state, done_latched, weight_done>> /\ step' = step + 1
    BY <1>7, <1>6
  <2>2. last \notin acc_done /\ last \notin acc_done'
    BY <1>0, <1>1, <1>2, <1>4, <1>7 DEF COMPUTE_LAST_STEP
  <2>3. \A r \in Row, c \in Col :
          <<r, c>> \in valid_out' <=> step' = r + c + 1 /\ last \notin acc_done'
    <3>1. ASSUME NEW r \in Row, NEW c \in Col
          PROVE  step = r + c <=> step + 1 = r + c + 1
      BY <1>1 DEF Row, Col
    <3>2. QED
      BY <1>2, <1>3, <2>1, <2>2, <3>1
  <2>4. ASSUME NEW r \in Row, NEW c \in Col, <<r, c>> \in valid_out'
        PROVE  act_out'[r][c] = act_mem'[c]
    <3>1. step = r + c
      BY <1>2, <1>3, <2>4
    <3>2. CASE r = 0
      BY <1>2, <3>1, <3>2 DEF ActIn, Col
    <3>3. CASE r > 0
      <4>1. r - 1 \in Row /\ <<r - 1, c>> \in valid_out
        BY <1>1, <2>2, <3>1, <3>3 DEF Row, Col
      <4>2. QED
        BY <1>1, <1>2, <3>3, <4>1 DEF ActIn
    <3>4. QED
      BY <3>2, <3>3 DEF Row
  <2>5. \A r \in Row : r < last => (r \in acc_done' <=> step' > r + COLS)
    BY <1>1, <1>2, <1>4, <2>1, <2>2 DEF Row
  <2>6. WaveInv'
    BY <2>1, <2>2, <2>3, <2>4, <2>5 DEF WaveInv
  <2>7. QED
    BY <1>1, <1>2, <2>1, <2>6 DEF PipelineInv, IdleInv, LoadInv, WeightInv, DoneMeansCaptured
<1>8. CASE step = COMPUTE_LAST_STEP
  <2>0. ~(step < COMPUTE_LAST_STEP)
    BY <1>1, <1>8 DEF COMPUTE_LAST_STEP
  <2>1. valid_out' = {}
    <3>1. \A r \in Row, c \in Col : ~ValidIn(r, c)
      BY <1>3, <1>8 DEF COMPUTE_LAST_STEP, Row, Col
    <3>2. QED
      BY <1>2, <3>1
  <2>2. \A r \in Row : r < last => r \in acc_done
    BY <1>1, <1>8 DEF COMPUTE_LAST_STEP, Row
  <2>3. \A r \in Row : r = last \/ r < last
    BY DEF Row
  <2>4. last \in acc_done'
    BY <1>0, <1>2, <1>4, <1>8 DEF COMPUTE_LAST_STEP
  <2>5. acc_done' = Row
    <3>1. Exiting \subseteq Row
      BY DEF Exiting
    <3>2. acc_done' \subseteq Row
      BY <1>1, <1>2, <3>1
    <3>3. Row \subseteq acc_done'
      BY <1>2, <2>2, <2>3, <2>4
    <3>4. QED
      BY <3>2, <3>3
  <2>6. CASE AllRowsDone
    <3>1. state' = "IDLE" /\ weight_done' = weight_done
      BY <1>6, <2>0, <2>6, Zenon
    <3>2. QED
      BY <1>1, <2>1, <2>5, <3>1
      DEF PipelineInv, IdleInv, LoadInv, WaveInv, WeightInv, DoneMeansCaptured, AllRowsDone
  <2>7. CASE ~AllRowsDone
    <3>1. UNCHANGED <<state, step, done_latched, weight_done>>
      BY <1>6, <2>0, <2>7, Zenon
    <3>2. \A r \in Row : r < last => step' > r + COLS
      BY <1>8, <3>1 DEF COMPUTE_LAST_STEP, Row
    <3>3. WaveInv'
      BY <1>0, <1>8, <2>1, <2>5, <3>1, <3>2 DEF WaveInv
    <3>4. QED
      BY <1>1, <1>2, <3>1, <3>3 DEF PipelineInv, IdleInv, LoadInv, WeightInv, DoneMeansCaptured
  <2>8. QED
    BY <2>6, <2>7
<1>9. QED
  BY <1>1, <1>7, <1>8 DEF COMPUTE_LAST_STEP
-----------------------------------------------------------------------------
(* The invariant and what follows from it. *)

IInv == TypeOK /\ PipelineInv

\* The reset state satisfies the inductive invariant.
LEMMA InitIInv == Init => IInv
<1>. SUFFICES ASSUME Init PROVE IInv
  OBVIOUS
<1>1. TypeOK
  <2>1. 0 \in 0 .. COMPUTE_LAST_STEP
    BY TileAssumption DEF COMPUTE_LAST_STEP
  <2>2. QED
    BY <2>1, ZeroTypes DEF Init, TypeOK
<1>2. PipelineInv
  BY DEF Init, PipelineInv, IdleInv, LoadInv, WaveInv, WeightInv, DoneMeansCaptured,
         Idle, LoadPhase, RunPhase
<1>3. QED
  BY <1>1, <1>2 DEF IInv

\* Every command keeps every register in its width.
LEMMA NextTypeOK ==
  ASSUME TypeOK, LoadInv, Next
  PROVE  TypeOK'
<1>1. ASSUME NEW row \in RowSel, NEW bits \in [Col -> Bit], Ldw(row, bits)
      PROVE  TypeOK'
  <2>1. CtrlType' /\ ArrayType' /\ Captured \in [Row -> Psum] /\ Exiting \subseteq Row
    BY <1>1, TileCtrlType, PeArrayType, CapturedType DEF Ldw
  <2>2. weight_mem' \in [Row -> [Col -> Bit]]
    BY <1>1 DEF Ldw, TypeOK, RowSel, Row
  <2>3. QED
    BY <1>1, <2>1, <2>2 DEF Ldw, Capture, LatchError, TypeOK, CtrlType, ArrayType
<1>2. ASSUME NEW col \in ColSel, NEW a \in Act, Lda(col, a)
      PROVE  TypeOK'
  <2>1. CtrlType' /\ ArrayType' /\ Captured \in [Row -> Psum] /\ Exiting \subseteq Row
    BY <1>2, TileCtrlType, PeArrayType, CapturedType DEF Lda
  <2>2. act_mem' \in [Col -> Act]
    BY <1>2 DEF Lda, TypeOK, ColSel, Col
  <2>3. QED
    BY <1>2, <2>1, <2>2 DEF Lda, Capture, LatchError, TypeOK, CtrlType, ArrayType
<1>3. ASSUME NEW row \in RowSel, NEW b \in 0 .. PsumBytes - 1, NEW x \in Byte, Seed(row, b, x)
      PROVE  TypeOK'
  <2>1. CtrlType' /\ ArrayType' /\ Captured \in [Row -> Psum] /\ Exiting \subseteq Row
    BY <1>3, TileCtrlType, PeArrayType, CapturedType DEF Seed
  <2>2. acc_q' \in [Row -> Psum]
    <3>1. row < ROWS => row \in Row
      BY TileAssumption DEF RowSel, Row
    <3>2. row \in Row => SetByte(Captured[row], b, x) \in Psum
      BY <2>1, SetByteType
    <3>3. QED
      BY <1>3, <2>1, <3>1, <3>2 DEF Seed
  <2>3. QED
    BY <1>3, <2>1, <2>2 DEF Seed, LatchError, TypeOK, CtrlType, ArrayType
<1>4. CASE Start
  <2>1. CtrlType' /\ ArrayType' /\ Captured \in [Row -> Psum] /\ Exiting \subseteq Row
    BY <1>4, TileCtrlType, PeArrayType, CapturedType DEF Start
  <2>2. QED
    BY <1>4, <2>1 DEF Start, TypeOK, CtrlType, ArrayType
<1>5. CASE Observe
  <2>1. CtrlType' /\ ArrayType' /\ Captured \in [Row -> Psum] /\ Exiting \subseteq Row
    BY <1>5, TileCtrlType, PeArrayType, CapturedType DEF Observe
  <2>2. QED
    BY <1>5, <2>1 DEF Observe, Capture, TypeOK, CtrlType, ArrayType
<1>6. CASE Clear
  <2>1. 0 \in 0 .. COMPUTE_LAST_STEP
    BY TileAssumption DEF COMPUTE_LAST_STEP
  <2>2. QED
    BY <1>6, <2>1, ZeroTypes DEF Clear, ClearCtrl, TypeOK
<1>7. CASE Reset
  <2>1. 0 \in 0 .. COMPUTE_LAST_STEP
    BY TileAssumption DEF COMPUTE_LAST_STEP
  <2>2. QED
    BY <1>7, <2>1, ZeroTypes DEF Reset, ClearCtrl, TypeOK
<1>8. QED
  BY <1>1, <1>2, <1>3, <1>4, <1>5, <1>6, <1>7 DEF Next

\* Every command keeps the pipeline invariant.
LEMMA NextPipelineInv ==
  ASSUME TypeOK, PipelineInv, Next
  PROVE  PipelineInv'
<1>1. ASSUME NEW s \in BOOLEAN, Advance(s)
      PROVE  PipelineInv'
  <2>1. Idle \/ LoadPhase \/ RunPhase
    BY DEF TypeOK, Idle, LoadPhase, RunPhase
  <2>2. QED
    BY <1>1, <2>1, AdvanceIdle, AdvanceLoad, AdvanceRun
<1>2. CASE Clear
  BY <1>2 DEF Clear, ClearCtrl, PipelineInv, IdleInv, LoadInv, WaveInv, WeightInv, DoneMeansCaptured,
              Idle, LoadPhase, RunPhase
<1>3. CASE Reset
  BY <1>3 DEF Reset, ClearCtrl, PipelineInv, IdleInv, LoadInv, WaveInv, WeightInv, DoneMeansCaptured,
              Idle, LoadPhase, RunPhase
<1>4. QED
  BY <1>1, <1>2, <1>3, NextIsAdvance

\* The invariant is inductive.
LEMMA IInvInductive == IInv /\ [Next]_vars => IInv'
<1>. SUFFICES ASSUME IInv, [Next]_vars PROVE IInv'
  OBVIOUS
<1>1. CASE Next
  BY <1>1, NextTypeOK, NextPipelineInv DEF IInv, PipelineInv
<1>2. CASE UNCHANGED vars
  BY <1>2 DEF IInv, vars, ctrl, array, TypeOK, PipelineInv, IdleInv, LoadInv, WaveInv,
              WeightInv, DoneMeansCaptured, Idle, LoadPhase, RunPhase, AllRowsDone
<1>3. QED
  BY <1>1, <1>2

\* The inductive invariant holds throughout.
LEMMA SpecIInv == Spec => []IInv
BY InitIInv, IInvInductive, PTL DEF Spec
-----------------------------------------------------------------------------
\* Every register of the chip stays within its width, for any array size: the
\* step counter never leaves 0 .. ROWS+COLS-1 and no index leaves its memory.
THEOREM TypeCorrect == Spec => []TypeOK
BY SpecIInv, PTL DEF IInv

\* Where every weight, activation and partial sum is on each cycle of a load and
\* of a run (the skews of tpu_act_mem.v, tpu_weight_mem.v and w1a8_array.v), for
\* an array of any size.
THEOREM PipelineHolds == Spec => []PipelineInv
BY SpecIInv, PTL DEF IInv

\* When the chip reports idle or all rows done, no partial sum is in flight.
THEOREM Quiescence == Spec => []NothingInFlight
<1>1. ASSUME IInv PROVE NothingInFlight
  <2>. SUFFICES ASSUME Idle \/ AllRowsDone PROVE valid_out = {}
    BY DEF NothingInFlight
  <2>. USE <1>1, TileAssumption DEF IInv, PipelineInv
  <2>0. ROWS - 1 \in Row
    BY DEF Row
  <2>1. CASE Idle
    BY <2>1 DEF IdleInv
  <2>2. CASE LoadPhase
    BY <2>2 DEF LoadInv
  <2>3. CASE RunPhase /\ AllRowsDone
    BY <2>0, <2>3 DEF WaveInv, AllRowsDone, TypeOK
  <2>4. QED
    BY <2>1, <2>2, <2>3 DEF TypeOK, Idle, LoadPhase, RunPhase
<1>2. QED
  BY <1>1, SpecIInv, PTL

\* In the states of the invariant the operands meet.
LEMMA AlignedMacs ==
  ASSUME IInv
  PROVE  MacAligned
<1>. SUFFICES ASSUME NEW r \in Row, NEW c \in Col, ~LoadPhase, ValidIn(r, c)
              PROVE  weight_q[r][c] = weight_mem[r][c] /\ ActIn(r, c) = act_mem[c]
  BY DEF MacAligned
<1>. USE TileAssumption
<1>1. RunPhase
  BY DEF IInv, TypeOK, PipelineInv, IdleInv, ValidIn, Idle, LoadPhase, RunPhase
<1>2. /\ step \in Nat /\ step <= COMPUTE_LAST_STEP
      /\ \A i \in Row, k \in Col :
           <<i, k>> \in valid_out <=> step = i + k + 1 /\ ROWS - 1 \notin acc_done
      /\ \A i \in Row, k \in Col : <<i, k>> \in valid_out => act_out[i][k] = act_mem[k]
      /\ ROWS - 1 \in acc_done => step = COMPUTE_LAST_STEP
      /\ weight_q = weight_mem
  BY <1>1 DEF IInv, TypeOK, PipelineInv, WaveInv, WeightInv, COMPUTE_LAST_STEP
<1>3. step = r + c
  BY <1>1, <1>2 DEF ValidIn, Row, Col
<1>4. ROWS - 1 \notin acc_done
  BY <1>2, <1>3 DEF COMPUTE_LAST_STEP, Row, Col
<1>5. ActIn(r, c) = act_mem[c]
  <2>1. CASE r = 0
    BY <1>1, <1>3, <2>1 DEF ActIn, Col
  <2>2. CASE r > 0
    <3>1. r - 1 \in Row /\ <<r - 1, c>> \in valid_out
      BY <1>2, <1>3, <1>4, <2>2 DEF Row, Col
    <3>2. QED
      BY <1>2, <2>2, <3>1 DEF ActIn
  <2>3. QED
    BY <2>1, <2>2 DEF Row
<1>6. QED
  BY <1>2, <1>5

\* Every product a run adds is that of the stored weight and activation.
THEOREM Alignment == Spec => []MacAligned
BY AlignedMacs, SpecIInv, PTL

\* The sticky done flag is never stale: it is up only while the run it reports
\* is over, its weights loaded and all its rows captured.
THEOREM DoneIsFresh == Spec => []DoneMeansCaptured
BY SpecIInv, PTL DEF IInv, PipelineInv
-----------------------------------------------------------------------------
(* Steps of a run. *)

\* A row leaves the array once: it is not captured yet when it exits.
LEMMA ExitsOnce ==
  ASSUME IInv, ~Idle
  PROVE  Exiting \cap acc_done = {}
<1>1. CASE LoadPhase
  BY <1>1 DEF IInv, PipelineInv, LoadInv
<1>2. CASE RunPhase
  <2>1. \A r \in Row : r \in Exiting => step = r + COLS /\ ROWS - 1 \notin acc_done
    BY <1>2, TileAssumption DEF IInv, PipelineInv, WaveInv, Exiting, Row, Col
  <2>2. \A r \in Row : r < ROWS - 1 => (r \in acc_done <=> step > r + COLS)
    BY <1>2 DEF IInv, PipelineInv, WaveInv
  <2>3. \A r \in Row : r \in Exiting => r \notin acc_done
    BY <2>1, <2>2, TileAssumption DEF IInv, TypeOK, Row
  <2>4. QED
    BY <2>3 DEF Exiting
<1>3. QED
  BY <1>1, <1>2 DEF IInv, TypeOK, Idle, LoadPhase, RunPhase

\* The run's operands do not change under it, and a row is captured once.
THEOREM RunIsolation == Spec => OperandsHeld
<1>1. ASSUME IInv, Next, ~Idle, state' # "IDLE"
      PROVE  /\ UNCHANGED <<weight_mem, act_mem>>
             /\ \A r \in Row : acc_q'[r] # acc_q[r] => r \notin acc_done /\ r \in acc_done'
  <2>1. ~Clear /\ ~Reset
    BY <1>1 DEF Clear, Reset, ClearCtrl
  <2>2. PICK s \in BOOLEAN : Advance(s)
    BY <1>1, <2>1, NextIsAdvance
  <2>3. UNCHANGED <<weight_mem, act_mem>> /\ acc_done' = acc_done \cup Exiting
    BY <1>1, <2>2 DEF Advance
  <2>4. acc_q' = Captured
    BY <1>1, <2>1 DEF Next, Ldw, Lda, Seed, Start, Observe, Capture
  <2>5. ASSUME NEW r \in Row, acc_q'[r] # acc_q[r]
        PROVE  r \notin acc_done /\ r \in acc_done'
    <3>1. r \in Exiting
      BY <2>4, <2>5 DEF Captured
    <3>2. QED
      BY <1>1, <2>3, <3>1, ExitsOnce
  <2>6. QED
    BY <2>3, <2>5
<1>2. QED
  BY <1>1, SpecIInv, PTL DEF Spec, OperandsHeld

\* One edge of a run, whatever the command (CLEAR and reset aside).
LEMMA RunEdge ==
  ASSUME IInv, RunPhase, NEW s \in BOOLEAN, Advance(s)
  PROVE  \/ step < COMPUTE_LAST_STEP /\ ~AllRowsDone
            /\ state' = "RUN" /\ step' = step + 1 /\ ~AllRowsDone'
         \/ step = COMPUTE_LAST_STEP /\ ~AllRowsDone
            /\ state' = "RUN" /\ step' = step /\ AllRowsDone'
         \/ step = COMPUTE_LAST_STEP /\ AllRowsDone /\ state' = "IDLE"
<1>. USE TileAssumption
<1>. DEFINE last == ROWS - 1
<1>1. /\ step \in Nat /\ step <= COMPUTE_LAST_STEP /\ acc_done \subseteq Row
      /\ last \in acc_done => step = COMPUTE_LAST_STEP
      /\ \A r \in Row : r < last => (r \in acc_done <=> step > r + COLS)
      /\ last \in Row /\ COLS - 1 \in Col
  BY DEF IInv, TypeOK, PipelineInv, WaveInv, COMPUTE_LAST_STEP, Row, Col
<1>2. last \in Exiting <=> step = COMPUTE_LAST_STEP /\ last \notin acc_done
  BY <1>1 DEF IInv, PipelineInv, WaveInv, Exiting, COMPUTE_LAST_STEP
<1>3. acc_done' = acc_done \cup Exiting /\ Exiting \subseteq Row /\ TileCtrl(s)
  BY DEF Advance, Idle, RunPhase, Exiting
<1>4. CASE step < COMPUTE_LAST_STEP
  <2>1. last \notin acc_done /\ last \notin acc_done'
    BY <1>1, <1>2, <1>3, <1>4 DEF COMPUTE_LAST_STEP
  <2>2. ~AllRowsDone /\ ~AllRowsDone'
    BY <1>1, <2>1 DEF AllRowsDone
  <2>3. ~(step >= COMPUTE_LAST_STEP)
    BY <1>1, <1>4 DEF COMPUTE_LAST_STEP
  <2>4. UNCHANGED state /\ step' = step + 1
    BY <1>3, <2>3, RunCtrl, Zenon
  <2>5. QED
    BY <1>4, <2>2, <2>4 DEF RunPhase
<1>5. CASE step = COMPUTE_LAST_STEP
  <2>1. ~(step < COMPUTE_LAST_STEP)
    BY <1>1, <1>5 DEF COMPUTE_LAST_STEP
  <2>2. last \in acc_done'
    BY <1>2, <1>3, <1>5
  <2>3. \A r \in Row : r = last \/ r \in acc_done
    BY <1>1, <1>5 DEF Row, COMPUTE_LAST_STEP
  <2>4. AllRowsDone'
    BY <1>1, <1>3, <2>2, <2>3 DEF AllRowsDone
  <2>5. CASE AllRowsDone
    <3>1. state' = "IDLE"
      BY <1>3, <2>1, <2>5, RunCtrl, Zenon
    <3>2. QED
      BY <1>5, <2>5, <3>1
  <2>6. CASE ~AllRowsDone
    <3>1. UNCHANGED <<state, step>>
      BY <1>3, <2>1, <2>6, RunCtrl, Zenon
    <3>2. QED
      BY <1>5, <2>4, <2>6, <3>1 DEF RunPhase
  <2>7. QED
    BY <2>5, <2>6
<1>6. QED
  BY <1>1, <1>4, <1>5 DEF COMPUTE_LAST_STEP

\* One edge of the countdown to the end of a run.
Countdown ==
  /\ Idle => Remaining' \in {0, TileLatency}
  /\ ~Idle => \/ Remaining' = Remaining - 1
              \/ Remaining' = 0 /\ ~done_latched'

\* Every command makes one.
LEMMA EdgeCounts == ASSUME IInv, Next PROVE Countdown
<1>1. ASSUME IInv, Clear \/ Reset PROVE Countdown
  <2>1. state' = "IDLE" /\ ~done_latched'
    BY <1>1 DEF Clear, Reset, ClearCtrl
  <2>2. Remaining' = 0
    BY <2>1 DEF Remaining, Idle
  <2>3. QED
    BY <2>1, <2>2 DEF Countdown
<1>2. ASSUME IInv, NEW s \in BOOLEAN, Advance(s) PROVE Countdown
  <2>. USE TileAssumption
  <2>0. step \in Nat /\ Row # {}
    <3>1. step \in Nat
      BY <1>2 DEF IInv, TypeOK, COMPUTE_LAST_STEP
    <3>2. 0 \in Row
      BY DEF Row
    <3>3. QED
      BY <3>1, <3>2
  <2>1. CASE Idle
    <3>1. state' = "IDLE" \/ (state' = "LOAD" /\ step' = 0)
      BY <1>2, <2>1, Zenon DEF Advance, TileCtrl, ctrl, Idle, LoadPhase, RunPhase
    <3>2. QED
      BY <2>1, <3>1 DEF Countdown, Remaining, TileLatency, Idle, LoadPhase, COMPUTE_LAST_STEP
  <2>2. CASE LoadPhase
    <3>1. step < COLS /\ acc_done' = {}
      BY <1>2, <2>2 DEF IInv, PipelineInv, LoadInv, Advance, Exiting, Idle, LoadPhase
    <3>2. \/ state' = "RUN" /\ step' = 0 /\ step = COLS - 1
          \/ state' = "LOAD" /\ step' = step + 1 /\ step # COLS - 1
      BY <1>2, <2>2, Zenon DEF Advance, TileCtrl, ctrl, Idle, LoadPhase, RunPhase
    <3>3. ~AllRowsDone'
      BY <2>0, <3>1 DEF AllRowsDone
    <3>4. QED
      BY <2>0, <2>2, <3>1, <3>2, <3>3 DEF Countdown, Remaining, Idle, LoadPhase, COMPUTE_LAST_STEP
  <2>3. CASE RunPhase
    BY <1>2, <2>0, <2>3, RunEdge DEF Countdown, Remaining, Idle, LoadPhase, RunPhase, COMPUTE_LAST_STEP
  <2>4. QED
    BY <1>2, <2>1, <2>2, <2>3 DEF IInv, TypeOK, Idle, LoadPhase, RunPhase
<1>3. QED
  BY <1>1, <1>2, NextIsAdvance

\* A run takes exactly 2*COLS + ROWS + 1 edges after START, whatever the host
\* sends meanwhile, unless CLEAR or reset ends it.
THEOREM FixedLatency == Spec => ExactLatency
<1>1. IInv /\ Next => Countdown
  BY EdgeCounts
<1>2. QED
  BY <1>1, SpecIInv, PTL DEF Spec, ExactLatency, Countdown
-----------------------------------------------------------------------------
(* Sums modulo the width of a partial sum. *)

\* A nonzero multiple of m is at least m in absolute value.
LEMMA AtLeastOnce ==
  ASSUME NEW m \in Nat, NEW d \in Int
  PROVE  /\ m * d \in Int
         /\ d >= 1 => m * d >= m
         /\ d <= -1 => m * d <= -m
OBVIOUS

\* A quotient and a remainder are determined by the remainder's range.
LEMMA RemainderUnique ==
  ASSUME NEW m \in Nat \ {0}, NEW z \in Int, NEW v \in Int, NEW t \in 0 .. m - 1, z = m * v + t
  PROVE  z % m = t /\ z \div m = v
<1>. DEFINE k == z \div m
            u == z % m
            P == m * k
            Q == m * v
<1>1. k \in Int /\ u \in 0 .. m - 1 /\ z = P + u /\ P \in Int /\ Q \in Int
  OBVIOUS
<1>2. m * (k - v) = P - Q
  BY <1>1
<1>3. /\ k - v >= 1 => m * (k - v) >= m
      /\ k - v <= -1 => m * (k - v) <= -m
  BY <1>1, AtLeastOnce
<1>. HIDE DEF k, u, P, Q
<1>4. P + u = Q + t
  BY <1>1 DEF Q
<1>5. ~(k - v >= 1) /\ ~(k - v <= -1)
  BY <1>1, <1>2, <1>3, <1>4
<1>6. k = v
  BY <1>1, <1>5
<1>7. P = Q
  BY <1>6 DEF P, Q
<1>8. u = t
  BY <1>1, <1>4, <1>7
<1>9. QED
  BY <1>6, <1>8 DEF k, u

\* A sum may wrap at any of its terms.
LEMMA WrapEarly ==
  ASSUME NEW m \in Nat \ {0}, NEW p \in Int, NEW x \in Int
  PROVE  ((p % m) + x) % m = (p + x) % m
<1>. DEFINE a == p % m
            q == p \div m
            y == a + x
            t == y % m
            u == y \div m
<1>1. a \in Int /\ q \in Int /\ p = m * q + a
  OBVIOUS
<1>2. y \in Int
  BY <1>1
<1>. HIDE DEF a, q, y
<1>3. t \in 0 .. m - 1 /\ u \in Int /\ y = m * u + t
  BY <1>2
<1>. HIDE DEF t, u
<1>4. m * (q + u) = m * q + m * u /\ m * q \in Int /\ m * u \in Int /\ m * (q + u) \in Int
  BY <1>1, <1>3
<1>5. p + x = m * (q + u) + t
  <2>. DEFINE P == m * q
              U == m * u
  <2>1. p = P + a /\ y = a + x /\ y = U + t /\ P \in Int /\ U \in Int
    BY <1>1, <1>3, <1>4 DEF y
  <2>2. m * (q + u) = P + U
    BY <1>4
  <2>. HIDE DEF P, U
  <2>3. p + x = (P + U) + t
    BY <1>1, <1>3, <2>1
  <2>4. QED
    BY <2>2, <2>3
<1>6. p + x \in Int /\ q + u \in Int
  BY <1>1, <1>3
<1>7. (p + x) % m = t
  BY <1>3, <1>5, <1>6, RemainderUnique
<1>8. QED
  BY <1>7 DEF t, y, a

-----------------------------------------------------------------------------
(* The sums over the first columns of a row. *)

\* DotUpto adds one product per column, starting from none.
LEMMA DotFacts ==
  ASSUME NEW w \in [Col -> Bit], NEW a \in [Col -> Act]
  PROVE  LET d == DotUpto(w, a)
         IN  /\ d[0] = 0 /\ \A n \in 0 .. COLS : d[n] \in Int
             /\ \A n \in 1 .. COLS : d[n] = d[n - 1] + Contrib(w[n - 1], a[n - 1])
<1>. DEFINE T(n) == IF w[n - 1] = 1 THEN a[n - 1] ELSE -a[n - 1]
            S == [n \in 0 .. COLS |-> Int]
            F == [n \in 1 .. COLS |-> [m \in Int |-> m + T(n)]]
            Solves(f) == f = [n \in 0 .. COLS |-> IF n = 0 THEN 0 ELSE f[n - 1] + T(n)]
            d == CHOOSE f : Solves(f)
<1>1. COLS \in Nat /\ \A n \in 1 .. COLS : n \in 0 .. COLS /\ n - 1 \in 0 .. COLS /\ n # 0 /\ n - 1 \in Col
  BY TileAssumption DEF Col
<1>2. \A n \in 1 .. COLS : T(n) \in Int /\ T(n) = Contrib(w[n - 1], a[n - 1])
  <2>1. \A c \in Col : a[c] \in Int
    BY DEF Act
  <2>2. QED
    BY <1>1, <2>1 DEF Contrib
<1>. HIDE DEF T
<1>3. /\ \A n \in 0 .. COLS : S[n] = Int
      /\ \A n \in 1 .. COLS : \A m \in Int : F[n][m] = m + T(n)
  OBVIOUS
<1>. HIDE DEF S, F
<1>4. \A n \in 1 .. COLS : \A m \in Int : m + T(n) \in Int
  BY <1>2
<1>5. \E f : Solves(f)
  <2>1. 0 \in S[0]
    BY <1>1, <1>3
  <2>2. \A n \in 1 .. COLS : \A m \in S[n - 1] : F[n][m] \in S[n]
    <3>1. SUFFICES ASSUME NEW n \in 1 .. COLS, NEW m \in S[n - 1] PROVE F[n][m] \in S[n]
      OBVIOUS
    <3>2. S[n - 1] = Int /\ S[n] = Int
      BY <1>1, <1>3
    <3>3. QED
      BY <1>3, <1>4, <3>2
  <2>3. PICK f : Iterates(f, COLS, 0, F, S)
    BY <1>1, <2>1, <2>2, IterationExists
  <2>4. /\ f = [n \in 0 .. COLS |-> f[n]] /\ f[0] = 0
        /\ \A n \in 1 .. COLS : f[n] = F[n][f[n - 1]]
        /\ \A n \in 0 .. COLS : f[n] \in S[n]
    BY <2>3, Zenon DEF Iterates
  <2>5. \A n \in 0 .. COLS : f[n] = IF n = 0 THEN 0 ELSE f[n - 1] + T(n)
    <3>1. SUFFICES ASSUME NEW n \in 0 .. COLS, n # 0 PROVE f[n] = f[n - 1] + T(n)
      BY <2>4
    <3>2. n \in 1 .. COLS /\ n - 1 \in 0 .. COLS
      BY <1>1, <3>1
    <3>3. f[n - 1] \in Int /\ f[n] = F[n][f[n - 1]]
      BY <1>3, <2>4, <3>2
    <3>4. QED
      BY <1>3, <3>2, <3>3
  <2>6. [n \in 0 .. COLS |-> f[n]] = [n \in 0 .. COLS |-> IF n = 0 THEN 0 ELSE f[n - 1] + T(n)]
    BY <2>5
  <2>7. Solves(f)
    BY <2>4, <2>6
  <2>8. QED
    BY <2>7
<1>6. DotUpto(w, a) = d
  BY DEF DotUpto, T
<1>7. Solves(d)
  BY <1>5
<1>. HIDE DEF d
<1>8. d[0] = 0 /\ \A n \in 1 .. COLS : d[n] = d[n - 1] + T(n)
  BY <1>1, <1>7
<1>9. \A n \in 1 .. COLS : d[n - 1] \in S[n - 1] => d[n] \in S[n]
  <2>1. SUFFICES ASSUME NEW n \in 1 .. COLS, d[n - 1] \in S[n - 1] PROVE d[n] \in S[n]
    OBVIOUS
  <2>2. S[n - 1] = Int /\ S[n] = Int
    BY <1>1, <1>3
  <2>3. QED
    BY <1>4, <1>8, <2>1, <2>2
<1>10. d[0] \in S[0]
  BY <1>1, <1>3, <1>8
<1>11. \A n \in 0 .. COLS : d[n] \in S[n]
  BY <1>1, <1>9, <1>10, IterationStays
<1>12. QED
  BY <1>2, <1>3, <1>6, <1>8, <1>11

-----------------------------------------------------------------------------
(* What the partial sums in flight are. *)

\* Row r's accumulator plus its products up to column n.
PartSum(r, n) == (acc_q[r] + DotUpto(weight_mem[r], act_mem)[n]) % (BYTE * BYTE)

\* A valid partial sum is its row's accumulator plus the products up to its
\* column (w1a8_pe.v adds one to what arrives from the left).
PsumInv ==
  RunPhase => \A r \in Row, c \in Col : <<r, c>> \in valid_out => psum_out[r][c] = PartSum(r, c + 1)

\* On every edge but those of CLEAR and reset, a busy tile only captures.
LEMMA BusyCaptures ==
  ASSUME Next, ~Idle, ~Clear, ~Reset
  PROVE  acc_q' = Captured /\ acc_done' = acc_done \cup Exiting /\ UNCHANGED <<weight_mem, act_mem>>
         /\ PeArray /\ \E s \in BOOLEAN : Advance(s)
<1>1. PICK s \in BOOLEAN : Advance(s)
  BY NextIsAdvance
<1>2. UNCHANGED <<weight_mem, act_mem>> /\ acc_done' = acc_done \cup Exiting /\ PeArray
  BY <1>1 DEF Advance
<1>3. acc_q' = Captured
  BY DEF Next, Ldw, Lda, Seed, Start, Observe, Capture
<1>4. QED
  BY <1>1, <1>2, <1>3

\* Every edge keeps PsumInv: a PE adds its product to what its left neighbour passed it
\* (w1a8_pe.v), and the wave reaches column c + 1 one edge after column c.
LEMMA NextPsumInv ==
  ASSUME IInv, PsumInv, Next
  PROVE  PsumInv'
<1>. USE TileAssumption
<1>1. SUFFICES ASSUME RunPhase', NEW r \in Row, NEW c \in Col, <<r, c>> \in valid_out'
               PROVE  psum_out'[r][c] = PartSum(r, c + 1)'
  BY DEF PsumInv
<1>2. ~Clear /\ ~Reset
  BY <1>1 DEF Clear, Reset, ClearCtrl, RunPhase
<1>3. PICK s \in BOOLEAN : Advance(s)
  BY <1>2, NextIsAdvance
<1>4. ~Idle
  BY <1>1, <1>3, Zenon DEF Advance, TileCtrl, ctrl, Idle, LoadPhase, RunPhase
<1>5. ~LoadPhase
  BY <1>1, <1>3 DEF Advance, PeArray
<1>6. RunPhase
  BY <1>4, <1>5 DEF IInv, TypeOK, Idle, LoadPhase, RunPhase
<1>7. acc_q' = Captured /\ UNCHANGED <<weight_mem, act_mem>> /\ PeArray
  BY <1>2, <1>4, BusyCaptures
<1>8. ValidIn(r, c)
  BY <1>1, <1>5, <1>7, ValidMoves
<1>9. weight_q[r][c] = weight_mem[r][c] /\ ActIn(r, c) = act_mem[c]
  BY <1>5, <1>8, AlignedMacs DEF MacAligned
<1>. DEFINE d == DotUpto(weight_mem[r], act_mem)
            x == Contrib(weight_mem[r][c], act_mem[c])
            M == BYTE * BYTE
<1>10. /\ weight_mem[r] \in [Col -> Bit] /\ act_mem \in [Col -> Act] /\ acc_q[r] \in Int
  BY DEF IInv, TypeOK, Psum
<1>11. psum_out'[r][c] = AddPsum(PsumIn(r, c), x)
  BY <1>5, <1>7, <1>8, <1>9 DEF PeArray
<1>12. /\ step \in Nat
       /\ \A i \in Row, k \in Col :
            <<i, k>> \in valid_out <=> step = i + k + 1 /\ ROWS - 1 \notin acc_done
  BY <1>6 DEF IInv, TypeOK, PipelineInv, WaveInv, COMPUTE_LAST_STEP
<1>13. step = r + c
  BY <1>6, <1>8, <1>12 DEF ValidIn, Row, Col
<1>14. acc_q'[r] = acc_q[r]
  <2>1. COLS - 1 \in Col
    BY DEF Col
  <2>2. <<r, COLS - 1>> \notin valid_out
    BY <1>12, <1>13, <2>1 DEF Row, Col
  <2>3. QED
    BY <1>7, <2>2 DEF Captured, Exiting
<1>15. PartSum(r, c + 1)' = (acc_q[r] + d[c + 1]) % M
  BY <1>7, <1>14 DEF PartSum
<1>16. /\ d[0] = 0 /\ \A n \in 0 .. COLS : d[n] \in Int
       /\ \A n \in 1 .. COLS : d[n] = d[n - 1] + Contrib(weight_mem[r][n - 1], act_mem[n - 1])
  BY <1>10, DotFacts
<1>. HIDE DEF d
<1>17. /\ c \in 0 .. COLS /\ c + 1 \in 1 .. COLS /\ (c + 1) - 1 = c
  BY DEF Col
<1>18. d[c + 1] = d[c] + x /\ d[c] \in Int
  BY <1>16, <1>17
<1>19. x \in Int /\ M \in Nat \ {0}
  <2>1. act_mem[c] \in Int
    BY <1>10 DEF Act
  <2>2. QED
    BY <2>1 DEF Contrib
<1>. HIDE DEF x
<1>20. (PsumIn(r, c) + x) % M = (acc_q[r] + d[c + 1]) % M
  <2>1. CASE c = 0
    <3>1. PsumIn(r, c) = acc_q[r]
      BY <1>6, <1>13, <2>1 DEF PsumIn, Row
    <3>2. d[c + 1] = x
      BY <1>16, <1>18, <1>19, <2>1
    <3>3. QED
      BY <3>1, <3>2
  <2>2. CASE c > 0
    <3>1. c - 1 \in Col /\ <<r, c - 1>> \in valid_out /\ (c - 1) + 1 = c
      BY <1>8, <2>2 DEF ValidIn, Col
    <3>2. PsumIn(r, c) = (acc_q[r] + d[c]) % M
      <4>1. PsumIn(r, c) = psum_out[r][c - 1]
        BY <2>2 DEF PsumIn
      <4>2. psum_out[r][c - 1] = PartSum(r, (c - 1) + 1)
        BY <1>6, <3>1 DEF PsumInv
      <4>3. QED
        BY <3>1, <4>1, <4>2 DEF PartSum, d
    <3>. HIDE DEF M
    <3>3. acc_q[r] + d[c] \in Int
      BY <1>10, <1>18
    <3>4. (((acc_q[r] + d[c]) % M) + x) % M = ((acc_q[r] + d[c]) + x) % M
      BY <1>19, <3>3, WrapEarly
    <3>5. (acc_q[r] + d[c]) + x = acc_q[r] + d[c + 1]
      BY <1>10, <1>18, <1>19
    <3>6. QED
      BY <3>2, <3>4, <3>5
  <2>3. QED
    BY <2>1, <2>2 DEF Col
<1>21. QED
  BY <1>11, <1>15, <1>20 DEF AddPsum

\* After reset no wave is in the array.
LEMMA InitPsumInv == Init => PsumInv
BY DEF Init, PsumInv, RunPhase

\* The invariant the refinement rests on.
LEMMA SpecRInv == Spec => [](IInv /\ PsumInv)
<1>1. PsumInv /\ UNCHANGED vars => PsumInv'
  BY DEF vars, ctrl, array, PsumInv, RunPhase, PartSum
<1>2. IInv /\ PsumInv /\ [Next]_vars => IInv' /\ PsumInv'
  BY <1>1, IInvInductive, NextPsumInv
<1>3. QED
  BY <1>2, InitIInv, InitPsumInv, PTL DEF Spec

-----------------------------------------------------------------------------
(* The steps of TileSpec. *)

\* The accumulators as the host may count on them.
Acc == [r \in Row |-> IF ~Idle /\ r \notin acc_done
                      THEN RunResult(weight_mem[r], act_mem, acc_q[r]) ELSE acc_q[r]]

\* TileSpec and the chip use the same arithmetic.
LEMMA SameArith ==
  /\ Tile!Row = Row /\ Tile!Col = Col /\ Tile!Act = Act /\ Tile!Psum = Psum
  /\ \A w, a, seed : Tile!RunResult(w, a, seed) = RunResult(w, a, seed)
BY DEF Tile!Row, Row, Tile!Col, Col, Tile!Act, Act, Tile!Psum, Psum, Tile!RunResult, RunResult,
       Tile!RowDot, RowDot, Tile!DotUpto, DotUpto

\* While the tile is busy nothing the host can see changes: a row that is captured
\* takes the value it was promised.
LEMMA BusyKeepsAcc ==
  ASSUME IInv, PsumInv, Next, ~Idle, ~Clear, ~Reset
  PROVE  Acc' = Acc /\ UNCHANGED <<weight_mem, act_mem>>
<1>. USE TileAssumption
<1>1. /\ acc_q' = Captured /\ acc_done' = acc_done \cup Exiting
      /\ UNCHANGED <<weight_mem, act_mem>> /\ PeArray
  BY BusyCaptures
<1>2. PICK s \in BOOLEAN : Advance(s)
  BY BusyCaptures
<1>3. state' = "IDLE" => AllRowsDone
  BY <1>2, Zenon DEF Advance, TileCtrl, ctrl, Idle, LoadPhase, RunPhase
<1>4. ASSUME NEW r \in Row
      PROVE  Acc'[r] = Acc[r]
  <2>0. /\ Acc[r] = IF ~Idle /\ r \notin acc_done
                    THEN RunResult(weight_mem[r], act_mem, acc_q[r]) ELSE acc_q[r]
        /\ Acc'[r] = IF ~Idle' /\ r \notin acc_done'
                     THEN RunResult(weight_mem'[r], act_mem', acc_q'[r]) ELSE acc_q'[r]
    BY DEF Acc
  <2>1. CASE r \in Exiting
    <3>1. <<r, COLS - 1>> \in valid_out /\ COLS - 1 \in Col
      BY <2>1 DEF Exiting, Col
    <3>2. RunPhase
      BY <3>1 DEF IInv, TypeOK, PipelineInv, LoadInv, Idle, LoadPhase, RunPhase
    <3>3. psum_out[r][COLS - 1] = PartSum(r, (COLS - 1) + 1) /\ (COLS - 1) + 1 = COLS
      BY <3>1, <3>2 DEF PsumInv
    <3>4. acc_q'[r] = RunResult(weight_mem[r], act_mem, acc_q[r])
      BY <1>1, <2>1, <3>3 DEF Captured, PartSum, RunResult, RowDot
    <3>5. r \notin acc_done /\ r \in acc_done'
      BY <1>1, <2>1, ExitsOnce
    <3>6. QED
      BY <2>0, <3>4, <3>5
  <2>2. CASE r \notin Exiting
    <3>1. acc_q'[r] = acc_q[r] /\ (r \in acc_done' <=> r \in acc_done)
      BY <1>1, <2>2 DEF Captured
    <3>2. Idle' => r \in acc_done
      BY <1>3 DEF Idle, AllRowsDone
    <3>3. QED
      BY <1>1, <2>0, <3>1, <3>2
  <2>3. QED
    BY <2>1, <2>2
<1>5. Acc' = Acc
  <2>1. Acc = [r \in Row |-> Acc[r]] /\ Acc' = [r \in Row |-> Acc'[r]]
    BY DEF Acc
  <2>2. QED
    BY <1>4, <2>1
<1>6. QED
  BY <1>1, <1>5

\* While the tile is idle an edge by itself changes nothing the host can see.
LEMMA IdleStill ==
  ASSUME IInv, Idle
  PROVE  /\ Exiting = {} /\ Captured = acc_q /\ Acc = acc_q
         /\ TileCtrl(FALSE) => UNCHANGED ctrl
<1>1. Exiting = {}
  BY DEF IInv, PipelineInv, IdleInv, Exiting
<1>2. acc_q \in [Row -> Psum]
  BY DEF IInv, TypeOK
<1>3. Captured = acc_q /\ Acc = acc_q
  BY <1>1, <1>2 DEF Captured, Acc
<1>4. TileCtrl(FALSE) => UNCHANGED ctrl
  BY Zenon DEF TileCtrl, Idle, LoadPhase, RunPhase
<1>5. QED
  BY <1>1, <1>3, <1>4

\* SEED changes one byte of an accumulator and keeps the other.
LEMMA SeedKeepsOther ==
  ASSUME NEW v \in Psum, NEW b \in 0 .. PsumBytes - 1, NEW x \in Byte
  PROVE  \/ SetByte(v, b, x) \div BYTE = v \div BYTE
         \/ SetByte(v, b, x) % BYTE = v % BYTE
<1>1. BYTE \in Nat \ {0} /\ v \in Nat /\ x \in 0 .. BYTE - 1
  BY TileAssumption DEF Psum, Byte
<1>. DEFINE q == v \div BYTE
            m == v % BYTE
<1>2. q \in Int /\ m \in 0 .. BYTE - 1
  BY <1>1
<1>3. CASE b = 0
  <2>1. SetByte(v, b, x) = (q * BYTE) + x
    BY <1>3 DEF SetByte
  <2>. HIDE DEF q, m
  <2>2. q * BYTE = BYTE * q /\ BYTE * q \in Int
    BY <1>1, <1>2
  <2>. DEFINE z == SetByte(v, b, x)
  <2>3. z = BYTE * q + x /\ z \in Int
    BY <1>1, <2>1, <2>2
  <2>. HIDE DEF z
  <2>4. z \div BYTE = q
    BY <1>1, <1>2, <2>3, RemainderUnique
  <2>5. QED
    BY <2>4 DEF z, q
<1>4. CASE b # 0
  <2>1. SetByte(v, b, x) = (x * BYTE) + m
    BY <1>4 DEF SetByte
  <2>. HIDE DEF q, m
  <2>2. x \in Int /\ x * BYTE = BYTE * x /\ BYTE * x \in Int
    BY <1>1
  <2>. DEFINE z == SetByte(v, b, x)
  <2>3. z = BYTE * x + m /\ z \in Int
    BY <1>2, <2>1, <2>2
  <2>. HIDE DEF z
  <2>4. z % BYTE = m
    BY <1>1, <1>2, <2>2, <2>3, RemainderUnique
  <2>5. QED
    BY <2>4 DEF z, m
<1>5. QED
  BY <1>3, <1>4

\* The host's view of the chip, as TileSpec's variables.
View == <<weight_mem, act_mem, Acc, ~Idle, done_latched>>

\* The view is the tuple of TileSpec's variables.
LEMMA ViewIs == /\ UNCHANGED View => UNCHANGED Tile!vars
                /\ Tile!vars = View
BY DEF View, Tile!vars, Acc

\* Commands to an idle tile.
LEMMA IdleStep ==
  ASSUME IInv, Idle, Next, ~Clear, ~Reset
  PROVE  Tile!Next \/ UNCHANGED View
<1>. USE TileAssumption
<1>1. /\ Exiting = {} /\ Captured = acc_q /\ Acc = acc_q
      /\ TileCtrl(FALSE) => UNCHANGED <<state, step, done_latched, weight_done>>
  BY IdleStill DEF ctrl
<1>2. /\ acc_q \in [Row -> Psum]
      /\ acc_q = [r \in Row |-> acc_q[r]]
      /\ Idle' => Acc' = [r \in Row |-> acc_q'[r]]
  <2>1. acc_q \in [Row -> Psum]
    BY DEF IInv, TypeOK
  <2>2. Idle' => Acc' = [r \in Row |-> acc_q'[r]]
    BY DEF Acc
  <2>3. QED
    BY <2>1, <2>2
<1>. DEFINE Same == state' = state /\ done_latched' = done_latched
<1>3. Same => Idle'
  BY DEF Idle
<1>4. ASSUME NEW row \in RowSel, NEW bits \in [Col -> Bit], Ldw(row, bits)
      PROVE  Tile!Next \/ UNCHANGED View
  <2>1. Same /\ acc_q' = acc_q /\ act_mem' = act_mem
    BY <1>1, <1>4 DEF Ldw, Capture
  <2>2. Acc' = Acc /\ Idle'
    BY <1>1, <1>2, <1>3, <2>1
  <2>3. CASE row < ROWS
    <3>1. row \in Row /\ weight_mem' = [weight_mem EXCEPT ![row] = bits]
      BY <1>4, <2>3 DEF Ldw, RowSel, Row
    <3>2. Tile!WriteWeights(row, bits)
      BY <2>1, <2>2, <3>1 DEF Tile!WriteWeights, Acc
    <3>3. QED
      BY <3>1, <3>2, SameArith DEF Tile!Next, Bit
  <2>4. CASE ~(row < ROWS)
    <3>1. weight_mem' = weight_mem
      BY <1>4, <2>4 DEF Ldw
    <3>2. QED
      BY <2>1, <2>2, <3>1 DEF View
  <2>5. QED
    BY <2>3, <2>4
<1>5. ASSUME NEW col \in ColSel, NEW a \in Act, Lda(col, a)
      PROVE  Tile!Next \/ UNCHANGED View
  <2>1. Same /\ acc_q' = acc_q /\ weight_mem' = weight_mem
    BY <1>1, <1>5 DEF Lda, Capture
  <2>2. Acc' = Acc /\ Idle'
    BY <1>1, <1>2, <1>3, <2>1
  <2>3. CASE col < COLS
    <3>1. col \in Col /\ act_mem' = [act_mem EXCEPT ![col] = a]
      BY <1>5, <2>3 DEF Lda, ColSel, Col
    <3>2. Tile!WriteAct(col, a)
      BY <2>1, <2>2, <3>1 DEF Tile!WriteAct, Acc
    <3>3. QED
      BY <3>1, <3>2, SameArith DEF Tile!Next
  <2>4. CASE ~(col < COLS)
    <3>1. act_mem' = act_mem
      BY <1>5, <2>4 DEF Lda
    <3>2. QED
      BY <2>1, <2>2, <3>1 DEF View
  <2>5. QED
    BY <2>3, <2>4
<1>6. ASSUME NEW row \in RowSel, NEW b \in 0 .. PsumBytes - 1, NEW x \in Byte, Seed(row, b, x)
      PROVE  Tile!Next \/ UNCHANGED View
  <2>1. Same /\ weight_mem' = weight_mem /\ act_mem' = act_mem
    BY <1>1, <1>6 DEF Seed
  <2>2. Idle'
    BY <1>3, <2>1
  <2>3. CASE row < ROWS
    <3>0. row \in Row /\ acc_q' = [acc_q EXCEPT ![row] = SetByte(acc_q[row], b, x)]
      BY <1>1, <1>6, <2>3 DEF Seed, RowSel, Row
    <3>1. acc_q[row] \in Psum
      BY <1>2, <3>0
    <3>2. PICK v \in Psum : /\ v = SetByte(acc_q[row], b, x)
                            /\ v \div BYTE = acc_q[row] \div BYTE \/ v % BYTE = acc_q[row] % BYTE
      BY <3>1, SetByteType, SeedKeepsOther
    <3>3. Acc' = [Acc EXCEPT ![row] = v]
      <4>1. acc_q' = [acc_q EXCEPT ![row] = v]
        BY <3>0, <3>2, Zenon
      <4>2. QED
        BY <1>1, <1>2, <2>2, <3>0, <4>1
    <3>4. Acc[row] = acc_q[row]
      BY <1>1
    <3>5. Tile!WriteSeed(row, v)
      BY <2>1, <2>2, <3>2, <3>3, <3>4 DEF Tile!WriteSeed, Acc
    <3>6. row \in Tile!Row /\ v \in Tile!Psum
      BY <3>0, <3>2, SameArith, Zenon
    <3>7. QED
      BY <3>5, <3>6, Zenon DEF Tile!Next
  <2>4. CASE ~(row < ROWS)
    <3>1. acc_q' = acc_q
      BY <1>1, <1>6, <2>4 DEF Seed
    <3>2. Acc' = Acc
      BY <1>1, <1>2, <2>2, <3>1
    <3>3. QED
      BY <2>1, <2>2, <3>2 DEF View
  <2>5. QED
    BY <2>3, <2>4
<1>7. CASE Start
  <2>1. state' = "LOAD" /\ done_latched' = FALSE
    BY <1>7, Zenon DEF Start, TileCtrl, Idle, LoadPhase, RunPhase
  <2>2. acc_q' = acc_q /\ acc_done' = {} /\ weight_mem' = weight_mem /\ act_mem' = act_mem
    BY <1>1, <1>7 DEF Start
  <2>3. Acc' = [r \in Row |-> RunResult(weight_mem[r], act_mem, Acc[r])]
    BY <1>1, <2>1, <2>2 DEF Acc, Idle
  <2>4. Tile!Run
    <3>1. ~Idle'
      BY <2>1 DEF Idle
    <3>2. Acc' = [r \in Tile!Row |-> Tile!RunResult(weight_mem[r], act_mem, Acc[r])]
      BY <2>3, SameArith
    <3>3. QED
      BY <2>1, <2>2, <3>1, <3>2 DEF Tile!Run, Acc
  <2>5. QED
    BY <2>4 DEF Tile!Next
<1>8. CASE Observe
  <2>1. Same /\ acc_q' = acc_q /\ weight_mem' = weight_mem /\ act_mem' = act_mem
    BY <1>1, <1>8 DEF Observe, Capture
  <2>2. QED
    BY <1>1, <1>2, <1>3, <2>1 DEF View
<1>9. QED
  BY <1>4, <1>5, <1>6, <1>7, <1>8 DEF Next

\* Edges of a busy tile.
LEMMA BusyStep ==
  ASSUME IInv, PsumInv, ~Idle, Next, ~Clear, ~Reset
  PROVE  Tile!Next \/ UNCHANGED View
<1>1. Acc' = Acc /\ UNCHANGED <<weight_mem, act_mem>>
  BY BusyKeepsAcc
<1>2. PICK s \in BOOLEAN : Advance(s)
  BY BusyCaptures
<1>3. \/ state' # "IDLE" /\ done_latched' = done_latched
      \/ state' = "IDLE" /\ done_latched' = TRUE
  BY <1>2, Zenon DEF Advance, TileCtrl, ctrl, Idle, LoadPhase, RunPhase
<1>4. CASE state' # "IDLE" /\ done_latched' = done_latched
  BY <1>1, <1>4 DEF View, Idle
<1>5. CASE state' = "IDLE" /\ done_latched' = TRUE
  <2>1. Tile!Finish
    BY <1>1, <1>5 DEF Tile!Finish, Acc, Idle
  <2>2. QED
    BY <2>1 DEF Tile!Next
<1>6. QED
  BY <1>3, <1>4, <1>5

\* CLEAR and reset, in any state.
LEMMA ClearStep ==
  ASSUME Clear \/ Reset
  PROVE  Tile!Next
<1>1. state' = "IDLE" /\ done_latched' = FALSE /\ act_mem' = Zero(Col) /\ acc_q' = Zero(Row)
  BY DEF Clear, Reset, ClearCtrl
<1>2. Acc' = [r \in Row |-> 0] /\ Idle'
  BY <1>1 DEF Acc, Idle, Zero
<1>3. CASE Clear
  <2>1. Tile!Clear
    BY <1>1, <1>2, <1>3, SameArith DEF Clear, Tile!Clear, Zero, Acc
  <2>2. QED
    BY <2>1 DEF Tile!Next
<1>4. CASE Reset
  <2>1. Tile!Reset
    BY <1>1, <1>2, <1>4, SameArith DEF Reset, Tile!Reset, Zero, Acc
  <2>2. QED
    BY <2>1 DEF Tile!Next
<1>5. QED
  BY <1>3, <1>4

\* The tile implements TileSpec: whatever commands meet a run, the accumulators a
\* host reads after it are those of one multiply-accumulate over the operands
\* stored at START (tpu_tile_ctrl.v, w1a8_array.v, tpu_acc_mem.v), for an array of
\* any size.
THEOREM Refines == Spec => RefinesTileSpec
<1>1. Init => Tile!Init
  <2>1. SUFFICES ASSUME Init PROVE Tile!Init
    OBVIOUS
  <2>2. Acc = [r \in Row |-> 0] /\ Idle
    BY <2>1 DEF Init, Acc, Idle, Zero
  <2>3. QED
    BY <2>1, <2>2, SameArith DEF Init, Tile!Init, Zero, Acc
<1>2. IInv /\ PsumInv /\ [Next]_vars => [Tile!Next]_(Tile!vars)
  <2>1. SUFFICES ASSUME IInv, PsumInv, [Next]_vars PROVE Tile!Next \/ UNCHANGED Tile!vars
    OBVIOUS
  <2>2. CASE UNCHANGED vars
    BY <2>2 DEF vars, ctrl, array, Tile!vars, Idle
  <2>3. CASE Next
    BY <2>1, <2>3, IdleStep, BusyStep, ClearStep, ViewIs
  <2>4. QED
    BY <2>1, <2>2, <2>3
<1>3. QED
  BY <1>1, <1>2, SpecRInv, PTL DEF Spec, RefinesTileSpec, Tile!Spec
=============================================================================
