------------------------------ MODULE TpuTile ------------------------------
(***************************************************************************)
(* The W1A8 tile of the ASIC (src/src/rtl), one step per rising clock      *)
(* edge.  The host puts one command on ui_in/uio_in per edge; every        *)
(* register of the chip moves on that edge, whatever the command is.       *)
(*                                                                         *)
(* ui_in[7:3] is decoded by each memory to a row/column selector of        *)
(* $clog2(n) bits (at least one), the bits above it being ignored: the     *)
(* actions range over the selector's values.  An n that is not a power of  *)
(* two leaves selector values that name nothing; the code raises err.      *)
(* The bus byte has BYTE values (256 in the RTL), an activation is one     *)
(* signed byte and a partial sum two bytes, as in project.v.               *)
(*                                                                         *)
(* A name with an underscore and a suffix (here and in the other modules)  *)
(* is a variant of the definition that follows it with a slip the code     *)
(* could have had; it is used to see that a property notices.              *)
(***************************************************************************)
EXTENDS TileArith

VARIABLES
  state, step, done_latched, weight_done,   \* tpu_tile_ctrl
  weight_mem,                               \* tpu_weight_mem
  act_mem,                                  \* tpu_act_mem
  acc_q, acc_done,                          \* tpu_acc_mem (acc_done as a set of rows)
  weight_q, act_out, psum_out, valid_out,   \* w1a8_pe, one per row and column
  error_latched                             \* project.v

ctrl  == <<state, step, done_latched, weight_done>>
array == <<weight_q, act_out, psum_out, valid_out>>
vars  == <<ctrl, weight_mem, act_mem, acc_q, acc_done, array, error_latched>>

RowSel == 0 .. SelSpan(ROWS) - 1
ColSel == 0 .. SelSpan(COLS) - 1

COMPUTE_LAST_STEP_late == ROWS + COLS
COMPUTE_LAST_STEP == ROWS + COLS - 1

Idle      == state = "IDLE"
LoadPhase == state = "LOAD"
RunPhase  == state = "RUN"

AllRowsDone_first == 0 \in acc_done
AllRowsDone == acc_done = Row

Zero(S) == [x \in S |-> 0]
-----------------------------------------------------------------------------
(* tpu_tile_ctrl: the FSM and its step counter. *)

TileCtrl(cmd_start) ==
  \/ /\ Idle /\ cmd_start
     /\ state' = "LOAD" /\ step' = 0
     /\ done_latched' = FALSE /\ weight_done' = FALSE
  \/ /\ Idle /\ ~cmd_start
     /\ UNCHANGED ctrl
  \/ /\ LoadPhase /\ step = COLS - 1
     /\ state' = "RUN" /\ step' = 0 /\ weight_done' = TRUE
     /\ UNCHANGED done_latched
  \/ /\ LoadPhase /\ step # COLS - 1
     /\ step' = step + 1
     /\ UNCHANGED <<state, done_latched, weight_done>>
  \/ /\ RunPhase /\ step < COMPUTE_LAST_STEP
     /\ step' = step + 1
     /\ UNCHANGED <<state, done_latched, weight_done>>
  \/ /\ RunPhase /\ step >= COMPUTE_LAST_STEP /\ AllRowsDone
     /\ state' = "IDLE" /\ done_latched' = TRUE
     /\ UNCHANGED <<step, weight_done>>
  \/ /\ RunPhase /\ step >= COMPUTE_LAST_STEP /\ ~AllRowsDone
     /\ UNCHANGED ctrl
-----------------------------------------------------------------------------
(* The memories' drive of the array edges, and the wires between the PEs.  *)
(* Weights enter at the left, last column first; activations at the top,   *)
(* skewed by column; partial sums at the left, skewed by row.              *)

WeightIn_inOrder(r, c) == IF c = 0 THEN weight_mem[r][step % COLS] ELSE weight_q[r][c - 1]
WeightIn(r, c) == IF c = 0 THEN weight_mem[r][(COLS - 1) - step]
                           ELSE weight_q[r][c - 1]

ActIn_broadcast(r, c) == IF RunPhase /\ step = c THEN act_mem[c] ELSE 0
ActIn(r, c) == IF r > 0 THEN act_out[r - 1][c]
               ELSE IF RunPhase /\ step = c THEN act_mem[c] ELSE 0

PsumIn_noSkew(r, c) == IF c > 0 THEN psum_out[r][c - 1]
                       ELSE IF RunPhase /\ step = 0 THEN acc_q[r] ELSE 0
PsumIn(r, c) == IF c > 0 THEN psum_out[r][c - 1]
                ELSE IF RunPhase /\ step = r THEN acc_q[r] ELSE 0

ValidIn(r, c) == IF c > 0 THEN <<r, c - 1>> \in valid_out
                          ELSE RunPhase /\ step = r

(* w1a8_pe, all of them. *)
PeArray ==
  \/ /\ LoadPhase
     /\ weight_q'  = [r \in Row |-> [c \in Col |-> WeightIn(r, c)]]
     /\ act_out'   = [r \in Row |-> Zero(Col)]
     /\ psum_out'  = [r \in Row |-> Zero(Col)]
     /\ valid_out' = {}
  \/ /\ ~LoadPhase
     /\ act_out'   = [r \in Row |-> [c \in Col |-> ActIn(r, c)]]
     /\ psum_out'  = [r \in Row |-> [c \in Col |->
                        IF ValidIn(r, c)
                        THEN AddPsum(PsumIn(r, c), Contrib(weight_q[r][c], ActIn(r, c)))
                        ELSE 0]]
     /\ valid_out' = {rc \in Row \X Col : ValidIn(rc[1], rc[2])}
     /\ UNCHANGED weight_q
-----------------------------------------------------------------------------
(* tpu_acc_mem: a row's sum is captured when its last PE is valid. *)

Exiting_fromOne == {r \in Row : r > 0 /\ <<r, COLS - 1>> \in valid_out}
Exiting  == {r \in Row : <<r, COLS - 1>> \in valid_out}
Captured == [r \in Row |-> IF r \in Exiting THEN psum_out[r][COLS - 1] ELSE acc_q[r]]

Capture == /\ acc_q' = Captured
           /\ acc_done' = acc_done \cup Exiting

(* The output byte: RDP's result, or the status flags (tpu_status). *)
ResultByte(row, b) == IF row >= ROWS THEN 0 ELSE GetByte(acc_q[row], b)

Status == [busy |-> ~Idle, done |-> done_latched, weight_done |-> weight_done,
           all_rows_done |-> AllRowsDone, idle |-> Idle, error |-> error_latched]
-----------------------------------------------------------------------------
(* One action per command.  Writes are accepted only when idle; on any     *)
(* other cycle the command is dropped and the array just advances.         *)

LatchError(err) == error_latched' = (error_latched \/ err)

Ldw(row, bits) ==
  /\ TileCtrl(FALSE) /\ PeArray /\ Capture
  /\ weight_mem' = IF Idle /\ row < ROWS THEN [weight_mem EXCEPT ![row] = bits]
                                         ELSE weight_mem
  /\ LatchError(Idle /\ row >= ROWS)
  /\ UNCHANGED act_mem

Lda_ungated(col, a) ==
  /\ TileCtrl(FALSE) /\ PeArray /\ Capture
  /\ act_mem' = IF col < COLS THEN [act_mem EXCEPT ![col] = a] ELSE act_mem
  /\ LatchError(col >= COLS)
  /\ UNCHANGED weight_mem

Lda(col, a) ==
  /\ TileCtrl(FALSE) /\ PeArray /\ Capture
  /\ act_mem' = IF Idle /\ col < COLS THEN [act_mem EXCEPT ![col] = a] ELSE act_mem
  /\ LatchError(Idle /\ col >= COLS)
  /\ UNCHANGED weight_mem

Seed(row, b, x) ==
  /\ TileCtrl(FALSE) /\ PeArray
  /\ acc_q' = IF Idle /\ row < ROWS
              THEN [Captured EXCEPT ![row] = SetByte(@, b, x)]
              ELSE Captured
  /\ acc_done' = acc_done \cup Exiting
  /\ LatchError(Idle /\ row >= ROWS)
  /\ UNCHANGED <<weight_mem, act_mem>>

Start ==
  /\ TileCtrl(TRUE) /\ PeArray
  /\ acc_q' = Captured
  /\ acc_done' = IF Idle THEN {} ELSE acc_done \cup Exiting
  /\ UNCHANGED <<weight_mem, act_mem, error_latched>>

\* STATUS, RDP and NOP: only the output mux looks at them.
Observe ==
  /\ TileCtrl(FALSE) /\ PeArray /\ Capture
  /\ UNCHANGED <<weight_mem, act_mem, error_latched>>

ClearCtrl_keepDone == state' = "IDLE" /\ step' = 0 /\ UNCHANGED <<done_latched, weight_done>>
ClearCtrl == /\ state' = "IDLE" /\ step' = 0
             /\ done_latched' = FALSE /\ weight_done' = FALSE

\* CLEAR: everything but the weights, in weight_mem and in the PEs.
Clear ==
  /\ ClearCtrl
  /\ act_mem' = Zero(Col)
  /\ acc_q' = Zero(Row) /\ acc_done' = {}
  /\ act_out' = [r \in Row |-> Zero(Col)]
  /\ psum_out' = [r \in Row |-> Zero(Col)]
  /\ valid_out' = {}
  /\ error_latched' = FALSE
  /\ UNCHANGED <<weight_mem, weight_q>>

\* rst_n low on an edge.
Reset ==
  /\ ClearCtrl
  /\ weight_mem' = [r \in Row |-> Zero(Col)]
  /\ act_mem' = Zero(Col)
  /\ acc_q' = Zero(Row) /\ acc_done' = {}
  /\ weight_q' = [r \in Row |-> Zero(Col)]
  /\ act_out' = [r \in Row |-> Zero(Col)]
  /\ psum_out' = [r \in Row |-> Zero(Col)]
  /\ valid_out' = {}
  /\ error_latched' = FALSE

\* The state after the reset every bench and board applies first.
Init ==
  /\ state = "IDLE" /\ step = 0 /\ done_latched = FALSE /\ weight_done = FALSE
  /\ weight_mem = [r \in Row |-> Zero(Col)]
  /\ act_mem = Zero(Col)
  /\ acc_q = Zero(Row) /\ acc_done = {}
  /\ weight_q = [r \in Row |-> Zero(Col)]
  /\ act_out = [r \in Row |-> Zero(Col)]
  /\ psum_out = [r \in Row |-> Zero(Col)]
  /\ valid_out = {}
  /\ error_latched = FALSE

Next ==
  \/ \E row \in RowSel, bits \in [Col -> Bit] : Ldw(row, bits)
  \/ \E col \in ColSel, a \in Act : Lda(col, a)
  \/ \E row \in RowSel, b \in 0 .. PsumBytes - 1, x \in Byte : Seed(row, b, x)
  \/ Start
  \/ Observe
  \/ Clear
  \/ Reset

Spec == Init /\ [][Next]_vars

\* The clock does not stop.  During a run every command but CLEAR does what
\* Observe does; nothing obliges the host to CLEAR or to reset.
FairSpec == Spec /\ WF_vars(~Idle /\ Observe)
-----------------------------------------------------------------------------
(* Properties. *)

\* Every register holds a value its width allows.
TypeOK ==
  /\ state \in {"IDLE", "LOAD", "RUN"}
  /\ step \in 0 .. COMPUTE_LAST_STEP
  /\ done_latched \in BOOLEAN /\ weight_done \in BOOLEAN
  /\ weight_mem \in [Row -> [Col -> Bit]]
  /\ act_mem \in [Col -> Act]
  /\ acc_q \in [Row -> Psum] /\ acc_done \subseteq Row
  /\ weight_q \in [Row -> [Col -> Bit]]
  /\ act_out \in [Row -> [Col -> Act]]
  /\ psum_out \in [Row -> [Col -> Psum]]
  /\ valid_out \subseteq Row \X Col
  /\ error_latched \in BOOLEAN

\* No partial sum is in flight when the host may write: a SEED, LDA or LDW the
\* chip accepts never meets a capture, a run or its leftovers (tpu_acc_mem.v
\* relies on it: "different cycle in practice"), and RDP after all_rows_done
\* reads a sum nothing will overwrite.
NothingInFlight == Idle \/ AllRowsDone => valid_out = {}

\* The two skews and the reversed weight load meet: whenever a partial sum
\* enters PE (r, c) it meets weight (r, c) and activation c of the operands
\* the host stored, and no other.
MacAligned ==
  \A r \in Row, c \in Col :
    ~LoadPhase /\ ValidIn(r, c) =>
      /\ weight_q[r][c] = weight_mem[r][c]
      /\ ActIn(r, c) = act_mem[c]

\* The sticky done flag speaks of the last run: it is up only when idle, with
\* the weights loaded and every row captured (bits 1 to 3 of the status byte).
DoneMeansCaptured == done_latched => Idle /\ weight_done /\ AllRowsDone

\* What a run reads is frozen while it runs, and each row is written once: an
\* accumulator changes only when its row is captured, and then for good.
OperandsHeld ==
  [][~Idle /\ state' # "IDLE" =>
       /\ UNCHANGED <<weight_mem, act_mem>>
       /\ \A r \in Row : acc_q'[r] # acc_q[r] => r \notin acc_done /\ r \in acc_done']_vars

\* Edges left until the chip is idle again, and what START sets it to.
Remaining ==
  IF Idle THEN 0
  ELSE IF LoadPhase THEN (COLS - step) + COMPUTE_LAST_STEP + 2
  ELSE (COMPUTE_LAST_STEP - step) + (IF AllRowsDone THEN 1 ELSE 2)

TileLatency == 2 * COLS + ROWS + 1

\* The run length is fixed: START sets the countdown, every edge whatever the
\* command takes one off, and only CLEAR or reset cuts it short.  The host's
\* padding (tile_done_pad_cycles) relies on the number.
ExactLatency ==
  [][/\ Idle => Remaining' \in {0, TileLatency}
     /\ ~Idle => \/ Remaining' = Remaining - 1
                 \/ Remaining' = 0 /\ ~done_latched']_vars

\* A run that was started ends (the clock being fair).
RunEnds == ~Idle ~> Idle
-----------------------------------------------------------------------------
(* The inductive invariant behind these properties: where everything is at *)
(* each step of a run.                                                     *)

\* Idle: the array holds no partial sum.
IdleInv == Idle => valid_out = {}

\* Loading: after `step` shifts the first `step` PEs of a row hold its last
\* `step` weights, no row is done and nothing is in flight.
LoadInv ==
  LoadPhase =>
    /\ step < COLS /\ valid_out = {} /\ acc_done = {}
    /\ \A r \in Row, c \in Col : c < step => weight_q[r][c] = weight_mem[r][(COLS - step) + c]

\* Running: the wavefront is on the anti-diagonal r + c + 1 = step until the
\* last row is captured, with its activations beside it; the rows it has left
\* are captured.
WaveInv ==
  RunPhase =>
    /\ \A r \in Row, c \in Col :
         <<r, c>> \in valid_out <=> step = r + c + 1 /\ ROWS - 1 \notin acc_done
    /\ \A r \in Row, c \in Col :
         <<r, c>> \in valid_out => act_out[r][c] = act_mem[c]
    /\ \A r \in Row : r < ROWS - 1 => (r \in acc_done <=> step > r + COLS)
    /\ ROWS - 1 \in acc_done => step = COMPUTE_LAST_STEP

\* Running: the PEs hold the stored weights.
WeightInv == RunPhase => weight_done /\ weight_q = weight_mem

PipelineInv == IdleInv /\ LoadInv /\ WaveInv /\ WeightInv /\ DoneMeansCaptured
-----------------------------------------------------------------------------
(* What the tile promises its host. *)

\* While a run is in progress an accumulator already stands for its result:
\* a row not captured yet is mapped to what the run will add to it.
Tile == INSTANCE TileSpec WITH
          weights <- weight_mem,
          acts    <- act_mem,
          acc     <- [r \in Row |->
                        IF ~Idle /\ r \notin acc_done
                        THEN RunResult(weight_mem[r], act_mem, acc_q[r])
                        ELSE acc_q[r]],
          busy    <- ~Idle,
          done    <- done_latched

\* The chip implements TileSpec: for every interleaving of commands with a run,
\* the accumulators a host reads after a run are those of one atomic
\* multiply-accumulate over the operands stored at START.
RefinesTileSpec == Tile!Spec
=============================================================================
