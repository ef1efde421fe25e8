----------------------------- MODULE Q1A8Kernel -----------------------------
(***************************************************************************)
(* The FPGA's Q1A8 kernel, clock by clock (fpga/rtl/q1a8): q1a8_kernel.v   *)
(* takes one column of activations into its block RAM, then the weights    *)
(* rowblock by rowblock, and emits every row's sum; q1a8_rowblock.v and    *)
(* q1a8_reducer.v are the lanes' pipeline and accumulators;                *)
(* q1a8_kernel_top.v holds the host's registers.                           *)
(*                                                                         *)
(* A sum is the sequence of its contributions, and a contribution names    *)
(* the words it was made from: floating point is left out.  The two input  *)
(* streams are Q1A8Layout's, offered, and the results taken, in any        *)
(* rhythm.                                                                 *)
(***************************************************************************)
EXTENDS Q1A8Layout

CONSTANTS MAX_SUB_INDEX,    \* sub-blocks the activation RAM holds (256)
          REDUCER_LATENCY,  \* length of the pipe that announces the end (2)
          Shapes,           \* <<rows, Q1 blocks per row>> the host asks for
          MAX_STARTS        \* bound: kernel starts

ASSUME KernelAssumption ==
  /\ REDUCER_LATENCY \in Nat \ {0} /\ MAX_STARTS \in Nat \ {0} /\ MAX_SUB_INDEX \in Nat
  /\ Shapes \subseteq (Nat \ {0}) \X (Nat \ {0})
  /\ \A s \in Shapes : s[2] * Q8_SUBBLOCKS <= MAX_SUB_INDEX

VARIABLES fsm,        \* state and counters of q1a8_kernel
          acts,       \* mem: activation RAM; q: its output register; accum: the sub-block coming in
          weights,    \* scales and bits: the operand registers, per lane
          lanes,      \* the rowblock: control inputs, pipeline, last_pipe, done, acc
          host        \* shape, column, stream positions, results, tlast seen, start_strobe, done_latched

vars == <<fsm, acts, weights, lanes, host>>

Lane       == 0 .. ROWS_PER_BLOCK - 1
EMIT_BEATS == ROWS_PER_BLOCK \div 2
LAST_SUB   == Q8_SUBBLOCKS - 1
Bubble     == <<>>                       \* a pipeline stage whose valid bit is 0

\* What the two DMAs read.
WeightStream == [s \in Shapes |-> PackWeights(Q1Matrix(s[1], s[2]), s[1], s[2])]
ActStream    == [s \in Shapes |-> [c \in 1 .. MAX_STARTS |->
                   PackActs(QuantsOf(c, s[2]), ActScalesOf(c, s[2]), s[2])]]

WeightsLeft == host.wpos < Len(WeightStream[host.shape])
WeightBeat  == SubSeq(WeightStream[host.shape], host.wpos + 1, host.wpos + BEAT)
ActsLeft    == host.apos < Len(ActStream[host.shape][host.col])
ActBeat     == SubSeq(ActStream[host.shape][host.col], host.apos + 1, host.apos + BEAT)

\* {q1[Q1_IDX_W-1:0], sub}: the index has no more bits than the RAM needs.
RamIndex(q1, sub) == (q1 * Q8_SUBBLOCKS + sub) % MAX_SUB_INDEX
-----------------------------------------------------------------------------
(* What every clock does, whatever the state. *)

\* The RAM's output register, one clock behind its address.
ActsQ_direct(mem) == mem[RamIndex(fsm'.q1_processed, fsm'.q8_index)]
ActsQ(mem) == mem[RamIndex(fsm.q1_processed, fsm.q8_index)]

\* q1a8_reducer, once per lane: three registers.  Each lane takes its operands
\* as they stand when valid_in is high, a clock after ST_ISSUE.
Operands == [l \in Lane |-> <<weights.scales[l], weights.bits[l], acts.q>>]

\* q1a8_rowblock: start clears, a contribution that comes out is added.
Accumulated ==
  IF lanes.start THEN [l \in Lane |-> <<>>]
  ELSE IF lanes.out = Bubble THEN lanes.acc
  ELSE [l \in Lane |-> Append(lanes.acc[l], lanes.out[l])]

LastPipe ==
  IF lanes.start THEN [i \in 1 .. REDUCER_LATENCY |-> FALSE]
  ELSE <<lanes.valid /\ lanes.last>> \o SubSeq(lanes.last_pipe, 1, REDUCER_LATENCY - 1)

\* One clock of the lanes; start, valid and last are the rowblock_* registers set in it.
Datapath(start, valid, last) ==
  lanes' = [start |-> start, valid |-> valid, last |-> last,
            s1  |-> IF lanes.valid THEN Operands ELSE Bubble,
            s2  |-> lanes.s1,
            out |-> lanes.s2,
            last_pipe |-> LastPipe,
            done |-> ~lanes.start /\ lanes.last_pipe[REDUCER_LATENCY],
            acc  |-> Accumulated]

\* A clock that neither starts a rowblock nor issues a sub-block.
Quiet == Datapath(FALSE, FALSE, FALSE)
ReadRam == acts' = [acts EXCEPT !.q = ActsQ(acts.mem)]

\* q1a8_kernel_top: kernel_done, high for a clock, is latched until the next strobe.
Latched(h) == [h EXCEPT !.strobe = FALSE, !.done = ~h.strobe /\ (h.done \/ fsm.kernel_done)]
-----------------------------------------------------------------------------
Init ==
  /\ fsm = [state |-> "IDLE", q1_remaining |-> 0, rowblock_remaining |-> 0, q8_index |-> 0,
            beat_index |-> 0, drain_cnt |-> 0, emit_beat |-> 0, q1_processed |-> 0,
            load_beat |-> 0, load_q1 |-> 0, load_sub |-> 0, kernel_done |-> FALSE]
  /\ acts = [mem |-> [i \in 0 .. MAX_SUB_INDEX - 1 |-> <<>>], q |-> <<>>, accum |-> <<>>]
  /\ weights = [scales |-> [l \in Lane |-> Zero], bits |-> [l \in Lane |-> Zeros(2)]]
  /\ lanes = [start |-> FALSE, valid |-> FALSE, last |-> FALSE, s1 |-> Bubble, s2 |-> Bubble,
              out |-> Bubble, last_pipe |-> [i \in 1 .. REDUCER_LATENCY |-> FALSE],
              done |-> FALSE, acc |-> [l \in Lane |-> <<>>]]
  /\ host = [shape |-> CHOOSE s \in Shapes : TRUE, col |-> 0, wpos |-> 0, apos |-> 0,
             results |-> <<>>, tlast |-> FALSE, strobe |-> FALSE, done |-> FALSE]

\* bonsai_q1a8_wait_matmul_chunk returned: the result DMA has its last beat, and
\* STATUS.done is read as set.
Waited == host.col = 0 \/ (host.tlast /\ host.done)

\* bonsai_q1a8_start_matmul_chunk: the sizes, the three DMAs and start_strobe, which the
\* kernel sees at its next clock.
Strobe(shape) ==
  /\ Waited /\ host.col < MAX_STARTS
  /\ host' = [shape |-> shape, col |-> host.col + 1, wpos |-> 0, apos |-> 0,
              results |-> <<>>, tlast |-> FALSE, strobe |-> TRUE, done |-> host.done]
  /\ UNCHANGED <<fsm, acts, weights, lanes>>

\* start_pulse: a busy kernel takes its next step instead, and the strobe is lost.
Start ==
  /\ fsm.state = "IDLE" /\ host.strobe
  /\ fsm' = [fsm EXCEPT !.state = "LOAD_ACTS", !.q1_remaining = host.shape[2],
                        !.rowblock_remaining = Rowblocks(host.shape[1]), !.q8_index = 0,
                        !.beat_index = 0, !.q1_processed = 0, !.load_beat = 0,
                        !.load_q1 = 0, !.load_sub = 0, !.kernel_done = FALSE]
  /\ host' = Latched(host)
  /\ Quiet /\ ReadRam /\ UNCHANGED weights

\* A clock in which the state waits: for a start, a beat or the lanes.
Waiting ==
  \/ fsm.state = "IDLE" /\ ~host.strobe
  \/ fsm.state \in {"LOAD_ACTS", "LOAD_SCALE", "SCALES", "WBITS", "EMIT"}
  \/ fsm.state = "WAIT_DONE" /\ ~lanes.done

Stall ==
  /\ Waiting
  /\ fsm' = [fsm EXCEPT !.kernel_done = FALSE]
  /\ host' = Latched(host)
  /\ Quiet /\ ReadRam /\ UNCHANGED weights

\* A beat of the activations, into the assembly register.
LoadActs ==
  /\ fsm.state = "LOAD_ACTS" /\ ActsLeft
  /\ fsm' = [fsm EXCEPT !.load_beat = @ + 1,
                        !.state = IF fsm.load_beat = ACT_BEATS - 1 THEN "LOAD_SCALE" ELSE @]
  /\ acts' = [acts EXCEPT !.q = ActsQ(acts.mem),
                          !.accum = SubSeq(@, 1, fsm.load_beat * BEAT) \o ActBeat]
  /\ host' = [Latched(host) EXCEPT !.apos = @ + BEAT]
  /\ Quiet /\ UNCHANGED weights

\* The scale's beat: the sub-block goes to the RAM; after the last one, the first rowblock.
LoadScale ==
  LET end == fsm.load_sub = LAST_SUB /\ fsm.load_q1 + 1 = host.shape[2]
      mem == [acts.mem EXCEPT ![RamIndex(fsm.load_q1, fsm.load_sub)] =
                <<acts.accum, Head(ActBeat)>>]
  IN
  /\ fsm.state = "LOAD_SCALE" /\ ActsLeft
  /\ fsm' = [fsm EXCEPT !.load_beat = 0,
                        !.load_sub = IF @ = LAST_SUB THEN 0 ELSE @ + 1,
                        !.load_q1 = IF fsm.load_sub = LAST_SUB /\ ~end THEN @ + 1 ELSE @,
                        !.state = IF end THEN "SCALES" ELSE "LOAD_ACTS"]
  /\ acts' = [acts EXCEPT !.mem = mem, !.q = ActsQ(acts.mem)]
  /\ host' = [Latched(host) EXCEPT !.apos = @ + BEAT]
  /\ Datapath(end, FALSE, FALSE) /\ UNCHANGED weights

\* A beat of four lanes' scales.
Scales ==
  LET end == fsm.beat_index = SCALE_BEATS - 1 IN
  /\ fsm.state = "SCALES" /\ WeightsLeft
  /\ weights' = [weights EXCEPT !.scales =
       [l \in Lane |-> IF l \div 4 = fsm.beat_index THEN WeightBeat[(l % 4) + 1] ELSE @[l]]]
  /\ fsm' = [fsm EXCEPT !.beat_index = IF end THEN 0 ELSE @ + 1,
                        !.q8_index = IF end THEN 0 ELSE @,
                        !.state = IF end THEN "WBITS" ELSE @]
  /\ host' = [Latched(host) EXCEPT !.wpos = @ + BEAT]
  /\ Quiet /\ ReadRam

\* A beat of two lanes' weight masks.
Wbits ==
  LET end == fsm.beat_index = WBITS_BEATS - 1 IN
  /\ fsm.state = "WBITS" /\ WeightsLeft
  /\ weights' = [weights EXCEPT !.bits =
       [l \in Lane |-> IF l \div 2 = fsm.beat_index
                       THEN SubSeq(WeightBeat, 2 * (l % 2) + 1, 2 * (l % 2) + 2) ELSE @[l]]]
  /\ fsm' = [fsm EXCEPT !.beat_index = IF end THEN 0 ELSE @ + 1,
                        !.state = IF end THEN "ISSUE" ELSE @]
  /\ host' = [Latched(host) EXCEPT !.wpos = @ + BEAT]
  /\ Quiet /\ ReadRam

\* rowblock_last
LastIssue_counted == fsm.q1_remaining = 0 /\ fsm.q8_index = LAST_SUB
LastIssue == fsm.q1_remaining = 1 /\ fsm.q8_index = LAST_SUB

\* The sub-block goes to the lanes.
Issue ==
  LET sub == fsm.q8_index = LAST_SUB
      q1  == fsm.q1_remaining = 1
  IN
  /\ fsm.state = "ISSUE"
  /\ fsm' = [fsm EXCEPT !.q8_index = IF sub THEN 0 ELSE @ + 1,
                        !.q1_remaining = IF sub /\ ~q1 THEN @ - 1 ELSE @,
                        !.q1_processed = IF sub /\ ~q1 THEN @ + 1 ELSE @,
                        !.state = IF ~sub THEN "WBITS" ELSE IF q1 THEN "WAIT_DONE" ELSE "SCALES"]
  /\ host' = Latched(host)
  /\ Datapath(FALSE, TRUE, LastIssue) /\ ReadRam /\ UNCHANGED weights

\* done rises before the last contribution has been added; ST_DRAIN is slack.
WaitDone ==
  /\ fsm.state = "WAIT_DONE" /\ lanes.done
  /\ fsm' = [fsm EXCEPT !.drain_cnt = 2, !.state = "DRAIN"]
  /\ host' = Latched(host)
  /\ Quiet /\ ReadRam /\ UNCHANGED weights

Drain ==
  /\ fsm.state = "DRAIN"
  /\ fsm' = IF fsm.drain_cnt = 0 THEN [fsm EXCEPT !.emit_beat = 0, !.state = "EMIT"]
            ELSE [fsm EXCEPT !.drain_cnt = @ - 1]
  /\ host' = Latched(host)
  /\ Quiet /\ ReadRam /\ UNCHANGED weights

\* Two lanes' sums leave; after the last two the next rowblock, or the end.
Emit ==
  LET last == fsm.emit_beat = EMIT_BEATS - 1
      end  == last /\ fsm.rowblock_remaining = 1
  IN
  /\ fsm.state = "EMIT"
  /\ host' = [Latched(host) EXCEPT
                !.results = @ \o <<lanes.acc[2 * fsm.emit_beat], lanes.acc[2 * fsm.emit_beat + 1]>>,
                !.tlast = end]
  /\ fsm' = IF end THEN [fsm EXCEPT !.state = "FINISH"]
            ELSE IF last
            THEN [fsm EXCEPT !.rowblock_remaining = @ - 1, !.q1_remaining = host.shape[2],
                             !.q1_processed = 0, !.q8_index = 0, !.beat_index = 0,
                             !.state = "SCALES"]
            ELSE [fsm EXCEPT !.emit_beat = @ + 1]
  /\ Datapath(last /\ ~end, FALSE, FALSE) /\ ReadRam /\ UNCHANGED weights

Finish ==
  /\ fsm.state = "FINISH"
  /\ fsm' = [fsm EXCEPT !.kernel_done = TRUE, !.state = "IDLE"]
  /\ host' = Latched(host)
  /\ Quiet /\ ReadRam /\ UNCHANGED weights

Step == Start \/ LoadActs \/ LoadScale \/ Scales \/ Wbits \/ Issue \/ WaitDone \/ Drain \/ Emit \/ Finish
Next == Stall \/ Step \/ \E s \in Shapes : Strobe(s)

\* The clock runs, and the DMAs keep offering and taking beats.
Spec == Init /\ [][Next]_vars /\ WF_vars(Stall) /\ WF_vars(Step)
-----------------------------------------------------------------------------
(* What the kernel promises. *)

\* The words the contribution of sub-block i of a row is made from; lanes past
\* the last row have zero weights.
Term(shape, col, row, i) ==
  LET q1  == i \div Q8_SUBBLOCKS
      sub == i % Q8_SUBBLOCKS
  IN  << IF row < shape[1] THEN Whole(ScaleOf(row, q1), 1)[1] ELSE Zero,
         IF row < shape[1] THEN Whole(BitsOf(row, q1, sub), 2) ELSE Zeros(2),
         <<Whole(<<"acts", col, i>>, ACTS), <<<<"act_scale", col, i>>, 1, 1>>>> >>

RowSum(shape, col, row) == [i \in 1 .. shape[2] * Q8_SUBBLOCKS |-> Term(shape, col, row, i - 1)]

\* Every sum that leaves the kernel is made of the row's weights against the
\* column's activations, each sub-block once and in order, however the streams
\* stall and whatever the matrix before was; the last beat, and no other, is
\* marked; and done is set when all results have left and both streams are used up.
RowsExact ==
  /\ \A i \in DOMAIN host.results : host.results[i] = RowSum(host.shape, host.col, i - 1)
  /\ host.tlast <=> (host.col > 0 /\ Len(host.results) = Rowblocks(host.shape[1]) * ROWS_PER_BLOCK)
  /\ host.done /\ ~host.strobe => host.tlast /\ ~WeightsLeft /\ ~ActsLeft

\* Every start is followed by done, which the driver's wait polls for: also
\* the start that follows the previous result at once.
Finishes == \A c \in 1 .. MAX_STARTS : (host.col = c) ~> (host.done /\ ~host.strobe)
=============================================================================
