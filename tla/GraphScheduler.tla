--------------------------- MODULE GraphScheduler ---------------------------
(***************************************************************************)
(* The board daemon: one thread per client connection, a lock around every *)
(* request (Runtime.dispatch), and RUN_GRAPH's loop, which lets the ARM go *)
(* on with later ops while one matmul streams through the PL.  The driver  *)
(* of the PL matmul (run_async, complete, run) starts the two DMA engines  *)
(* and the kernel on a chunk of rowblocks; the hardware then runs by       *)
(* itself, reading the packed activations first and writing a rowblock of  *)
(* results after each rowblock of weights.                                 *)
(*                                                                         *)
(* Caches are not modelled: a cell has one value for the ARM and the DMA.  *)
(* A stream that has not stopped ends within POLL_LIMIT polls.             *)
(***************************************************************************)
EXTENDS GraphOps

CONSTANTS Clients, NoClient,
          Scripts,         \* what the clients may ask: requests of each, in order
          TensorCells,     \* the cells of the allocated tensors
          EXTENT,          \* cells in each slab extent of a tensor
          MAX_ROWBLOCKS,   \* rowblocks of weights in a chunk (8 MiB of them)
          NoTensor,        \* no matmul is in flight
          MAX_STALLS       \* bound: times the hardware may stop for good

ASSUME ChunkAssumption == EXTENT \in Nat \ {0} /\ MAX_ROWBLOCKS \in Nat \ {0}

Requests == UNION {Range(s[c]) : s \in Scripts, c \in Clients}
GraphsOf == {r.ops : r \in {q \in Requests : q.kind = "graph"}}

\* The ops that clients send: on allocated tensors of the sizes their shapes need, or ones that
\* raise before they touch anything ("refused").  An op that run() would find too large for its
\* tensors in a later chunk, after writing the first ones, is none of them.
IsTensor(t)   == t # NoTensor /\ t.lo \in Nat /\ t.n \in Nat /\ CellsOf(t) \subseteq TensorCells
MmShape(op)   == /\ op.rows \in Nat \ {0} /\ op.cols \in Nat \ {0} /\ DOMAIN op.src = 1 .. 2
                 /\ op.src[1].n = Rowblocks(op.rows) /\ op.src[2].n = op.cols
                 /\ op.dst.n = op.rows * op.cols
WellFormed(op) == Works(op) => /\ \A t \in Tensors(op) : IsTensor(t)
                               /\ op.kind = "mm" => MmShape(op)

ASSUME ScriptAssumption ==
  /\ NoClient \notin Clients /\ Scripts \subseteq [Clients -> Seq(Requests)]
  /\ TensorCells \subseteq (Nat \ {0}) \X Nat   \* handles start at 1
  /\ \A r \in Requests : r.kind = "download" => CellsOf(r.t) \subseteq TensorCells
  /\ \A ops \in GraphsOf : ops \in Seq(Range(ops)) /\ \A i \in DOMAIN ops : WellFormed(ops[i])
ASSUME ArenaAssumption == \A ops \in GraphsOf : ArenaSafe(ops)

VARIABLES
  script,   \* requests still to be answered, per client
  thread,   \* "idle", "waiting" for the lock, or "holding" it
  ret,      \* the last answer of each client
  lock,     \* Runtime._lock: its holder, or NoClient
  before,   \* history: the tensors when the lock was taken
  graph,    \* run_graph's locals
  mem,      \* tensors and the driver's buffers
  hw        \* the DMA engines and the kernel

server == <<script, thread, ret, lock, before>>
vars   == <<server, graph, mem, hw>>

\* The driver's own buffers, beside the tensors.
ActsBuf     == <<0, 0>>
ResultBuf(i) == <<-1, i>>
BufCells    == {ActsBuf} \cup {ResultBuf(i) : i \in 0 .. MAX_ROWBLOCKS * ROWS_PER_BLOCK - 1}

Smaller(a, b) == IF a < b THEN a ELSE b
InitValue(c) == <<"init", c[1], c[2]>>
NoChunk      == [state |-> "idle", acts |-> InitValue(ActsBuf), w |-> <<>>, to |-> <<>>, done |-> 0]
NewGraph     == [at |-> 1, step |-> "op", vals |-> <<>>, col |-> 0, rb |-> 0,
                 in_flight |-> NoTensor]

Init ==
  /\ script \in Scripts
  /\ thread = [c \in Clients |-> "idle"]
  /\ ret = [c \in Clients |-> [ok |-> TRUE, data |-> <<>>]]
  /\ lock = NoClient
  /\ mem = [c \in TensorCells \cup BufCells |-> InitValue(c)]
  /\ before = [c \in TensorCells |-> InitValue(c)]
  /\ graph = NewGraph
  /\ hw = NoChunk
-----------------------------------------------------------------------------
(* The server's threads and the lock. *)

Request(c) == Head(script[c])
Op(c)      == Request(c).ops[graph.at]

Recv(c) ==
  /\ thread[c] = "idle" /\ script[c] # <<>>
  /\ thread' = [thread EXCEPT ![c] = "waiting"]
  /\ UNCHANGED <<script, ret, lock, before, graph, mem, hw>>

Acquire(c) ==
  /\ thread[c] = "waiting" /\ lock = NoClient
  /\ lock' = c
  /\ thread' = [thread EXCEPT ![c] = "holding"]
  /\ before' = [x \in TensorCells |-> mem[x]]
  /\ graph' = NewGraph
  /\ UNCHANGED <<script, ret, mem, hw>>

Respond(c, answer) ==
  /\ lock' = NoClient
  /\ thread' = [thread EXCEPT ![c] = "idle"]
  /\ script' = [script EXCEPT ![c] = Tail(@)]
  /\ ret' = [ret EXCEPT ![c] = answer]
  /\ UNCHANGED before

Ok(c, data) == Respond(c, [ok |-> TRUE, data |-> data])

Error_keepsLock(c) == /\ thread' = [thread EXCEPT ![c] = "idle"]
                      /\ script' = [script EXCEPT ![c] = Tail(@)]
                      /\ ret' = [ret EXCEPT ![c] = [ok |-> FALSE, data |-> <<>>]]
                      /\ UNCHANGED <<lock, before, graph, mem, hw>>

\* An exception leaves the handler and the lock; what was started goes on.
Error(c) == Respond(c, [ok |-> FALSE, data |-> <<>>]) /\ UNCHANGED <<graph, mem, hw>>

Holds(c, kind) == thread[c] = "holding" /\ Request(c).kind = kind

Upload(c) ==
  /\ Holds(c, "upload")
  /\ mem' = Put(mem, Request(c).t, Request(c).data)
  /\ Ok(c, <<>>)
  /\ UNCHANGED <<graph, hw>>

Download(c) ==
  /\ Holds(c, "download")
  /\ Ok(c, Vals(mem, Request(c).t))
  /\ UNCHANGED <<graph, mem, hw>>

\* Arguments or a version that _handle or run_graph refuses.
Refuse(c) == Holds(c, "refused") /\ Error(c)
-----------------------------------------------------------------------------
(* The PL matmul. *)

\* A cell of weights, a rowblock, never straddles two extents here.
ExtentRemaining(lo) == EXTENT - (lo % EXTENT)
OneExtent(lo, n)    == n <= ExtentRemaining(lo)

\* run_async pipelines one column whose weights are one chunk and whose result
\* goes straight to one extent.
Pipelined(op) ==
  LET blocks == Rowblocks(op.rows)
  IN  /\ op.cols = 1
      /\ blocks <= MAX_ROWBLOCKS /\ OneExtent(op.src[1].lo, blocks)
      /\ op.rows % ROWS_PER_BLOCK = 0
      /\ OneExtent(op.dst.lo, op.rows)

\* The next chunk of run's two loops: its rowblocks, rows, and first result.
ChunkBlocks(op) ==
  Smaller(Smaller(MAX_ROWBLOCKS, Rowblocks(op.rows) - graph.rb),
          ExtentRemaining(op.src[1].lo + graph.rb))
ChunkRows(op)  == Smaller(ChunkBlocks(op) * ROWS_PER_BLOCK,
                          op.rows - graph.rb * ROWS_PER_BLOCK)
ChunkFirst(op) == graph.col * op.rows + graph.rb * ROWS_PER_BLOCK

\* The kernel fills whole rowblocks, so only a chunk of whole rowblocks may go
\* straight into the tensor; another goes to result_buf and is copied.
Direct(op) == /\ ChunkBlocks(op) * ROWS_PER_BLOCK = ChunkRows(op)
              /\ OneExtent(op.dst.lo + ChunkFirst(op), ChunkRows(op))

ResultCells_unpadded(op) ==
  [i \in 1 .. ChunkRows(op) |->
     IF Direct(op) THEN CellAt(op.dst, ChunkFirst(op) + i - 1) ELSE ResultBuf(i - 1)]

ResultCells(op) ==
  [i \in 1 .. ChunkBlocks(op) * ROWS_PER_BLOCK |->
     IF Direct(op) THEN CellAt(op.dst, ChunkFirst(op) + i - 1) ELSE ResultBuf(i - 1)]

\* start_matmul_chunk.  The kernel ignores a start while it is busy, and so
\* does a DMA channel that is not idle.
Start(op) ==
  hw' = IF hw.state # "idle" THEN hw
        ELSE [state |-> "load", acts |-> hw.acts,
              w     |-> [i \in 1 .. ChunkBlocks(op) |-> CellAt(op.src[1], graph.rb + i - 1)],
              to    |-> ResultCells(op), done |-> 0]

PackActs(op) == [mem EXCEPT ![ActsBuf] = mem[CellAt(op.src[2], graph.col)]]

Running == hw.state \in {"load", "stream"}

LoadActs ==
  /\ hw.state = "load"
  /\ hw' = [hw EXCEPT !.state = "stream", !.acts = mem[ActsBuf]]
  /\ UNCHANGED <<server, graph, mem>>

StreamBlock ==
  LET row(c) == CHOOSE i \in DOMAIN hw.to : hw.to[i] = c
      new    == {hw.to[hw.done * ROWS_PER_BLOCK + i] : i \in 1 .. ROWS_PER_BLOCK}
  IN  /\ hw.state = "stream"
      /\ mem' = [c \in DOMAIN mem |->
                   IF c \in new
                   THEN MmValue(hw.acts, mem[hw.w[hw.done + 1]], (row(c) - 1) % ROWS_PER_BLOCK)
                   ELSE mem[c]]
      /\ hw' = IF hw.done + 1 = Len(hw.w) THEN NoChunk ELSE [hw EXCEPT !.done = @ + 1]
      /\ UNCHANGED <<server, graph>>

\* The engines or the kernel stop and stay busy.
Stall ==
  /\ Running /\ MAX_STALLS > 0
  /\ hw' = [NoChunk EXCEPT !.state = "stalled"]
  /\ UNCHANGED <<server, graph, mem>>
-----------------------------------------------------------------------------
(* run_graph. *)

InGraph(c, step) == Holds(c, "graph") /\ graph.step = step
AtOp(c)          == InGraph(c, "op") /\ graph.at <= Len(Request(c).ops)

OpTouches_inside(op, d) == \E t \in Tensors(op) : t.h = d.h /\ d.lo < t.lo /\ t.lo < d.lo + d.n
OpTouches_reads(op, d)  == \E t \in Range(op.src) : t.h = d.h /\ d.lo <= t.lo /\ t.lo < d.lo + d.n

\* Only the first offset of each tensor is looked at.
OpTouches(op, d) == \E t \in Tensors(op) : t.h = d.h /\ d.lo <= t.lo /\ t.lo < d.lo + d.n

InFlight       == graph.in_flight # NoTensor
MustWait(op)   == InFlight /\ (op.kind = "mm" \/ OpTouches(op, graph.in_flight))
Ready(c, kind) == AtOp(c) /\ Op(c).kind = kind /\ ~MustWait(Op(c))

UnknownOp(c) == AtOp(c) /\ Op(c).kind = "unknown" /\ Error(c)
RefusedOp(c) == Ready(c, "refused") /\ Error(c)

\* complete: the wait ends with the stream, or fails when that has stopped.
Barrier(c) ==
  /\ AtOp(c) /\ Op(c).kind # "unknown" /\ MustWait(Op(c)) /\ ~Running
  /\ \/ /\ hw.state = "idle"
        /\ graph' = [graph EXCEPT !.in_flight = NoTensor]
        /\ UNCHANGED <<server, mem, hw>>
     \/ hw.state = "stalled" /\ Error(c)

PsRead(c) ==
  /\ Ready(c, "ps")
  /\ graph' = [graph EXCEPT !.step = "ps", !.vals = Inputs(mem, Op(c))]
  /\ UNCHANGED <<server, mem, hw>>

PsWrite(c) ==
  /\ InGraph(c, "ps")
  /\ mem' = Put(mem, Op(c).dst, PsResult(graph.vals, Op(c)))
  /\ graph' = [graph EXCEPT !.step = "op", !.vals = <<>>, !.at = @ + 1]
  /\ UNCHANGED <<server, hw>>

\* run_async on a shape it pipelines: no wait.
Issue(c) ==
  /\ Ready(c, "mm") /\ Pipelined(Op(c))
  /\ mem' = PackActs(Op(c))
  /\ Start(Op(c))
  /\ graph' = [graph EXCEPT !.at = @ + 1, !.in_flight = Op(c).dst]
  /\ UNCHANGED server

\* run: a chunk is started and waited for; a column's first chunk packs its
\* activations.
StartChunk(c) ==
  /\ Ready(c, "mm") /\ ~Pipelined(Op(c))
  /\ mem' = IF graph.rb = 0 THEN PackActs(Op(c)) ELSE mem
  /\ Start(Op(c))
  /\ graph' = [graph EXCEPT !.step = "wait"]
  /\ UNCHANGED server

\* result_buf, if the chunk went there, is copied to the tensor.
CopyBack(op) ==
  [x \in DOMAIN mem |->
     IF ~Direct(op) /\ \E i \in 0 .. ChunkRows(op) - 1 : x = CellAt(op.dst, ChunkFirst(op) + i)
     THEN mem[ResultBuf(x[2] - op.dst.lo - ChunkFirst(op))]
     ELSE mem[x]]

NextChunk(op) ==
  IF graph.rb + ChunkBlocks(op) < Rowblocks(op.rows)
  THEN [graph EXCEPT !.step = "op", !.rb = @ + ChunkBlocks(op)]
  ELSE IF graph.col + 1 < op.cols
  THEN [graph EXCEPT !.step = "op", !.rb = 0, !.col = @ + 1]
  ELSE [graph EXCEPT !.step = "op", !.rb = 0, !.col = 0, !.at = @ + 1]

WaitChunk(c) ==
  /\ InGraph(c, "wait") /\ ~Running
  /\ \/ /\ hw.state = "idle"
        /\ mem' = CopyBack(Op(c))
        /\ graph' = NextChunk(Op(c))
        /\ UNCHANGED <<server, hw>>
     \/ hw.state = "stalled" /\ Error(c)

AtEnd(c) == InGraph(c, "op") /\ graph.at > Len(Request(c).ops)

\* The drain after the last op, then the declared outputs must exist.
Finish(c) ==
  /\ AtEnd(c)
  /\ InFlight => ~Running
  /\ IF (InFlight /\ hw.state = "stalled") \/ ~Request(c).outputs_ok
     THEN Error(c)
     ELSE Ok(c, <<>>) /\ UNCHANGED <<graph, mem, hw>>
-----------------------------------------------------------------------------
Serve(c) == \/ Recv(c) \/ Acquire(c) \/ Upload(c) \/ Download(c) \/ Refuse(c)
            \/ UnknownOp(c) \/ RefusedOp(c) \/ Barrier(c) \/ PsRead(c) \/ PsWrite(c)
            \/ Issue(c) \/ StartChunk(c) \/ WaitChunk(c) \/ Finish(c)

Hardware == LoadActs \/ StreamBlock \/ Stall

Next == Hardware \/ \E c \in Clients : Serve(c)

Spec     == Init /\ [][Next]_vars
FairSpec == Spec /\ WF_vars(Next)
-----------------------------------------------------------------------------
(* Every variable has its type: one thread at most holds the lock, and the *)
(* engines' addresses are cells.                                           *)
TypeOK ==
  /\ DOMAIN script = Clients /\ DOMAIN ret = Clients
  /\ thread \in [Clients -> {"idle", "waiting", "holding"}]
  /\ \A c \in Clients : thread[c] = "holding" <=> lock = c
  /\ DOMAIN mem = TensorCells \cup BufCells /\ DOMAIN before = TensorCells
  /\ graph.step \in {"op", "ps", "wait"}
  /\ hw.state \in {"idle", "load", "stream", "stalled"}
  /\ Range(hw.to) \subseteq DOMAIN mem /\ Range(hw.w) \subseteq TensorCells
  /\ Len(hw.to) = Len(hw.w) * ROWS_PER_BLOCK

(* run_graph's overlap of ARM and PL cannot be told from the flat walk over*)
(* the ops: with the tensors frozen while a request holds the lock, every  *)
(* step is a request that takes effect at once, or nothing.  In particular *)
(* no cell changes after the answer.                                       *)
Daemon == INSTANCE GraphSpec WITH
  store <- [x \in TensorCells |-> IF lock = NoClient THEN mem[x] ELSE before[x]],
  Init_store <- [x \in TensorCells |-> InitValue(x)],
  todo <- script, answer <- ret

RefinesGraphSpec == Daemon!ASpec

\* Graphs in which an op that raises, which ends the walk, meets no matmul in
\* flight: a later op has waited for each one, or the op itself does.
Drained(ops) ==
  \A j \in DOMAIN ops : ~Works(ops[j]) =>
    /\ j = Len(ops)
    /\ \A i \in 1 .. j - 1 : (ops[i].kind = "mm" /\ Pipelined(ops[i])) =>
         \/ \E k \in i + 1 .. j - 1 : ops[k].kind = "mm" \/ OpTouches(ops[k], ops[i].dst)
         \/ ops[j].kind = "refused" /\ OpTouches(ops[j], ops[i].dst)

(* start_matmul_chunk's contract: until the wait, the ARM neither writes   *)
(* the cells the stream still has to fill nor reuses the packed            *)
(* activations it still has to read.                                       *)
WaitBeforeReuse ==
  [][(Running /\ hw' = hw) =>
       /\ \A i \in DOMAIN hw.to : mem'[hw.to[i]] = mem[hw.to[i]]
       /\ hw.state = "load" => mem'[ActsBuf] = mem[ActsBuf]]_vars

(* Every request is answered, whatever raises and whether or not the       *)
(* hardware stops: each wait is bounded and each exception frees the lock. *)
Answered == <>(\A c \in Clients : script[c] = <<>>)
=============================================================================
