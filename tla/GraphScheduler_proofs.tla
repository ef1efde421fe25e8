----------------------- MODULE GraphScheduler_proofs -----------------------
(***************************************************************************)
(* The board daemon for any clients, any requests and any shapes: its      *)
(* state stays well typed, and while a matmul streams the ARM touches      *)
(* neither its result nor its packed activations. Then that the daemon     *)
(* implements GraphSpec.                                                   *)
(***************************************************************************)
EXTENDS GraphScheduler, SetInduction

-----------------------------------------------------------------------------
(* The inductive invariant. *)

Cells == TensorCells \cup BufCells

\* The threads and the lock: whoever is not idle has a request, and one
\* thread at most is inside Runtime.dispatch.
ServerInv ==
  /\ script \in [Clients -> Seq(Requests)]
  /\ thread \in [Clients -> {"idle", "waiting", "holding"}]
  /\ DOMAIN ret = Clients
  /\ lock \in Clients \cup {NoClient}
  /\ \A c \in Clients : thread[c] = "holding" <=> lock = c
  /\ \A c \in Clients : thread[c] # "idle" => script[c] # <<>>

MemInv == DOMAIN mem = Cells /\ DOMAIN before = TensorCells

GraphType ==
  /\ DOMAIN graph = {"at", "step", "vals", "col", "rb", "in_flight"}
  /\ graph.at \in Nat \ {0} /\ graph.step \in {"op", "ps", "wait"}
  /\ graph.col \in Nat /\ graph.rb \in Nat

\* A chunk's addresses are cells, as many results as its rowblocks have rows.
HwInv ==
  /\ hw \in [state : {"idle", "load", "stream", "stalled"}, acts : {hw.acts},
             w : Seq(TensorCells), to : Seq(Cells), done : Nat]
  /\ Len(hw.to) = Len(hw.w) * ROWS_PER_BLOCK

Types == ServerInv /\ MemInv /\ GraphType /\ HwInv

\* A RUN_GRAPH request is being served.
Serving == lock \in Clients /\ Request(lock).kind = "graph"

\* A matmul that run works off in chunks.
Chunked(op) == op.kind = "mm" /\ ~Pipelined(op)

\* Where run_graph is: rb and col are not 0 only inside the loops of run.
PositionInv ==
  Serving =>
    /\ graph.at <= Len(Request(lock).ops) + 1
    /\ graph.step # "op" => graph.at <= Len(Request(lock).ops)
    /\ graph.step = "ps" => Op(lock).kind = "ps"
    /\ graph.step = "wait" => Chunked(Op(lock))
    /\ \/ graph.rb = 0 /\ graph.col = 0
       \/ /\ graph.at <= Len(Request(lock).ops) /\ Chunked(Op(lock))
          /\ graph.rb < Rowblocks(Op(lock).rows) /\ graph.col < Op(lock).cols

TypeInv == Types /\ PositionInv

\* Neither a source nor the destination of op meets the range d.
Apart(op, d) == op.kind = "ps" /\ ~OpTouches(op, d) /\ \A t \in Tensors(op) : ~Overlap(t, d)

\* Op i issued the matmul into d, and no op up to the one reached meets d.
Flying(ops, i, reached, d) ==
  /\ ops[i].kind = "mm" /\ Pipelined(ops[i]) /\ ops[i].dst = d
  /\ \A k \in i + 1 .. reached : Apart(ops[k], d)

\* The ops whose tensors have been read, or are about to be written.
Reached == IF graph.step = "ps" THEN graph.at ELSE graph.at - 1

\* The matmul in flight was issued by an op of this graph, and every op since
\* then is a glue kernel that stays clear of its result.
FlightInv ==
  (Serving /\ InFlight) =>
    /\ graph.step # "wait"
    /\ \E i \in 1 .. graph.at - 1 : Flying(Request(lock).ops, i, Reached, graph.in_flight)

\* The PL runs only while a graph is served and will wait for it; what is in
\* flight writes inside its result.
RunInv ==
  Running => /\ Serving
             /\ graph.step = "wait" \/ InFlight
             /\ InFlight => Range(hw.to) \subseteq CellsOf(graph.in_flight)

ScheduleInv == TypeInv /\ FlightInv /\ RunInv
-----------------------------------------------------------------------------
(* The requests. *)

\* Whoever is not idle serves a request of the scripts, and the ops of a graph
\* are ops the scripts may hold.
LEMMA RequestType ==
  ASSUME ServerInv, NEW c \in Clients, thread[c] # "idle"
  PROVE  /\ Request(c) \in Requests /\ Tail(script[c]) \in Seq(Requests)
         /\ Request(c).kind = "graph" => Request(c).ops \in GraphsOf
<1>1. script[c] \in Seq(Requests) /\ script[c] # <<>>
  BY DEF ServerInv
<1>2. Head(script[c]) \in Requests /\ Tail(script[c]) \in Seq(Requests)
  BY ONLY <1>1
<1>3. QED
  BY <1>2 DEF Request, GraphsOf

LEMMA OpsType ==
  ASSUME NEW ops \in GraphsOf
  PROVE  /\ ops \in Seq(Range(ops)) /\ Len(ops) \in Nat /\ DOMAIN ops = 1 .. Len(ops)
         /\ \A i \in 1 .. Len(ops) : WellFormed(ops[i])
<1>1. ops \in Seq(Range(ops)) /\ \A i \in DOMAIN ops : WellFormed(ops[i])
  BY ScriptAssumption
<1>2. Len(ops) \in Nat /\ DOMAIN ops = 1 .. Len(ops)
  BY ONLY <1>1
<1>3. QED
  BY <1>1, <1>2

\* A tensor of a working op lies in the allocated cells.
LEMMA TensorType ==
  ASSUME NEW op, WellFormed(op), Works(op), NEW t \in Tensors(op)
  PROVE  /\ t # NoTensor /\ t.lo \in Nat /\ t.n \in Nat
         /\ \A i \in 0 .. t.n - 1 : CellAt(t, i) \in TensorCells
BY DEF WellFormed, IsTensor, CellsOf
-----------------------------------------------------------------------------
(* What a step does to the threads and the lock. *)

Ending(c, answer) == Respond(c, answer) /\ UNCHANGED <<graph, hw>>

\* A thread's step takes a request, takes the lock, ends a request with an
\* answer, or is a step of run_graph, which leaves the server alone.
LEMMA ServeCases ==
  ASSUME NEW c \in Clients, Serve(c)
  PROVE  \/ Recv(c)
         \/ Acquire(c)
         \/ thread[c] = "holding" /\ \E answer : Ending(c, answer)
         \/ Holds(c, "graph") /\ UNCHANGED server
<1>. USE DEF Ending, Ok, Error, Holds, server
<1>1. CASE Upload(c) \/ Download(c) \/ Refuse(c)
  BY <1>1 DEF Upload, Download, Refuse
<1>2. CASE UnknownOp(c) \/ RefusedOp(c)
  BY <1>2 DEF UnknownOp, RefusedOp, Ready, AtOp, InGraph
<1>3. CASE Barrier(c)
  BY <1>3 DEF Barrier, AtOp, InGraph
<1>4. CASE PsRead(c) \/ PsWrite(c) \/ Issue(c) \/ StartChunk(c)
  BY <1>4 DEF PsRead, PsWrite, Issue, StartChunk, Ready, AtOp, InGraph
<1>5. CASE WaitChunk(c)
  BY <1>5 DEF WaitChunk, InGraph
<1>6. CASE Finish(c)
  BY <1>6 DEF Finish, AtEnd, InGraph
<1>7. QED
  BY <1>1, <1>2, <1>3, <1>4, <1>5, <1>6 DEF Serve

LEMMA RespondServer ==
  ASSUME ServerInv, NEW c \in Clients, thread[c] = "holding", NEW answer, Respond(c, answer)
  PROVE  ServerInv'
<1>1. Tail(script[c]) \in Seq(Requests)
  BY RequestType
<1>2. script' \in [Clients -> Seq(Requests)]
  BY <1>1 DEF ServerInv, Respond
<1>3. /\ thread' \in [Clients -> {"idle", "waiting", "holding"}]
      /\ DOMAIN ret' = Clients
      /\ lock' \in Clients \cup {NoClient}
  BY DEF ServerInv, Respond
<1>4. ASSUME NEW d \in Clients
      PROVE  /\ thread'[d] = "holding" <=> lock' = d
             /\ thread'[d] # "idle" => script'[d] # <<>>
  <2>1. CASE d = c
    BY <2>1, ScriptAssumption DEF ServerInv, Respond
  <2>2. CASE d # c
    BY <2>2, ScriptAssumption DEF ServerInv, Respond
  <2>3. QED
    BY <2>1, <2>2
<1>5. QED
  BY <1>2, <1>3, <1>4 DEF ServerInv

LEMMA ServerStep ==
  ASSUME ServerInv, [Next]_vars
  PROVE  ServerInv'
<1>1. CASE UNCHANGED server
  BY <1>1 DEF ServerInv, server
<1>2. ASSUME NEW c \in Clients, Recv(c) PROVE ServerInv'
  BY <1>2, ScriptAssumption DEF ServerInv, Recv
<1>3. ASSUME NEW c \in Clients, Acquire(c) PROVE ServerInv'
  BY <1>3, ScriptAssumption DEF ServerInv, Acquire
<1>4. ASSUME NEW c \in Clients, thread[c] = "holding", NEW answer, Ending(c, answer)
      PROVE  ServerInv'
  BY <1>4, RespondServer DEF Ending
<1>5. ASSUME NEW c \in Clients, Serve(c) PROVE ServerInv'
  BY <1>1, <1>2, <1>3, <1>4, <1>5, ServeCases
<1>6. Hardware => UNCHANGED server
  BY DEF Hardware, LoadActs, StreamBlock, Stall
<1>7. QED
  BY <1>1, <1>5, <1>6 DEF Next, vars
-----------------------------------------------------------------------------
(* The chunks of a matmul. *)

\* A matmul has a rowblock, and its last one is not empty.
LEMMA RowblocksBounds ==
  ASSUME NEW n \in Nat \ {0}
  PROVE  /\ Rowblocks(n) \in Nat \ {0}
         /\ (Rowblocks(n) - 1) * ROWS_PER_BLOCK < n
<1>. DEFINE R == ROWS_PER_BLOCK
            q == (n + R - 1) \div R
<1>1. R \in Nat \ {0}
  BY RowsAssumption
<1>. HIDE DEF R
<1>2. q \in Nat /\ q * R <= n + R - 1 /\ n + R - 1 < (q + 1) * R
  BY <1>1
<1>. HIDE DEF q
<1>3. q # 0
  <2>1. SUFFICES ASSUME q = 0 PROVE FALSE
    OBVIOUS
  <2>2. (q + 1) * R = R
    BY <1>1, <2>1
  <2>3. QED
    BY <1>1, <1>2, <2>2
<1>4. (q - 1) * R = q * R - R
  BY <1>1, <1>2
<1>5. (q - 1) * R < n
  <2>. DEFINE a == q * R
              b == (q - 1) * R
  <2>1. a \in Nat /\ b \in Int /\ b = a - R /\ a <= n + R - 1
    BY <1>1, <1>2, <1>4
  <2>. HIDE DEF a, b
  <2>2. b < n
    BY <1>1, <2>1
  <2>3. QED
    BY <2>2 DEF b
<1>6. QED
  BY <1>2, <1>3, <1>5 DEF Rowblocks, R, q

\* A position inside the loops of run.
Inside(op) == graph.rb < Rowblocks(op.rows) /\ graph.col < op.cols

LEMMA ChunkBounds ==
  ASSUME GraphType, NEW op, MmShape(op), Inside(op), op.src[1].lo \in Nat
  PROVE  /\ ChunkBlocks(op) \in 1 .. MAX_ROWBLOCKS
         /\ graph.rb + ChunkBlocks(op) <= Rowblocks(op.rows)
         /\ ChunkRows(op) \in Nat /\ ChunkFirst(op) \in Nat
         /\ ChunkFirst(op) + ChunkRows(op) <= op.dst.n
<1>. DEFINE R  == ROWS_PER_BLOCK
            rb == graph.rb
            B  == Rowblocks(op.rows)
            e  == ExtentRemaining(op.src[1].lo + rb)
            k  == ChunkBlocks(op)
            rows == op.rows
            col  == graph.col
            cols == op.cols
<1>1. /\ R \in Nat \ {0} /\ rb \in Nat /\ col \in Nat /\ rows \in Nat \ {0} /\ cols \in Nat \ {0}
      /\ rb < B /\ col < cols
      /\ B \in Nat \ {0} /\ (B - 1) * R < rows
  BY RowsAssumption, RowblocksBounds DEF GraphType, MmShape, Inside
<1>2. e \in Nat \ {0}
  <2>1. \A n \in Nat, d \in Nat \ {0} : d - (n % d) \in Nat \ {0}
    OBVIOUS
  <2>2. op.src[1].lo + rb \in Nat
    BY <1>1
  <2>3. QED
    BY <2>1, <2>2, ChunkAssumption DEF ExtentRemaining
<1>3. k = Smaller(Smaller(MAX_ROWBLOCKS, B - rb), e)
  BY DEF ChunkBlocks
<1>4. ChunkRows(op) = Smaller(k * R, rows - rb * R)
  BY DEF ChunkRows
<1>5. ChunkFirst(op) = col * rows + rb * R
  BY DEF ChunkFirst
<1>6. op.dst.n = rows * cols
  BY DEF MmShape
<1>. HIDE DEF R, rb, B, e, k, rows, col, cols
<1>7. k \in 1 .. MAX_ROWBLOCKS /\ rb + k <= B
  BY <1>1, <1>2, <1>3, ChunkAssumption DEF Smaller
<1>8. k * R \in Nat /\ rb * R \in Nat /\ col * rows \in Nat /\ rows * cols \in Nat
  BY <1>1, <1>7
<1>9. rb * R <= (B - 1) * R
  <2>1. rb <= B - 1 /\ B - 1 \in Nat
    BY <1>1
  <2>2. \A x, y, z \in Nat : x <= y => x * z <= y * z
    OBVIOUS
  <2>3. QED
    BY <1>1, <2>1, <2>2
<1>10. rb * R < rows
  <2>. DEFINE a == rb * R
              b == (B - 1) * R
  <2>1. a <= b /\ b < rows /\ a \in Nat /\ b \in Int
    BY <1>1, <1>8, <1>9
  <2>. HIDE DEF a, b
  <2>2. a < rows
    BY <1>1, <2>1
  <2>3. QED
    BY <2>2 DEF a
<1>11. col * rows + rows <= rows * cols
  <2>1. (col + 1) * rows <= cols * rows
    <3>1. \A x, y, z \in Nat : x <= y => x * z <= y * z
      OBVIOUS
    <3>2. col + 1 \in Nat /\ col + 1 <= cols
      BY <1>1
    <3>3. QED
      BY <1>1, <3>1, <3>2
  <2>2. (col + 1) * rows = col * rows + rows /\ cols * rows = rows * cols
    BY <1>1
  <2>3. QED
    BY <2>1, <2>2
<1>12. /\ ChunkRows(op) \in Nat /\ ChunkFirst(op) \in Nat
       /\ ChunkFirst(op) + ChunkRows(op) <= rows * cols
  <2>. DEFINE a == rb * R
              b == k * R
              c == col * rows
              n == rows * cols
  <2>1. /\ a \in Nat /\ b \in Nat /\ c \in Nat /\ n \in Nat /\ a < rows /\ c + rows <= n
        /\ ChunkRows(op) = Smaller(b, rows - a) /\ ChunkFirst(op) = c + a
    BY <1>4, <1>5, <1>8, <1>10, <1>11
  <2>. HIDE DEF a, b, c, n
  <2>2. /\ ChunkRows(op) \in Nat /\ ChunkFirst(op) \in Nat
        /\ ChunkFirst(op) + ChunkRows(op) <= n
    BY <1>1, <2>1 DEF Smaller
  <2>3. QED
    BY <2>2 DEF n
<1>13. QED
  BY <1>6, <1>7, <1>12 DEF k, rb, B

\* Starting a chunk gives the engines cells for addresses.
LEMMA StartType ==
  ASSUME HwInv, GraphType, NEW op, WellFormed(op), op.kind = "mm", Inside(op), Start(op)
  PROVE  HwInv'
<1>1. /\ MmShape(op) /\ op.src[1].lo \in Nat /\ op.dst.lo \in Nat
      /\ \A i \in 0 .. Rowblocks(op.rows) - 1 : CellAt(op.src[1], i) \in TensorCells
      /\ \A i \in 0 .. op.dst.n - 1 : CellAt(op.dst, i) \in TensorCells
  <2>1. Works(op) /\ MmShape(op)
    BY DEF Works, WellFormed
  <2>2. op.src[1] \in Tensors(op) /\ op.dst \in Tensors(op)
    BY <2>1 DEF Tensors, Range, MmShape
  <2>3. QED
    BY <2>1, <2>2, TensorType DEF MmShape
<1>2. CASE hw.state # "idle"
  BY <1>2 DEF Start, HwInv
<1>3. CASE hw.state = "idle"
  <2>. DEFINE k == ChunkBlocks(op)
              R == ROWS_PER_BLOCK
              w == [i \in 1 .. k |-> CellAt(op.src[1], graph.rb + i - 1)]
              to == ResultCells(op)
  <2>1. /\ k \in 1 .. MAX_ROWBLOCKS /\ graph.rb + k <= Rowblocks(op.rows)
        /\ ChunkRows(op) \in Nat /\ ChunkFirst(op) \in Nat
        /\ ChunkFirst(op) + ChunkRows(op) <= op.dst.n
    BY <1>1, ChunkBounds
  <2>2. /\ graph.rb \in Nat /\ R \in Nat \ {0} /\ MAX_ROWBLOCKS \in Nat \ {0}
        /\ Rowblocks(op.rows) \in Nat /\ op.dst.n \in Nat
    BY <1>1, RowsAssumption, ChunkAssumption, RowblocksBounds DEF GraphType, MmShape
  <2>3. k \in Nat /\ k * R \in Nat /\ k * R <= MAX_ROWBLOCKS * R
    <3>1. \A x, y, z \in Nat : x <= y => x * z <= y * z
      OBVIOUS
    <3>2. QED
      BY <2>1, <2>2, <3>1
  <2>. DEFINE m == k * R
  <2>4. to = [i \in 1 .. m |-> IF Direct(op) THEN CellAt(op.dst, ChunkFirst(op) + i - 1)
                                               ELSE ResultBuf(i - 1)]
    BY DEF ResultCells
  <2>5. Direct(op) => m = ChunkRows(op)
    BY DEF Direct
  <2>6. hw' = [state |-> "load", acts |-> hw.acts, w |-> w, to |-> to, done |-> 0]
    BY <1>3 DEF Start
  <2>. HIDE DEF k, R, to
  <2>7. w \in Seq(TensorCells) /\ Len(w) = k
    <3>1. \A i \in 1 .. k : CellAt(op.src[1], graph.rb + i - 1) \in TensorCells
      BY <1>1, <2>1, <2>2, <2>3
    <3>2. w \in [1 .. k -> TensorCells]
      BY <3>1
    <3>. HIDE DEF w
    <3>3. QED
      BY <2>3, <3>2
  <2>8. to \in Seq(Cells) /\ Len(to) = m
    <3>. HIDE DEF m
    <3>0. m \in Nat /\ m <= MAX_ROWBLOCKS * R
      BY <2>3 DEF m
    <3>1. \A i \in 1 .. m : to[i] \in Cells
      <4>1. SUFFICES ASSUME NEW i \in 1 .. m PROVE to[i] \in Cells
        OBVIOUS
      <4>2. CASE Direct(op)
        <5>1. ChunkFirst(op) + i - 1 \in 0 .. op.dst.n - 1
          BY <2>1, <2>2, <2>5, <3>0, <4>2
        <5>2. to[i] = CellAt(op.dst, ChunkFirst(op) + i - 1)
          BY <2>4, <4>2
        <5>3. CellAt(op.dst, ChunkFirst(op) + i - 1) \in TensorCells
          BY ONLY <1>1, <5>1
        <5>4. QED
          BY <5>2, <5>3 DEF Cells
      <4>3. CASE ~Direct(op)
        <5>. DEFINE z == MAX_ROWBLOCKS * R
        <5>1. z \in Nat /\ m <= z
          BY <2>2, <3>0
        <5>. HIDE DEF z
        <5>2. i - 1 \in 0 .. z - 1
          BY <3>0, <5>1
        <5>3. ResultBuf(i - 1) \in BufCells
          BY <5>2 DEF BufCells, z, R
        <5>4. to[i] = ResultBuf(i - 1)
          BY <2>4, <4>3
        <5>5. QED
          BY <5>3, <5>4 DEF Cells
      <4>4. QED
        BY <4>2, <4>3
    <3>2. to \in [1 .. m -> Cells]
      BY <2>4, <3>1
    <3>3. QED
      BY <3>0, <3>2
  <2>. HIDE DEF w, m
  <2>9. hw.acts' = hw.acts
    BY <2>6
  <2>10. /\ hw' \in [state : {"idle", "load", "stream", "stalled"}, acts : {hw.acts'},
                      w : Seq(TensorCells), to : Seq(Cells), done : Nat]
         /\ hw'.w = w /\ hw'.to = to
    BY <2>6, <2>7, <2>8, <2>9
  <2>11. QED
    BY <2>7, <2>8, <2>10 DEF HwInv, m, R
<1>4. QED
  BY <1>2, <1>3
-----------------------------------------------------------------------------
(* Types are preserved. *)

\* A step of run_graph is taken by the holder of the lock.
LEMMA HolderServes ==
  ASSUME ServerInv, NEW c \in Clients, Holds(c, "graph")
  PROVE  /\ lock = c /\ Serving
         /\ Request(c).ops \in GraphsOf
         /\ Len(Request(c).ops) \in Nat
<1>1. lock = c /\ thread[c] # "idle"
  BY DEF ServerInv, Holds
<1>2. Request(c).ops \in GraphsOf
  BY <1>1, RequestType DEF Holds
<1>3. Len(Request(c).ops) \in Nat
  BY <1>2, OpsType
<1>4. QED
  BY <1>1, <1>2, <1>3 DEF Holds, Serving

LEMMA CurrentOp ==
  ASSUME ServerInv, GraphType, NEW c \in Clients, Holds(c, "graph"),
         graph.at <= Len(Request(c).ops)
  PROVE  WellFormed(Op(c)) /\ graph.at \in 1 .. Len(Request(c).ops)
<1>1. Request(c).ops \in GraphsOf /\ Len(Request(c).ops) \in Nat
  BY HolderServes
<1>2. graph.at \in 1 .. Len(Request(c).ops)
  BY <1>1 DEF GraphType
<1>3. QED
  BY <1>1, <1>2, OpsType DEF Op

LEMMA MemStep ==
  ASSUME MemInv, [Next]_vars
  PROVE  MemInv'
<1>1. CASE UNCHANGED <<mem, before>>
  BY <1>1 DEF MemInv
<1>2. CASE Hardware
  BY <1>2 DEF MemInv, Hardware, LoadActs, StreamBlock, Stall, server
<1>3. ASSUME NEW c \in Clients, Serve(c) PROVE MemInv'
  <2>1. CASE Recv(c) \/ Acquire(c)
    BY <2>1 DEF MemInv, Recv, Acquire
  <2>2. CASE Upload(c) \/ Download(c) \/ Refuse(c)
    BY <2>2 DEF MemInv, Upload, Download, Refuse, Ok, Error, Respond, Put
  <2>3. CASE UnknownOp(c) \/ RefusedOp(c) \/ Barrier(c) \/ Finish(c)
    BY <2>3 DEF MemInv, UnknownOp, RefusedOp, Barrier, Finish, Ok, Error, Respond, server
  <2>4. CASE PsRead(c) \/ PsWrite(c)
    BY <2>4 DEF MemInv, PsRead, PsWrite, Put, server
  <2>5. CASE Issue(c) \/ StartChunk(c)
    BY <2>5 DEF MemInv, Issue, StartChunk, PackActs, server
  <2>6. CASE WaitChunk(c)
    BY <2>6 DEF MemInv, WaitChunk, CopyBack, Error, Respond, server
  <2>7. QED
    BY <1>3, <2>1, <2>2, <2>3, <2>4, <2>5, <2>6 DEF Serve
<1>4. QED
  BY <1>1, <1>2, <1>3 DEF Next, vars, server

LEMMA InsideStart ==
  ASSUME GraphType, NEW op, WellFormed(op), op.kind = "mm", graph.rb = 0, graph.col = 0
  PROVE  Inside(op)
<1>1. MmShape(op)
  BY DEF WellFormed, Works
<1>2. Rowblocks(op.rows) \in Nat \ {0} /\ op.cols \in Nat \ {0}
  BY <1>1, RowblocksBounds DEF MmShape
<1>3. QED
  BY <1>2 DEF Inside

\* A matmul about to start, or waited for, is inside run's loops.
LEMMA MmInside ==
  ASSUME TypeInv, NEW c \in Clients, Holds(c, "graph"), graph.at <= Len(Request(c).ops),
         Op(c).kind = "mm"
  PROVE  /\ WellFormed(Op(c)) /\ Inside(Op(c))
         /\ Pipelined(Op(c)) => graph.rb = 0 /\ graph.col = 0
<1>1. WellFormed(Op(c)) /\ lock = c /\ Serving
  BY CurrentOp, HolderServes DEF TypeInv, Types
<1>2. \/ graph.rb = 0 /\ graph.col = 0
      \/ Chunked(Op(c)) /\ graph.rb < Rowblocks(Op(c).rows) /\ graph.col < Op(c).cols
  BY <1>1 DEF TypeInv, PositionInv
<1>3. QED
  BY <1>1, <1>2, InsideStart DEF Inside, Chunked, TypeInv, Types

LEMMA NoChunkType == /\ NoChunk.state = "idle" /\ NoChunk.to = <<>> /\ NoChunk.w = <<>>
                     /\ \A s \in {"idle", "stalled"} :
                          [NoChunk EXCEPT !.state = s] \in
                            [state : {"idle", "load", "stream", "stalled"}, acts : {NoChunk.acts},
                             w : Seq(TensorCells), to : Seq(Cells), done : Nat]
<1>1. <<>> \in Seq(TensorCells) /\ <<>> \in Seq(Cells)
  OBVIOUS
<1>2. QED
  BY <1>1 DEF NoChunk

LEMMA HardwareHw ==
  ASSUME HwInv, Hardware
  PROVE  HwInv'
<1>. DEFINE HwSet(a) == [state : {"idle", "load", "stream", "stalled"}, acts : {a},
                         w : Seq(TensorCells), to : Seq(Cells), done : Nat]
<1>1. CASE LoadActs
  BY <1>1 DEF LoadActs, HwInv
<1>2. CASE hw' = [NoChunk EXCEPT !.state = "stalled"] \/ hw' = NoChunk
  <2>1. NoChunk = [NoChunk EXCEPT !.state = "idle"]
    BY DEF NoChunk
  <2>2. PICK s \in {"idle", "stalled"} : hw' = [NoChunk EXCEPT !.state = s]
    BY <1>2, <2>1
  <2>3. hw'.acts = NoChunk.acts /\ hw'.to = <<>> /\ hw'.w = <<>>
    BY <2>2 DEF NoChunk
  <2>4. hw' \in HwSet(hw'.acts)
    BY <2>2, <2>3, NoChunkType
  <2>5. Len(hw'.to) = 0 /\ Len(hw'.w) = 0 /\ 0 * ROWS_PER_BLOCK = 0
    BY <2>3, RowsAssumption
  <2>6. QED
    BY <2>4, <2>5 DEF HwInv
<1>3. CASE hw' = [hw EXCEPT !.done = @ + 1]
  BY <1>3 DEF HwInv
<1>4. QED
  BY <1>1, <1>2, <1>3 DEF Hardware, StreamBlock, Stall

LEMMA HwStep ==
  ASSUME TypeInv, [Next]_vars
  PROVE  HwInv'
<1>. USE DEF TypeInv, Types
<1>1. CASE UNCHANGED hw
  BY <1>1 DEF HwInv
<1>2. ASSUME NEW c \in Clients, Issue(c) \/ StartChunk(c) PROVE HwInv'
  <2>1. Holds(c, "graph") /\ graph.at <= Len(Request(c).ops) /\ Op(c).kind = "mm" /\ Start(Op(c))
    BY <1>2 DEF Issue, StartChunk, Ready, AtOp, InGraph
  <2>2. WellFormed(Op(c)) /\ Inside(Op(c))
    BY <2>1, MmInside
  <2>3. QED
    BY <2>1, <2>2, StartType
<1>3. ASSUME NEW c \in Clients, Serve(c), ~Issue(c), ~StartChunk(c) PROVE UNCHANGED hw
  BY <1>3 DEF Serve, Recv, Acquire, Upload, Download, Refuse, UnknownOp, RefusedOp, Barrier,
              PsRead, PsWrite, WaitChunk, Finish, Error
<1>4. QED
  BY <1>1, <1>2, <1>3, HardwareHw DEF Next, vars

\* The next chunk of a matmul is one inside run's loops, or the op is over.
LEMMA NextChunkInside ==
  ASSUME GraphType, NEW op, WellFormed(op), op.kind = "mm", Inside(op), graph' = NextChunk(op)
  PROVE  /\ GraphType' /\ graph'.step = "op" /\ graph'.in_flight = graph.in_flight
         /\ \/ graph'.at = graph.at /\ graph'.rb < Rowblocks(op.rows) /\ graph'.col < op.cols
            \/ graph'.at = graph.at + 1 /\ graph'.rb = 0 /\ graph'.col = 0
<1>. DEFINE n == ChunkBlocks(op)
            B == Rowblocks(op.rows)
<1>1. MmShape(op) /\ Works(op) /\ op.src[1] \in Tensors(op)
  BY DEF WellFormed, Works, MmShape, Tensors, Range
<1>2. op.src[1].lo \in Nat
  BY <1>1, TensorType
<1>3. n \in Nat /\ B \in Nat \ {0} /\ graph.col < op.cols
  BY <1>1, <1>2, ChunkBounds, ChunkAssumption, RowblocksBounds DEF MmShape, Inside
<1>4. \/ graph' = [graph EXCEPT !.step = "op", !.rb = @ + n] /\ graph.rb + n < B
      \/ graph' = [graph EXCEPT !.step = "op", !.rb = 0, !.col = @ + 1] /\ graph.col + 1 < op.cols
      \/ graph' = [graph EXCEPT !.step = "op", !.rb = 0, !.col = 0, !.at = @ + 1]
  BY DEF NextChunk
<1>. HIDE DEF n, B
<1>5. CASE graph' = [graph EXCEPT !.step = "op", !.rb = @ + n] /\ graph.rb + n < B
  <2>1. GraphType' /\ graph'.step = "op" /\ graph'.at = graph.at /\ graph'.rb < B
        /\ graph'.col = graph.col /\ graph'.in_flight = graph.in_flight
    BY <1>3, <1>5 DEF GraphType
  <2>2. QED
    BY <1>3, <2>1 DEF B
<1>6. CASE graph' = [graph EXCEPT !.step = "op", !.rb = 0, !.col = @ + 1] /\ graph.col + 1 < op.cols
  <2>1. GraphType' /\ graph'.step = "op" /\ graph'.at = graph.at /\ graph'.rb = 0
        /\ graph'.col = graph.col + 1 /\ graph'.in_flight = graph.in_flight
    BY <1>3, <1>6 DEF GraphType
  <2>2. 0 < B
    BY <1>3
  <2>3. QED
    BY <1>6, <2>1, <2>2 DEF B
<1>7. CASE graph' = [graph EXCEPT !.step = "op", !.rb = 0, !.col = 0, !.at = @ + 1]
  BY <1>7 DEF GraphType
<1>8. QED
  BY <1>4, <1>5, <1>6, <1>7

LEMMA WaitedOp ==
  ASSUME TypeInv, NEW c \in Clients, WaitChunk(c)
  PROVE  /\ lock = c /\ Serving /\ graph.at <= Len(Request(c).ops)
         /\ Chunked(Op(c)) /\ WellFormed(Op(c)) /\ Inside(Op(c))
<1>1. Holds(c, "graph") /\ graph.step = "wait"
  BY DEF WaitChunk, InGraph
<1>2. lock = c /\ Serving
  BY <1>1, HolderServes DEF TypeInv, Types
<1>3. graph.at <= Len(Request(c).ops) /\ Chunked(Op(c))
  BY <1>1, <1>2 DEF TypeInv, PositionInv
<1>4. QED
  BY <1>1, <1>2, <1>3, MmInside DEF Chunked

\* What each step of a thread does to run_graph's locals.
LEMMA ServeGraph ==
  ASSUME NEW c \in Clients, Serve(c)
  PROVE  \/ UNCHANGED graph
         \/ Acquire(c) /\ graph' = NewGraph
         \/ Barrier(c) /\ graph' = [graph EXCEPT !.in_flight = NoTensor]
         \/ PsRead(c) /\ graph' = [graph EXCEPT !.step = "ps", !.vals = Inputs(mem, Op(c))]
         \/ PsWrite(c) /\ graph' = [graph EXCEPT !.step = "op", !.vals = <<>>, !.at = @ + 1]
         \/ Issue(c) /\ graph' = [graph EXCEPT !.at = @ + 1, !.in_flight = Op(c).dst]
         \/ StartChunk(c) /\ graph' = [graph EXCEPT !.step = "wait"]
         \/ WaitChunk(c) /\ graph' = NextChunk(Op(c))
<1>1. Acquire(c) => graph' = NewGraph
  BY DEF Acquire
<1>2. Barrier(c) => UNCHANGED graph \/ graph' = [graph EXCEPT !.in_flight = NoTensor]
  BY DEF Barrier, Error
<1>3. PsRead(c) => graph' = [graph EXCEPT !.step = "ps", !.vals = Inputs(mem, Op(c))]
  BY DEF PsRead
<1>4. PsWrite(c) => graph' = [graph EXCEPT !.step = "op", !.vals = <<>>, !.at = @ + 1]
  BY DEF PsWrite
<1>5. Issue(c) => graph' = [graph EXCEPT !.at = @ + 1, !.in_flight = Op(c).dst]
  BY DEF Issue
<1>6. StartChunk(c) => graph' = [graph EXCEPT !.step = "wait"]
  BY DEF StartChunk
<1>7. WaitChunk(c) => UNCHANGED graph \/ graph' = NextChunk(Op(c))
  BY DEF WaitChunk, Error
<1>8. (Recv(c) \/ Upload(c) \/ Download(c) \/ Refuse(c) \/ UnknownOp(c) \/ RefusedOp(c) \/ Finish(c))
        => UNCHANGED graph
  BY DEF Recv, Upload, Download, Refuse, UnknownOp, RefusedOp, Finish, Error
<1>9. QED
  BY <1>1, <1>2, <1>3, <1>4, <1>5, <1>6, <1>7, <1>8, Zenon DEF Serve

LEMMA GraphStep ==
  ASSUME TypeInv, [Next]_vars
  PROVE  GraphType'
<1>0. GraphType
  BY DEF TypeInv, Types
<1>1. CASE UNCHANGED graph
  BY <1>0, <1>1 DEF GraphType
<1>2. ASSUME graph' = NewGraph PROVE GraphType'
  BY <1>2 DEF GraphType, NewGraph
<1>3. ASSUME graph' = [graph EXCEPT !.in_flight = NoTensor] PROVE GraphType'
  BY ONLY <1>0, <1>3 DEF GraphType
<1>4. ASSUME NEW c, graph' = [graph EXCEPT !.step = "ps", !.vals = Inputs(mem, Op(c))] PROVE GraphType'
  BY ONLY <1>0, <1>4 DEF GraphType
<1>5. ASSUME graph' = [graph EXCEPT !.step = "op", !.vals = <<>>, !.at = @ + 1] PROVE GraphType'
  BY ONLY <1>0, <1>5 DEF GraphType
<1>6. ASSUME NEW c, graph' = [graph EXCEPT !.at = @ + 1, !.in_flight = Op(c).dst] PROVE GraphType'
  BY ONLY <1>0, <1>6 DEF GraphType
<1>7. ASSUME graph' = [graph EXCEPT !.step = "wait"] PROVE GraphType'
  BY ONLY <1>0, <1>7 DEF GraphType
<1>8. ASSUME NEW c \in Clients, WaitChunk(c), graph' = NextChunk(Op(c)) PROVE GraphType'
  BY <1>0, <1>8, WaitedOp, NextChunkInside DEF Chunked
<1>9. ASSUME NEW c \in Clients, Serve(c) PROVE GraphType'
  BY <1>1, <1>2, <1>3, <1>4, <1>5, <1>6, <1>7, <1>8, <1>9, ServeGraph, Zenon
<1>10. Hardware => UNCHANGED graph
  BY DEF Hardware, LoadActs, StreamBlock, Stall
<1>11. QED
  BY <1>1, <1>9, <1>10 DEF Next, vars

\* A step of run_graph goes on with the same request.
LEMMA SameRequest ==
  ASSUME UNCHANGED <<lock, script>>
  PROVE  /\ Serving' <=> Serving
         /\ Request(lock)' = Request(lock) /\ lock' = lock
         /\ graph'.at = graph.at => Op(lock)' = Op(lock)
BY DEF Serving, Request, Op

LEMMA PositionStep ==
  ASSUME TypeInv, [Next]_vars
  PROVE  PositionInv'
<1>. DEFINE ops == Request(lock).ops
            n   == Len(ops)
<1>0. ServerInv /\ GraphType /\ PositionInv
  BY DEF TypeInv, Types
<1>1. CASE UNCHANGED <<lock, script, graph>>
  BY <1>0, <1>1, SameRequest DEF PositionInv
<1>2. CASE lock' = NoClient
  BY <1>2, ScriptAssumption DEF PositionInv, Serving
<1>3. ASSUME NEW c \in Clients, Acquire(c) PROVE PositionInv'
  <2>1. graph' = NewGraph
    BY <1>3 DEF Acquire
  <2>2. graph'.at = 1 /\ graph'.step = "op" /\ graph'.rb = 0 /\ graph'.col = 0
    BY <2>1 DEF NewGraph
  <2>3. Serving' => Request(lock)'.ops \in GraphsOf
    <3>1. thread[c] # "idle" /\ lock' = c /\ script' = script
      BY <1>3 DEF Acquire
    <3>2. Request(lock)' = Request(c)
      BY <3>1 DEF Request
    <3>3. QED
      BY <1>0, <3>1, <3>2, RequestType DEF Serving
  <2>4. Serving' => Len(Request(lock)'.ops) \in Nat
    BY <2>3, OpsType
  <2>5. QED
    BY <2>2, <2>4 DEF PositionInv
<1>4. ASSUME NEW c \in Clients, Holds(c, "graph"), UNCHANGED server, Serve(c)
      PROVE  PositionInv'
  <2>0. UNCHANGED <<lock, script>> /\ thread[c] = "holding"
    BY <1>4 DEF server, Holds
  <2>1. /\ Serving' /\ Serving /\ lock = c /\ Request(lock)'.ops = ops /\ n \in Nat
        /\ Request(lock)' = Request(lock)
    BY <1>0, <1>4, <2>0, SameRequest, HolderServes
  <2>2. /\ graph.at \in Nat \ {0} /\ graph.at <= n + 1
        /\ graph.step = "op" \/ graph.at <= n
        /\ Op(lock) = ops[graph.at]
        /\ Op(lock)' = ops[graph'.at]
    BY <1>0, <2>1 DEF PositionInv, GraphType, Op
  <2>3. CASE Barrier(c) /\ graph' = [graph EXCEPT !.in_flight = NoTensor]
    <3>1. /\ graph'.at = graph.at /\ graph'.step = graph.step
          /\ graph'.rb = graph.rb /\ graph'.col = graph.col
      BY <1>0, <2>3 DEF GraphType
    <3>2. QED
      BY <1>0, <2>0, <2>1, <3>1, SameRequest DEF PositionInv
  <2>4. CASE PsRead(c) /\ graph' = [graph EXCEPT !.step = "ps", !.vals = Inputs(mem, Op(c))]
    <3>1. /\ graph'.at = graph.at /\ graph'.step = "ps"
          /\ graph'.rb = graph.rb /\ graph'.col = graph.col
      BY <1>0, <2>4 DEF GraphType
    <3>2. Op(c).kind = "ps" /\ graph.at <= n
      BY <2>1, <2>4 DEF PsRead, Ready, AtOp
    <3>3. QED
      BY <1>0, <2>0, <2>1, <3>1, <3>2, SameRequest DEF PositionInv
  <2>5. CASE PsWrite(c) /\ graph' = [graph EXCEPT !.step = "op", !.vals = <<>>, !.at = @ + 1]
    <3>1. /\ graph'.at = graph.at + 1 /\ graph'.step = "op"
          /\ graph'.rb = graph.rb /\ graph'.col = graph.col
      BY <1>0, <2>5 DEF GraphType
    <3>2. Op(lock).kind = "ps" /\ graph.at <= n
      BY <1>0, <2>1, <2>5 DEF PositionInv, PsWrite, InGraph
    <3>3. graph.rb = 0 /\ graph.col = 0
      BY <1>0, <2>1, <3>2 DEF PositionInv, Chunked
    <3>4. QED
      BY <2>1, <2>2, <3>1, <3>2, <3>3 DEF PositionInv
  <2>6. CASE Issue(c) /\ graph' = [graph EXCEPT !.at = @ + 1, !.in_flight = Op(c).dst]
    <3>1. /\ graph'.at = graph.at + 1 /\ graph'.step = graph.step
          /\ graph'.rb = graph.rb /\ graph'.col = graph.col
      BY <1>0, <2>6 DEF GraphType
    <3>2. Pipelined(Op(lock)) /\ graph.step = "op" /\ graph.at <= n
      BY <2>1, <2>6 DEF Issue, Ready, AtOp, InGraph
    <3>3. graph.rb = 0 /\ graph.col = 0
      BY <1>0, <2>1, <3>2 DEF PositionInv, Chunked
    <3>4. QED
      BY <2>1, <2>2, <3>1, <3>2, <3>3 DEF PositionInv
  <2>7. CASE StartChunk(c) /\ graph' = [graph EXCEPT !.step = "wait"]
    <3>1. /\ graph'.at = graph.at /\ graph'.step = "wait"
          /\ graph'.rb = graph.rb /\ graph'.col = graph.col
      BY <1>0, <2>7 DEF GraphType
    <3>2. Chunked(Op(lock)) /\ graph.at <= n
      BY <2>1, <2>7 DEF StartChunk, Ready, AtOp, Chunked
    <3>3. QED
      BY <1>0, <2>0, <2>1, <3>1, <3>2, SameRequest DEF PositionInv, Chunked
  <2>8. CASE WaitChunk(c) /\ graph' = NextChunk(Op(c))
    <3>1. graph.at <= n /\ Chunked(Op(lock)) /\ WellFormed(Op(lock)) /\ Inside(Op(lock))
      BY <2>1, <2>8, WaitedOp
    <3>2. /\ graph'.step = "op"
          /\ \/ /\ graph'.at = graph.at
                /\ graph'.rb < Rowblocks(Op(lock).rows) /\ graph'.col < Op(lock).cols
             \/ graph'.at = graph.at + 1 /\ graph'.rb = 0 /\ graph'.col = 0
      BY <1>0, <2>1, <2>8, <3>1, NextChunkInside DEF Chunked
    <3>3. CASE graph'.at = graph.at
      BY <2>0, <2>1, <2>2, <3>1, <3>2, <3>3, SameRequest DEF PositionInv, Chunked
    <3>4. CASE graph'.at = graph.at + 1
      BY <2>1, <2>2, <3>1, <3>2, <3>4 DEF PositionInv
    <3>5. QED
      BY <3>2, <3>3, <3>4
  <2>9. ~Acquire(c)
    BY <2>0 DEF Acquire
  <2>10. UNCHANGED <<server, graph>> => PositionInv'
    BY <1>1 DEF server
  <2>11. Serve(c) => \/ UNCHANGED graph
                     \/ Barrier(c) /\ graph' = [graph EXCEPT !.in_flight = NoTensor]
                     \/ PsRead(c) /\ graph' = [graph EXCEPT !.step = "ps", !.vals = Inputs(mem, Op(c))]
                     \/ PsWrite(c) /\ graph' = [graph EXCEPT !.step = "op", !.vals = <<>>, !.at = @ + 1]
                     \/ Issue(c) /\ graph' = [graph EXCEPT !.at = @ + 1, !.in_flight = Op(c).dst]
                     \/ StartChunk(c) /\ graph' = [graph EXCEPT !.step = "wait"]
                     \/ WaitChunk(c) /\ graph' = NextChunk(Op(c))
    BY <2>9, ServeGraph, Zenon
  <2>12. QED
    BY <1>4, <2>3, <2>4, <2>5, <2>6, <2>7, <2>8, <2>10, <2>11, Zenon
<1>5. ASSUME NEW c \in Clients, Serve(c) PROVE PositionInv'
  <2>1. CASE Recv(c)
    BY <1>1, <2>1 DEF Recv
  <2>2. ASSUME NEW answer, Ending(c, answer) PROVE PositionInv'
    BY <1>2, <2>2 DEF Ending, Respond
  <2>3. QED
    BY <1>3, <1>4, <1>5, <2>1, <2>2, ServeCases
<1>6. Hardware => UNCHANGED <<lock, script, graph>>
  BY DEF Hardware, LoadActs, StreamBlock, Stall, server
<1>7. QED
  BY <1>1, <1>5, <1>6 DEF Next, vars, server

LEMMA InitTypeInv ==
  ASSUME Init
  PROVE  TypeInv
<1>1. ServerInv
  BY ScriptAssumption DEF Init, ServerInv
<1>2. MemInv
  BY DEF Init, MemInv, Cells
<1>3. GraphType
  BY DEF Init, GraphType, NewGraph
<1>4. HwInv
  <2>1. hw = [NoChunk EXCEPT !.state = "idle"] /\ hw.acts = NoChunk.acts
    BY DEF Init, NoChunk
  <2>2. hw.to = <<>> /\ hw.w = <<>>
    BY <2>1, NoChunkType DEF Init
  <2>3. Len(hw.to) = 0 /\ Len(hw.w) = 0 /\ 0 * ROWS_PER_BLOCK = 0
    BY <2>2, RowsAssumption
  <2>4. QED
    BY <2>1, <2>3, NoChunkType DEF HwInv
<1>5. ~Serving
  BY ScriptAssumption DEF Init, Serving
<1>6. QED
  BY <1>1, <1>2, <1>3, <1>4, <1>5 DEF TypeInv, Types, PositionInv

LEMMA TypeInvStep ==
  ASSUME TypeInv, [Next]_vars
  PROVE  TypeInv'
<1>1. ServerInv'
  BY ServerStep DEF TypeInv, Types
<1>2. MemInv'
  BY MemStep DEF TypeInv, Types
<1>3. QED
  BY <1>1, <1>2, GraphStep, HwStep, PositionStep DEF TypeInv, Types

LEMMA TypeInvImplies ==
  ASSUME TypeInv
  PROVE  TypeOK
<1>1. Range(hw.to) \subseteq Cells /\ Range(hw.w) \subseteq TensorCells
  BY DEF TypeInv, Types, HwInv, Range
<1>2. /\ hw.state \in {"idle", "load", "stream", "stalled"}
      /\ Len(hw.to) = Len(hw.w) * ROWS_PER_BLOCK
  BY DEF TypeInv, Types, HwInv
<1>3. QED
  BY <1>1, <1>2 DEF TypeInv, Types, ServerInv, MemInv, GraphType, TypeOK, Cells

LEMMA SpecTypeInv == Spec => []TypeInv
<1>1. Init => TypeInv
  BY InitTypeInv
<1>2. TypeInv /\ [Next]_vars => TypeInv'
  BY TypeInvStep
<1>3. QED
  BY <1>1, <1>2, PTL DEF Spec

\* One thread at most is inside dispatch, and whatever shape a matmul has, the
\* engines are given cells of allocated tensors or of the driver's own buffers.
THEOREM TypeCorrect == Spec => []TypeOK
<1>1. TypeInv => TypeOK
  BY TypeInvImplies
<1>2. QED
  BY <1>1, SpecTypeInv, PTL
-----------------------------------------------------------------------------
(* Nothing meets the matmul in flight. *)

\* A tensor that lies inside d, with a cell in common, starts inside it: the
\* one thing OpTouches looks at.
LEMMA InsideTouches ==
  ASSUME NEW op, NEW t \in Tensors(op), NEW d, d.lo \in Nat, d.n \in Nat,
         t.lo \in Nat, t.n \in Nat, Overlap(t, d), CellsOf(t) \subseteq CellsOf(d)
  PROVE  OpTouches(op, d)
<1>1. PICK i \in 0 .. t.n - 1 : TRUE
  BY DEF Overlap, CellsOf
<1>2. 0 \in 0 .. t.n - 1
  BY <1>1
<1>3. CellAt(t, 0) \in CellsOf(d)
  BY <1>2 DEF CellsOf
<1>4. PICK j \in 0 .. d.n - 1 : CellAt(t, 0) = CellAt(d, j)
  BY <1>3 DEF CellsOf
<1>5. t.h = d.h /\ t.lo + 0 = d.lo + j
  BY <1>4 DEF CellAt
<1>6. QED
  BY <1>5 DEF OpTouches

\* The arena guarantee and run_graph's test together: a glue op that does not
\* touch the first offsets of the result in flight does not meet it at all.
LEMMA UntouchedIsApart ==
  ASSUME NEW ops \in GraphsOf, NEW j \in 1 .. Len(ops), NEW i \in 1 .. j - 1,
         ops[i].kind = "mm", ops[j].kind = "ps", ~OpTouches(ops[j], ops[i].dst),
         \A k \in i + 1 .. j - 1 : Apart(ops[k], ops[i].dst)
  PROVE  Apart(ops[j], ops[i].dst)
<1>. DEFINE d == ops[i].dst
            inside(t) == CellsOf(t) \subseteq CellsOf(d)
<1>1. /\ Len(ops) \in Nat /\ DOMAIN ops = 1 .. Len(ops)
      /\ \A k \in 1 .. Len(ops) : WellFormed(ops[k])
  BY OpsType
<1>2. i \in DOMAIN ops /\ j \in i + 1 .. Len(ops) /\ Works(ops[i]) /\ Works(ops[j])
  BY <1>1 DEF Works
<1>3. d.lo \in Nat /\ d.n \in Nat
  <2>1. d \in Tensors(ops[i]) /\ WellFormed(ops[i])
    BY <1>1, <1>2 DEF Tensors
  <2>2. QED
    BY <1>2, <2>1, TensorType
<1>4. ASSUME NEW t \in Tensors(ops[j]), Overlap(t, d), inside(t) PROVE FALSE
  <2>1. t.lo \in Nat /\ t.n \in Nat
    BY <1>1, <1>2, TensorType
  <2>2. QED
    BY <1>3, <1>4, <2>1, InsideTouches
<1>5. \A k \in i + 1 .. j - 1 : Works(ops[k]) => ~Overlap(ops[k].dst, d)
  BY DEF Apart, Tensors
<1>6. /\ \A t \in Range(ops[j].src) : Overlap(t, d) => inside(t)
      /\ Overlap(ops[j].dst, d) =>
           \/ inside(ops[j].dst)
           \/ \E k \in i + 1 .. j : Works(ops[k]) /\ \E t \in Range(ops[k].src) : Overlap(t, d)
  <2>1. ArenaSafe(ops)
    BY ArenaAssumption
  <2>2. QED
    BY <1>2, <1>5, <2>1, Zenon DEF ArenaSafe
<1>7. \A t \in Range(ops[j].src) : ~Overlap(t, d)
  BY <1>4, <1>6 DEF Tensors
<1>8. ~\E k \in i + 1 .. j : Works(ops[k]) /\ \E t \in Range(ops[k].src) : Overlap(t, d)
  <2>1. SUFFICES ASSUME NEW k \in i + 1 .. j, NEW t \in Range(ops[k].src), Overlap(t, d)
                 PROVE  FALSE
    OBVIOUS
  <2>2. k # j
    BY <1>7, <2>1
  <2>3. k \in i + 1 .. j - 1
    BY <1>1, <2>2
  <2>4. QED
    BY <2>1, <2>3 DEF Apart, Tensors
<1>9. ~Overlap(ops[j].dst, d)
  BY <1>4, <1>6, <1>8 DEF Tensors
<1>10. QED
  BY <1>7, <1>9 DEF Apart, Tensors

LEMMA FlightStep ==
  ASSUME TypeInv, FlightInv, [Next]_vars
  PROVE  FlightInv'
<1>0. ServerInv /\ GraphType /\ PositionInv
  BY DEF TypeInv, Types
<1>1. CASE UNCHANGED <<lock, script, graph>>
  BY <1>1, SameRequest DEF FlightInv, InFlight, Reached
<1>2. CASE lock' = NoClient
  BY <1>2, ScriptAssumption DEF FlightInv, Serving
<1>3. CASE graph'.in_flight = NoTensor
  BY <1>3 DEF FlightInv, InFlight
<1>4. ASSUME NEW c \in Clients, Holds(c, "graph"), UNCHANGED server, Serve(c)
      PROVE  FlightInv'
  <2>. DEFINE ops == Request(lock).ops
              d   == graph.in_flight
  <2>0. UNCHANGED <<lock, script>> /\ thread[c] = "holding"
    BY <1>4 DEF server, Holds
  <2>1. /\ Serving' /\ Serving /\ lock = c /\ Request(lock)'.ops = ops
        /\ ops \in GraphsOf /\ Len(ops) \in Nat
    BY <1>0, <1>4, <2>0, SameRequest, HolderServes
  <2>2. graph.at \in Nat \ {0}
    BY <1>0 DEF GraphType
  <2>3. InFlight => \E i \in 1 .. graph.at - 1 : Flying(ops, i, Reached, d)
    BY <2>1 DEF FlightInv
  <2>4. SUFFICES ASSUME InFlight'
                 PROVE  /\ graph'.step # "wait"
                        /\ \E i \in 1 .. graph'.at - 1 : Flying(ops, i, Reached', graph'.in_flight)
    BY <2>1 DEF FlightInv
  <2>5. CASE Barrier(c) /\ graph' = [graph EXCEPT !.in_flight = NoTensor]
    BY <1>0, <2>4, <2>5 DEF GraphType, InFlight
  <2>6. CASE PsRead(c) /\ graph' = [graph EXCEPT !.step = "ps", !.vals = Inputs(mem, Op(c))]
    <3>1. /\ graph'.at = graph.at /\ graph'.step = "ps" /\ graph'.in_flight = d
      BY <1>0, <2>6 DEF GraphType
    <3>2. /\ graph.step = "op" /\ graph.at <= Len(ops) /\ ops[graph.at].kind = "ps"
          /\ ~MustWait(ops[graph.at])
      BY <2>1, <2>6 DEF PsRead, Ready, AtOp, InGraph, Op
    <3>3. InFlight /\ ~OpTouches(ops[graph.at], d)
      BY <2>4, <3>1, <3>2 DEF InFlight, MustWait
    <3>4. PICK i \in 1 .. graph.at - 1 : Flying(ops, i, graph.at - 1, d)
      BY <2>3, <3>2, <3>3 DEF Reached
    <3>5. graph.at \in 1 .. Len(ops)
      BY <2>1, <2>2, <3>2
    <3>6. Apart(ops[graph.at], d)
      BY <2>1, <3>2, <3>3, <3>4, <3>5, UntouchedIsApart DEF Flying
    <3>7. ASSUME NEW k \in i + 1 .. graph.at PROVE Apart(ops[k], d)
      <4>1. k = graph.at \/ k \in i + 1 .. graph.at - 1
        BY <2>2
      <4>2. QED
        BY <3>4, <3>6, <4>1 DEF Flying
    <3>8. Flying(ops, i, graph.at, d)
      BY <3>4, <3>7 DEF Flying
    <3>9. QED
      BY <3>1, <3>8 DEF Reached
  <2>7. CASE PsWrite(c) /\ graph' = [graph EXCEPT !.step = "op", !.vals = <<>>, !.at = @ + 1]
    <3>1. graph'.at = graph.at + 1 /\ graph'.step = "op" /\ graph'.in_flight = d
      BY <1>0, <2>7 DEF GraphType
    <3>2. graph.step = "ps" /\ InFlight
      BY <2>4, <2>7, <3>1 DEF PsWrite, InGraph, InFlight
    <3>3. PICK i \in 1 .. graph.at - 1 : Flying(ops, i, graph.at, d)
      BY <2>3, <3>2 DEF Reached
    <3>4. Reached' = graph.at
      BY <2>2, <3>1 DEF Reached
    <3>5. i \in 1 .. graph'.at - 1
      BY <2>2, <3>1
    <3>6. QED
      BY <3>1, <3>3, <3>4, <3>5
  <2>8. CASE Issue(c) /\ graph' = [graph EXCEPT !.at = @ + 1, !.in_flight = Op(c).dst]
    <3>1. graph'.at = graph.at + 1 /\ graph'.step = graph.step /\ graph'.in_flight = ops[graph.at].dst
      BY <1>0, <2>1, <2>8 DEF GraphType, Op
    <3>2. graph.step = "op" /\ ops[graph.at].kind = "mm" /\ Pipelined(ops[graph.at])
      BY <2>1, <2>8 DEF Issue, Ready, AtOp, InGraph, Op
    <3>3. Reached' = graph.at
      BY <2>2, <3>1, <3>2 DEF Reached
    <3>4. Flying(ops, graph.at, graph.at, ops[graph.at].dst)
      BY <2>2, <3>2 DEF Flying
    <3>5. graph.at \in 1 .. graph'.at - 1
      BY <2>2, <3>1
    <3>6. QED
      BY <3>1, <3>2, <3>3, <3>4, <3>5
  <2>9. CASE StartChunk(c) /\ graph' = [graph EXCEPT !.step = "wait"]
    <3>1. graph'.in_flight = d
      BY <1>0, <2>9 DEF GraphType
    <3>2. ~InFlight
      BY <2>9 DEF StartChunk, Ready, MustWait
    <3>3. QED
      BY <2>4, <3>1, <3>2 DEF InFlight
  <2>10. CASE WaitChunk(c) /\ graph' = NextChunk(Op(c))
    <3>1. graph'.in_flight = d
      BY <1>0, <2>10, WaitedOp, NextChunkInside DEF Chunked
    <3>2. graph.step = "wait"
      BY <2>10 DEF WaitChunk, InGraph
    <3>3. ~InFlight
      BY <2>1, <3>2 DEF FlightInv
    <3>4. QED
      BY <2>4, <3>1, <3>3 DEF InFlight
  <2>11. CASE UNCHANGED graph
    BY <2>1, <2>3, <2>4, <2>11 DEF FlightInv, InFlight, Reached
  <2>12. ~Acquire(c)
    BY <2>0 DEF Acquire
  <2>13. QED
    BY <1>4, <2>5, <2>6, <2>7, <2>8, <2>9, <2>10, <2>11, <2>12, ServeGraph, Zenon
<1>5. ASSUME NEW c \in Clients, Serve(c) PROVE FlightInv'
  <2>1. CASE Recv(c)
    BY <1>1, <2>1 DEF Recv
  <2>2. ASSUME NEW answer, Ending(c, answer) PROVE FlightInv'
    BY <1>2, <2>2 DEF Ending, Respond
  <2>3. CASE Acquire(c)
    BY <1>3, <2>3 DEF Acquire, NewGraph
  <2>4. QED
    BY <1>4, <1>5, <2>1, <2>2, <2>3, ServeCases
<1>6. Hardware => UNCHANGED <<lock, script, graph>>
  BY DEF Hardware, LoadActs, StreamBlock, Stall, server
<1>7. QED
  BY <1>1, <1>5, <1>6 DEF Next, vars, server
-----------------------------------------------------------------------------
(* The PL runs only where a wait will come. *)

\* Whole rowblocks have no padding rows.
LEMMA WholeRowblocks ==
  ASSUME NEW n \in Nat, n % ROWS_PER_BLOCK = 0
  PROVE  Rowblocks(n) * ROWS_PER_BLOCK = n
<1>. DEFINE R == ROWS_PER_BLOCK
            q == n \div R
            b == (n + R - 1) \div R
<1>1. R \in Nat \ {0}
  BY RowsAssumption
<1>. HIDE DEF R
<1>2. q \in Nat /\ n = q * R
  <2>1. n = q * R + (n % R) /\ q \in Nat
    BY <1>1
  <2>2. n % R = 0
    BY DEF R
  <2>3. QED
    BY <1>1, <2>1, <2>2
<1>3. b \in Nat /\ b * R <= n + R - 1 /\ n + R - 1 < (b + 1) * R
  BY <1>1
<1>. HIDE DEF q, b
<1>4. b * R <= q * R + R - 1 /\ q * R + R - 1 < (b + 1) * R
  BY <1>2, <1>3
<1>5. \A x, y, z \in Nat : x < y => x * z + z <= y * z
  <2>1. SUFFICES ASSUME NEW x \in Nat, NEW y \in Nat, NEW z \in Nat, x < y
                 PROVE  x * z + z <= y * z
    OBVIOUS
  <2>2. \A u, v \in Nat : u <= v => u * z <= v * z
    OBVIOUS
  <2>3. (x + 1) * z <= y * z
    BY <2>1, <2>2
  <2>4. (x + 1) * z = x * z + z
    OBVIOUS
  <2>5. QED
    BY <2>3, <2>4
<1>6. b = q
  <2>. DEFINE bR == b * R
              qR == q * R
              cR == (b + 1) * R
  <2>1. bR \in Nat /\ qR \in Nat /\ cR = bR + R
    BY <1>1, <1>2, <1>3
  <2>2. bR <= qR + R - 1 /\ qR + R - 1 < cR
    BY <1>4
  <2>3. q < b => qR + R <= bR
    BY <1>1, <1>2, <1>3, <1>5
  <2>4. b < q => bR + R <= qR
    BY <1>1, <1>2, <1>3, <1>5
  <2>. HIDE DEF bR, qR, cR
  <2>5. QED
    BY <1>1, <1>2, <1>3, <2>1, <2>2, <2>3, <2>4
<1>7. QED
  BY <1>2, <1>6 DEF Rowblocks, b, R

\* A matmul that run_async pipelines is one chunk, straight into its result.
LEMMA PipelinedDirect ==
  ASSUME GraphType, NEW op, WellFormed(op), op.kind = "mm", Pipelined(op),
         graph.rb = 0, graph.col = 0
  PROVE  /\ ChunkBlocks(op) = Rowblocks(op.rows) /\ Rowblocks(op.rows) * ROWS_PER_BLOCK = op.rows
         /\ ResultCells(op) = [i \in 1 .. op.rows |-> CellAt(op.dst, 0 + i - 1)]
         /\ Range(ResultCells(op)) \subseteq CellsOf(op.dst)
<1>. DEFINE B == Rowblocks(op.rows)
            R == ROWS_PER_BLOCK
            m == ChunkBlocks(op) * R
<1>1. /\ MmShape(op) /\ op.src[1].lo \in Nat /\ op.dst.lo \in Nat
  <2>1. Works(op) /\ MmShape(op)
    BY DEF Works, WellFormed
  <2>2. op.src[1] \in Tensors(op) /\ op.dst \in Tensors(op)
    BY <2>1 DEF Tensors, Range, MmShape
  <2>3. QED
    BY <2>1, <2>2, TensorType
<1>2. /\ R \in Nat \ {0} /\ B \in Nat \ {0} /\ op.rows \in Nat \ {0} /\ op.dst.n \in Nat
      /\ B * R = op.rows
  BY <1>1, RowsAssumption, RowblocksBounds, WholeRowblocks DEF MmShape, Pipelined
<1>3. Inside(op)
  BY InsideStart
<1>4. ChunkBlocks(op) = B
  <2>1. op.src[1].lo + 0 = op.src[1].lo /\ B - 0 = B
    BY <1>1, <1>2
  <2>2. ChunkBlocks(op) = Smaller(Smaller(MAX_ROWBLOCKS, B), ExtentRemaining(op.src[1].lo))
    BY <2>1 DEF ChunkBlocks
  <2>3. B <= MAX_ROWBLOCKS /\ B <= ExtentRemaining(op.src[1].lo)
    BY DEF Pipelined, OneExtent
  <2>4. ExtentRemaining(op.src[1].lo) \in Int
    BY <1>1, ChunkAssumption DEF ExtentRemaining
  <2>. HIDE DEF B
  <2>5. QED
    BY <1>2, <2>2, <2>3, <2>4, ChunkAssumption DEF Smaller
<1>5. ChunkFirst(op) = 0 /\ m = op.rows
  BY <1>2, <1>4 DEF ChunkFirst
<1>6. ChunkRows(op) = op.rows
  <2>1. ChunkRows(op) = Smaller(m, op.rows - 0 * R)
    BY DEF ChunkRows
  <2>2. 0 * R = 0
    BY <1>2
  <2>. HIDE DEF m
  <2>3. QED
    BY <1>2, <1>5, <2>1, <2>2 DEF Smaller
<1>7. Direct(op)
  <2>1. op.dst.lo + 0 = op.dst.lo
    BY <1>1
  <2>2. QED
    BY <1>5, <1>6, <2>1 DEF Direct, Pipelined
<1>8. op.rows <= op.dst.n
  <2>1. ChunkFirst(op) + ChunkRows(op) <= op.dst.n
    BY <1>1, <1>3, ChunkBounds
  <2>2. QED
    BY <1>2, <1>5, <1>6, <2>1
<1>9. ResultCells(op) = [i \in 1 .. op.rows |-> CellAt(op.dst, 0 + i - 1)]
  BY <1>5, <1>7 DEF ResultCells
<1>10. ASSUME NEW i \in 1 .. op.rows PROVE CellAt(op.dst, 0 + i - 1) \in CellsOf(op.dst)
  <2>1. 0 + i - 1 \in 0 .. op.dst.n - 1
    BY <1>2, <1>8
  <2>2. QED
    BY <2>1 DEF CellsOf
<1>11. QED
  BY <1>2, <1>4, <1>9, <1>10 DEF Range

\* An op that raises meets no matmul in flight.
LEMMA RaisesDrained ==
  ASSUME NEW ops \in GraphsOf, Drained(ops), NEW j \in 1 .. Len(ops), NEW i \in 1 .. j - 1,
         NEW d, Flying(ops, i, j - 1, d), ~Works(ops[j])
  PROVE  ops[j].kind = "refused" /\ OpTouches(ops[j], d)
<1>1. Len(ops) \in Nat /\ DOMAIN ops = 1 .. Len(ops)
  BY OpsType
<1>2. j \in DOMAIN ops
  BY <1>1
<1>3. \/ \E k \in i + 1 .. j - 1 : ops[k].kind = "mm" \/ OpTouches(ops[k], d)
      \/ ops[j].kind = "refused" /\ OpTouches(ops[j], d)
  BY <1>2, Zenon DEF Drained, Flying
<1>4. \A k \in i + 1 .. j - 1 : ops[k].kind = "ps" /\ ~OpTouches(ops[k], d)
  BY Zenon DEF Flying, Apart
<1>5. "ps" # "mm"
  OBVIOUS
<1>6. QED
  BY <1>3, <1>4, <1>5, Zenon

AllDrained == \A ops \in GraphsOf : Drained(ops)

\* Where an exception leaves run_graph, nothing streams.
LEMMA RaiseStopped ==
  ASSUME ScheduleInv, AllDrained, NEW c \in Clients, UnknownOp(c) \/ RefusedOp(c)
  PROVE  ~Running
<1>. DEFINE ops == Request(c).ops
            d == graph.in_flight
<1>0. ServerInv /\ GraphType /\ FlightInv /\ RunInv
  BY DEF ScheduleInv, TypeInv, Types
<1>1. /\ Holds(c, "graph") /\ graph.step = "op" /\ graph.at <= Len(ops)
      /\ Op(c).kind = "unknown" \/ (Op(c).kind = "refused" /\ ~MustWait(Op(c)))
  BY DEF UnknownOp, RefusedOp, Ready, AtOp, InGraph
<1>2. lock = c /\ Serving /\ ops \in GraphsOf /\ Len(ops) \in Nat
  BY <1>0, <1>1, HolderServes
<1>3. SUFFICES ASSUME InFlight PROVE FALSE
  BY <1>0, <1>1 DEF RunInv
<1>4. graph.at \in 1 .. Len(ops)
  BY <1>0, <1>1, <1>2 DEF GraphType
<1>5. PICK i \in 1 .. graph.at - 1 : Flying(ops, i, graph.at - 1, d)
  BY <1>0, <1>1, <1>2, <1>3 DEF FlightInv, Reached
<1>6. ~Works(ops[graph.at])
  BY <1>1 DEF Op, Works
<1>7. ops[graph.at].kind = "refused" /\ OpTouches(ops[graph.at], d)
  BY <1>2, <1>4, <1>5, <1>6, RaisesDrained DEF AllDrained
<1>8. MustWait(Op(c))
  BY <1>3, <1>7 DEF MustWait, Op
<1>9. QED
  BY <1>1, <1>7, <1>8 DEF Op

\* A request ends only when nothing streams.
LEMMA EndStopped ==
  ASSUME ScheduleInv, AllDrained, NEW c \in Clients, Serve(c), lock' = NoClient
  PROVE  ~Running
<1>0. ServerInv /\ GraphType /\ FlightInv /\ RunInv
  BY DEF ScheduleInv, TypeInv, Types
<1>1. CASE Upload(c) \/ Download(c) \/ Refuse(c)
  <2>1. thread[c] = "holding" /\ Request(c).kind # "graph"
    BY <1>1 DEF Upload, Download, Refuse, Holds
  <2>2. QED
    BY <1>0, <2>1 DEF ServerInv, RunInv, Serving
<1>2. CASE UnknownOp(c) \/ RefusedOp(c)
  BY <1>2, RaiseStopped
<1>3. CASE Barrier(c) \/ WaitChunk(c)
  BY <1>3 DEF Barrier, WaitChunk
<1>4. CASE Finish(c)
  BY <1>0, <1>4 DEF Finish, AtEnd, InGraph, RunInv
<1>5. CASE Recv(c) \/ Acquire(c)
  <2>1. lock = NoClient
    BY <1>5, ScriptAssumption DEF Recv, Acquire
  <2>2. QED
    BY <1>0, <2>1, ScriptAssumption DEF RunInv, Serving
<1>6. CASE PsRead(c) \/ PsWrite(c) \/ Issue(c) \/ StartChunk(c)
  <2>1. Holds(c, "graph") /\ lock' = lock
    BY <1>6 DEF PsRead, PsWrite, Issue, StartChunk, Ready, AtOp, InGraph, server
  <2>2. QED
    BY <1>0, <2>1, HolderServes, ScriptAssumption
<1>7. QED
  BY <1>1, <1>2, <1>3, <1>4, <1>5, <1>6 DEF Serve

LEMMA RunStep ==
  ASSUME ScheduleInv, AllDrained, [Next]_vars
  PROVE  RunInv'
<1>0. TypeInv /\ ServerInv /\ GraphType /\ HwInv /\ PositionInv /\ FlightInv /\ RunInv
  BY DEF ScheduleInv, TypeInv, Types
<1>1. CASE UNCHANGED <<lock, script, graph, hw>>
  BY <1>0, <1>1, SameRequest DEF RunInv, Running, InFlight
<1>2. CASE ~Running'
  BY <1>2 DEF RunInv
<1>3. CASE Hardware
  <2>1. UNCHANGED <<lock, script, graph>>
    BY <1>3 DEF Hardware, LoadActs, StreamBlock, Stall, server
  <2>2. Running' => Running /\ hw'.to = hw.to
    <3>1. CASE LoadActs
      BY <1>0, <3>1 DEF LoadActs, HwInv, Running
    <3>2. CASE StreamBlock
      <4>1. hw.state = "stream" /\ (hw' = NoChunk \/ hw' = [hw EXCEPT !.done = @ + 1])
        BY <3>2 DEF StreamBlock
      <4>2. hw' = [hw EXCEPT !.done = @ + 1] => hw'.to = hw.to
        BY <1>0 DEF HwInv
      <4>3. QED
        BY <4>1, <4>2, NoChunkType DEF Running
    <3>3. CASE Stall
      <4>1. hw' = [NoChunk EXCEPT !.state = "stalled"]
        BY <3>3 DEF Stall
      <4>2. hw'.state = "stalled"
        BY <4>1 DEF NoChunk
      <4>3. QED
        BY <4>2 DEF Running
    <3>4. QED
      BY <1>3, <3>1, <3>2, <3>3 DEF Hardware
  <2>3. QED
    BY <1>0, <2>1, <2>2, SameRequest DEF RunInv, InFlight
<1>4. ASSUME NEW c \in Clients, Serve(c) PROVE RunInv'
  <2>1. CASE Recv(c)
    BY <1>1, <2>1 DEF Recv
  <2>2. CASE Acquire(c)
    <3>1. lock = NoClient /\ hw' = hw
      BY <2>2 DEF Acquire
    <3>2. ~Running
      BY <1>0, <3>1, ScriptAssumption DEF RunInv, Serving
    <3>3. QED
      BY <1>2, <3>1, <3>2 DEF Running
  <2>3. ASSUME NEW answer, Ending(c, answer) PROVE RunInv'
    <3>1. lock' = NoClient /\ hw' = hw
      BY <2>3 DEF Ending, Respond
    <3>2. ~Running
      BY <1>4, <3>1, EndStopped
    <3>3. QED
      BY <1>2, <3>1, <3>2 DEF Running
  <2>4. CASE Holds(c, "graph") /\ UNCHANGED server
    <3>0. UNCHANGED <<lock, script>> /\ Serving /\ Serving' /\ lock = c /\ thread[c] = "holding"
      BY <1>0, <2>4, HolderServes, SameRequest DEF server, Holds
    <3>1. CASE Barrier(c) \/ WaitChunk(c)
      <4>1. ~Running /\ hw' = hw
        BY <3>1 DEF Barrier, WaitChunk, Error
      <4>2. QED
        BY <1>2, <4>1 DEF Running
    <3>2. CASE PsRead(c)
      <4>1. /\ hw' = hw /\ graph.step = "op"
            /\ graph' = [graph EXCEPT !.step = "ps", !.vals = Inputs(mem, Op(c))]
        BY <3>2 DEF PsRead, Ready, AtOp, InGraph
      <4>2. graph'.in_flight = graph.in_flight
        BY <1>0, <4>1 DEF GraphType
      <4>3. QED
        BY <1>0, <3>0, <4>1, <4>2 DEF RunInv, Running, InFlight
    <3>3. CASE PsWrite(c)
      <4>1. /\ hw' = hw /\ graph.step = "ps"
            /\ graph' = [graph EXCEPT !.step = "op", !.vals = <<>>, !.at = @ + 1]
        BY <3>3 DEF PsWrite, InGraph
      <4>2. graph'.in_flight = graph.in_flight
        BY <1>0, <4>1 DEF GraphType
      <4>3. QED
        BY <1>0, <3>0, <4>1, <4>2 DEF RunInv, Running, InFlight
    <3>4. CASE StartChunk(c)
      <4>1. graph' = [graph EXCEPT !.step = "wait"] /\ ~InFlight
        BY <3>4 DEF StartChunk, Ready, MustWait
      <4>2. graph'.in_flight = graph.in_flight /\ graph'.step = "wait"
        BY <1>0, <4>1 DEF GraphType
      <4>3. QED
        BY <3>0, <4>1, <4>2 DEF RunInv, InFlight
    <3>5. CASE Issue(c)
      <4>1. /\ graph.step = "op" /\ graph.at <= Len(Request(c).ops) /\ Op(c).kind = "mm"
            /\ Pipelined(Op(c)) /\ ~InFlight /\ Start(Op(c))
            /\ graph' = [graph EXCEPT !.at = @ + 1, !.in_flight = Op(c).dst]
        BY <3>5 DEF Issue, Ready, AtOp, InGraph, MustWait
      <4>2. ~Running
        BY <1>0, <4>1 DEF RunInv
      <4>3. WellFormed(Op(c)) /\ graph.rb = 0 /\ graph.col = 0
        BY <1>0, <2>4, <4>1, MmInside
      <4>4. graph'.in_flight = Op(c).dst
        BY <1>0, <4>1 DEF GraphType
      <4>5. Op(c).dst # NoTensor
        <5>1. Works(Op(c)) /\ Op(c).dst \in Tensors(Op(c))
          BY <4>1 DEF Works, Tensors
        <5>2. QED
          BY <4>3, <5>1, TensorType
      <4>6. Range(ResultCells(Op(c))) \subseteq CellsOf(Op(c).dst)
        BY <1>0, <4>1, <4>3, PipelinedDirect
      <4>7. CASE hw.state = "idle"
        <5>1. hw'.to = ResultCells(Op(c))
          BY <4>1, <4>7 DEF Start
        <5>2. QED
          BY <3>0, <4>4, <4>5, <4>6, <5>1 DEF RunInv, InFlight
      <4>8. CASE hw.state # "idle"
        <5>1. hw' = hw
          BY <4>1, <4>8 DEF Start
        <5>2. QED
          BY <1>2, <4>2, <5>1 DEF Running
      <4>9. QED
        BY <4>7, <4>8
    <3>6. CASE UnknownOp(c) \/ RefusedOp(c) \/ Finish(c) \/ Upload(c) \/ Download(c) \/ Refuse(c)
      <4>1. lock' = NoClient
        BY <3>6 DEF UnknownOp, RefusedOp, Finish, Upload, Download, Refuse, Error, Ok, Respond
      <4>2. QED
        BY <3>0, <4>1, ScriptAssumption
    <3>7. ~Recv(c) /\ ~Acquire(c)
      BY <3>0 DEF Recv, Acquire
    <3>8. QED
      BY <1>4, <3>1, <3>2, <3>3, <3>4, <3>5, <3>6, <3>7 DEF Serve
  <2>5. QED
    BY <1>4, <2>1, <2>2, <2>3, <2>4, ServeCases
<1>5. QED
  BY <1>1, <1>3, <1>4 DEF Next, vars, server

LEMMA SpecScheduleInv ==
  ASSUME AllDrained
  PROVE  Spec => []ScheduleInv
<1>1. Init => ScheduleInv
  <2>1. SUFFICES ASSUME Init PROVE ScheduleInv
    OBVIOUS
  <2>2. TypeInv /\ ~Serving /\ ~Running
    BY <2>1, InitTypeInv, ScriptAssumption, NoChunkType DEF Init, Serving, Running
  <2>3. QED
    BY <2>2 DEF ScheduleInv, FlightInv, RunInv
<1>2. ScheduleInv /\ [Next]_vars => ScheduleInv'
  BY TypeInvStep, FlightStep, RunStep DEF ScheduleInv
<1>3. QED
  BY <1>1, <1>2, PTL DEF Spec

\* The driver's buffers are no tensors.
LEMMA BufferApart == TensorCells \cap BufCells = {}
BY ScriptAssumption DEF BufCells, ActsBuf, ResultBuf

\* The cells a PS kernel writes are none the PL still fills.
LEMMA PsWriteApart ==
  ASSUME ScheduleInv, NEW c \in Clients, PsWrite(c), Running
  PROVE  /\ Range(hw.to) \cap CellsOf(Op(c).dst) = {}
         /\ ActsBuf \notin CellsOf(Op(c).dst)
<1>. DEFINE ops == Request(c).ops
            d == graph.in_flight
<1>0. TypeInv /\ ServerInv /\ GraphType /\ PositionInv /\ FlightInv /\ RunInv
  BY DEF ScheduleInv, TypeInv, Types
<1>1. Holds(c, "graph") /\ graph.step = "ps"
  BY DEF PsWrite, InGraph
<1>2. lock = c /\ Serving /\ ops \in GraphsOf /\ Len(ops) \in Nat
  BY <1>0, <1>1, HolderServes
<1>3. InFlight /\ Range(hw.to) \subseteq CellsOf(d)
  BY <1>0, <1>1 DEF RunInv
<1>4. PICK i \in 1 .. graph.at - 1 : Flying(ops, i, graph.at, d)
  BY <1>0, <1>1, <1>2, <1>3 DEF FlightInv, Reached
<1>5. graph.at \in i + 1 .. graph.at /\ graph.at <= Len(ops)
  BY <1>0, <1>1, <1>2, <1>4 DEF GraphType, PositionInv
<1>6. Apart(Op(c), d)
  BY <1>4, <1>5 DEF Flying, Op
<1>7. CellsOf(Op(c).dst) \cap CellsOf(d) = {}
  BY <1>6 DEF Apart, Tensors, Overlap
<1>8. WellFormed(Op(c)) /\ Works(Op(c)) /\ Op(c).dst \in Tensors(Op(c))
  BY <1>0, <1>1, <1>5, <1>6, CurrentOp DEF Works, Apart, Tensors
<1>9. CellsOf(Op(c).dst) \subseteq TensorCells
  BY <1>8, TensorType DEF CellsOf
<1>10. ActsBuf \in BufCells
  BY DEF BufCells
<1>11. QED
  BY <1>3, <1>7, <1>9, <1>10, BufferApart

\* While the PL runs, the ARM changes no cell but those of a PS kernel's result.
LEMMA ArmWrites ==
  ASSUME ScheduleInv, AllDrained, [Next]_vars, Running, hw' = hw
  PROVE  \/ mem' = mem
         \/ \E c \in Clients : PsWrite(c)
<1>0. TypeInv /\ ServerInv /\ RunInv /\ HwInv
  BY DEF ScheduleInv, TypeInv, Types
<1>1. CASE Hardware
  <2>1. CASE LoadActs
    <3>1. hw'.state = "stream" /\ hw.state = "load"
      BY <1>0, <2>1 DEF LoadActs, HwInv
    <3>2. QED
      BY <3>1
  <2>2. CASE StreamBlock
    <3>1. hw.state = "stream" /\ (hw' = NoChunk \/ hw' = [hw EXCEPT !.done = @ + 1])
      BY <2>2 DEF StreamBlock
    <3>2. hw' = [hw EXCEPT !.done = @ + 1] => hw'.done # hw.done
      <4>1. hw.done \in Nat /\ "done" \in DOMAIN hw
        BY <1>0 DEF HwInv
      <4>2. QED
        BY ONLY <4>1
    <3>3. QED
      BY <3>1, <3>2, NoChunkType
  <2>3. CASE Stall
    BY <2>3 DEF Stall
  <2>4. QED
    BY <1>1, <2>1, <2>2, <2>3 DEF Hardware
<1>2. ASSUME NEW c \in Clients, Serve(c) PROVE mem' = mem \/ PsWrite(c)
  <2>1. CASE Recv(c) \/ Acquire(c) \/ Download(c) \/ Refuse(c) \/ UnknownOp(c) \/ RefusedOp(c)
          \/ PsRead(c)
    BY <2>1 DEF Recv, Acquire, Download, Refuse, UnknownOp, RefusedOp, PsRead, Error
  <2>2. CASE Upload(c)
    <3>1. lock' = NoClient
      BY <2>2 DEF Upload, Ok, Respond
    <3>2. QED
      BY <1>2, <3>1, EndStopped
  <2>3. CASE Barrier(c) \/ WaitChunk(c)
    BY <2>3 DEF Barrier, WaitChunk
  <2>4. CASE Issue(c) \/ StartChunk(c)
    <3>1. graph.step = "op" /\ ~InFlight
      BY <2>4 DEF Issue, StartChunk, Ready, AtOp, InGraph, MustWait
    <3>2. QED
      BY <1>0, <3>1 DEF RunInv
  <2>5. CASE Finish(c)
    BY <2>5 DEF Finish, Error
  <2>6. QED
    BY <1>2, <2>1, <2>2, <2>3, <2>4, <2>5 DEF Serve
<1>3. QED
  BY <1>1, <1>2 DEF Next, vars

\* For every graph in the arena's order, of any shapes and any length, the ARM
\* keeps off what the PL still reads and writes, as long as no op raises while
\* a matmul is in flight.
THEOREM Overlapped ==
  ASSUME AllDrained
  PROVE  Spec => WaitBeforeReuse
<1>. DEFINE A == (Running /\ hw' = hw) =>
                   /\ \A i \in DOMAIN hw.to : mem'[hw.to[i]] = mem[hw.to[i]]
                   /\ hw.state = "load" => mem'[ActsBuf] = mem[ActsBuf]
<1>1. ScheduleInv /\ [Next]_vars => A
  <2>1. SUFFICES ASSUME ScheduleInv, [Next]_vars, Running, hw' = hw
                 PROVE  /\ \A i \in DOMAIN hw.to : mem'[hw.to[i]] = mem[hw.to[i]]
                        /\ mem'[ActsBuf] = mem[ActsBuf]
    OBVIOUS
  <2>2. ASSUME NEW c \in Clients, PsWrite(c)
        PROVE  /\ \A i \in DOMAIN hw.to : mem'[hw.to[i]] = mem[hw.to[i]]
               /\ mem'[ActsBuf] = mem[ActsBuf]
    <3>1. \A x \in DOMAIN mem : x \notin CellsOf(Op(c).dst) => mem'[x] = mem[x]
      BY <2>2 DEF PsWrite, Put
    <3>2. DOMAIN mem = Cells /\ Range(hw.to) \subseteq Cells /\ ActsBuf \in Cells
      BY <2>1 DEF ScheduleInv, TypeInv, Types, MemInv, HwInv, Range, Cells, BufCells
    <3>3. /\ Range(hw.to) \cap CellsOf(Op(c).dst) = {}
          /\ ActsBuf \notin CellsOf(Op(c).dst)
      BY <2>1, <2>2, PsWriteApart
    <3>4. \A i \in DOMAIN hw.to : hw.to[i] \in Range(hw.to)
      BY DEF Range
    <3>5. QED
      BY <3>1, <3>2, <3>3, <3>4
  <2>3. QED
    BY <2>1, <2>2, ArmWrites
<1>2. QED
  BY <1>1, SpecScheduleInv, PTL DEF Spec, WaitBeforeReuse

\* An answer is final: while no request is served nothing streams, and no
\* tensor changes.
QuietBetween == [][lock = NoClient => UNCHANGED mem]_vars

\* run_graph leaves no stream behind it: QuietBetween holds as long as no op
\* raises while a matmul is in flight.
THEOREM AnswerIsFinal ==
  ASSUME AllDrained
  PROVE  Spec => QuietBetween
<1>1. ScheduleInv /\ [Next]_vars => (lock = NoClient => UNCHANGED mem)
  <2>1. SUFFICES ASSUME ScheduleInv, [Next]_vars, lock = NoClient PROVE UNCHANGED mem
    OBVIOUS
  <2>2. ~Running /\ ServerInv
    BY <2>1, ScriptAssumption DEF ScheduleInv, TypeInv, Types, RunInv, Serving
  <2>3. \A c \in Clients : thread[c] # "holding"
    BY <2>1, <2>2, ScriptAssumption DEF ServerInv
  <2>4. ASSUME NEW c \in Clients, Serve(c) PROVE UNCHANGED mem
    <3>1. CASE Recv(c) \/ Acquire(c)
      BY <3>1 DEF Recv, Acquire
    <3>2. Recv(c) \/ Acquire(c)
      BY <2>3, <2>4, ServeCases DEF Holds
    <3>3. QED
      BY <3>1, <3>2
  <2>5. Hardware => UNCHANGED mem
    BY <2>2 DEF Hardware, LoadActs, StreamBlock, Stall, Running
  <2>6. QED
    BY <2>1, <2>4, <2>5 DEF Next, vars
<1>2. QED
  BY <1>1, SpecScheduleInv, PTL DEF Spec, QuietBetween

-----------------------------------------------------------------------------
(***************************************************************************)
(* The daemon implements GraphSpec: whatever the ARM and the PL do side by *)
(* side, a request takes effect at once, and a graph computes what its ops *)
(* computed one after the other would.                                     *)
(***************************************************************************)

(* What the cells hold, and what they are to hold. *)

Ops == Request(lock).ops

\* The tensors as the ops before the current one leave them, one after the other.
Model == After(before, Ops)[graph.at - 1]

\* An op whose chunks have been started, or may be.
Chunking == ~InFlight /\ graph.at <= Len(Ops) /\ Chunked(Op(lock))

\* The result that is not as in Model yet: in flight, or worked off in chunks.
Unsettled == IF InFlight THEN CellsOf(graph.in_flight)
             ELSE IF Chunking THEN CellsOf(Op(lock).dst) ELSE {}

\* What the PL has been told to do: cells to fill, and with what.
JobSize == IF InFlight THEN graph.in_flight.n ELSE ChunkBlocks(Op(lock)) * ROWS_PER_BLOCK
JobCell(i) == IF InFlight THEN CellAt(graph.in_flight, i - 1) ELSE ResultCells(Op(lock))[i]
JobValue(i) ==
  IF InFlight THEN Model[CellAt(graph.in_flight, i - 1)]
  ELSE MmValue(Model[CellAt(Op(lock).src[2], graph.col)],
               Model[CellAt(Op(lock).src[1], graph.rb + ((i - 1) \div ROWS_PER_BLOCK))],
               (i - 1) % ROWS_PER_BLOCK)

\* What the kernel puts in its i-th result, from the activations and weights it has.
Streamed(i) == MmValue(IF hw.state = "load" THEN mem[ActsBuf] ELSE hw.acts,
                       mem[hw.w[((i - 1) \div ROWS_PER_BLOCK) + 1]], (i - 1) % ROWS_PER_BLOCK)

Working == Serving /\ (InFlight \/ graph.step = "wait")

\* The ops passed are ops that work; off the unsettled result the tensors are
\* as in Model, and what a matmul's chunks have left of it is right.
WalkedInv  == Serving => \A k \in 1 .. graph.at - 1 : Works(Ops[k])
CellsInv   == Serving => \A x \in TensorCells \ Unsettled : mem[x] = Model[x]
DoneInv    == (Serving /\ Chunking) =>
                \A j \in 0 .. ChunkFirst(Op(lock)) - 1 :
                  mem[CellAt(Op(lock).dst, j)] = MmResult(Model, Op(lock))[j]
\* What a PS kernel has read, and what run has packed for a column, are as in
\* Model; run has not begun while another matmul is in flight.
ReadInv    == (Serving /\ graph.step = "ps") => graph.vals = Inputs(Model, Op(lock))
PackInv    == (Serving /\ Chunking /\ (graph.step = "wait" \/ graph.rb > 0)) =>
                mem[ActsBuf] = Model[CellAt(Op(lock).src[2], graph.col)]
FreshInv   == (Serving /\ InFlight) => graph.rb = 0 /\ graph.col = 0
\* The PL fills the cells it was told to with what it was told to, in order.
JobInv     ==
  Working =>
    /\ hw.state = "idle" => \A i \in 1 .. JobSize : mem[JobCell(i)] = JobValue(i)
    /\ Running => /\ Len(hw.to) = JobSize /\ \A i \in 1 .. JobSize : hw.to[i] = JobCell(i)
                  /\ hw.done < Len(hw.w) /\ (hw.state = "load" => hw.done = 0)
                  /\ \A i \in 1 .. JobSize : JobValue(i) = Streamed(i)
                  /\ \A i \in 1 .. hw.done * ROWS_PER_BLOCK : mem[JobCell(i)] = JobValue(i)
\* No op writes the weights that stream, and a request changes only tensors
\* its graph writes.
WeightsInv == Running => \A b \in DOMAIN hw.w : \A k \in DOMAIN Ops :
                           Works(Ops[k]) => hw.w[b][1] # Ops[k].dst.h
FrameInv   == /\ Serving => \A x \in TensorCells \ Written(Ops) : mem[x] = before[x]
              /\ lock \in Clients /\ ~Serving => \A x \in TensorCells : mem[x] = before[x]

ResultInv == WalkedInv /\ CellsInv /\ DoneInv /\ ReadInv /\ PackInv /\ FreshInv
ValuesInv == ResultInv /\ JobInv /\ WeightsInv /\ FrameInv
DaemonInv == ScheduleInv /\ ValuesInv
-----------------------------------------------------------------------------
(* The ops one after the other. *)

Walks(g, m, ops, n) == g = [k \in 0 .. n |-> IF k = 0 THEN m ELSE OpEffect(g[k - 1], ops[k])]

\* The recursion that defines After has a solution.
LEMMA AfterExists ==
  ASSUME NEW m, NEW ops
  PROVE  \A n \in Nat : \E g : Walks(g, m, ops, n)
<1>. DEFINE S == {n \in Nat : \E g : Walks(g, m, ops, n)}
<1>1. 0 \in S
  <2>. DEFINE g == [k \in 0 .. 0 |-> m]
  <2>1. Walks(g, m, ops, 0)
    BY DEF Walks
  <2>2. QED
    BY <2>1
<1>2. ASSUME NEW n \in Nat, n \in S PROVE n + 1 \in S
  <2>1. PICK g : Walks(g, m, ops, n)
    BY <1>2
  <2>. DEFINE h == [k \in 0 .. n + 1 |-> IF k = n + 1 THEN OpEffect(g[n], ops[n + 1]) ELSE g[k]]
  <2>2. \A k \in 0 .. n : h[k] = g[k]
    OBVIOUS
  <2>3. \A k \in 0 .. n : g[k] = IF k = 0 THEN m ELSE OpEffect(g[k - 1], ops[k])
    BY <2>1 DEF Walks
  <2>4. ASSUME NEW k \in 0 .. n + 1
        PROVE  h[k] = IF k = 0 THEN m ELSE OpEffect(h[k - 1], ops[k])
    <3>1. CASE k = n + 1
      <4>1. k # 0 /\ k - 1 = n /\ h[k] = OpEffect(g[n], ops[n + 1]) /\ n \in 0 .. n
        BY <3>1
      <4>2. h[k - 1] = g[n]
        BY <2>2, <4>1
      <4>3. QED
        BY <3>1, <4>1, <4>2
    <3>2. CASE k # n + 1
      <4>1. k \in 0 .. n /\ (k # 0 => k - 1 \in 0 .. n)
        BY <3>2
      <4>. HIDE DEF h
      <4>2. QED
        BY <2>2, <2>3, <4>1
    <3>3. QED
      BY <3>1, <3>2
  <2>5. Walks(h, m, ops, n + 1)
    <3>. DEFINE r == [k \in 0 .. n + 1 |-> IF k = 0 THEN m ELSE OpEffect(h[k - 1], ops[k])]
    <3>1. h = [k \in 0 .. n + 1 |-> h[k]]
      OBVIOUS
    <3>. HIDE DEF h
    <3>2. [k \in 0 .. n + 1 |-> h[k]] = r
      BY <2>4
    <3>3. QED
      BY <3>1, <3>2 DEF Walks
  <2>. HIDE DEF h
  <2>6. QED
    BY <2>5
<1>. HIDE DEF S
<1>3. \A n \in Nat : n \in S
  BY <1>1, <1>2, NatSetInduction
<1>4. QED
  BY <1>3 DEF S

LEMMA AfterSteps ==
  ASSUME NEW m, NEW ops, Len(ops) \in Nat
  PROVE  /\ After(m, ops)[0] = m
         /\ \A k \in 1 .. Len(ops) : After(m, ops)[k] = OpEffect(After(m, ops)[k - 1], ops[k])
<1>1. After(m, ops) = CHOOSE h : Walks(h, m, ops, Len(ops))
  BY DEF After, Walks
<1>2. \E g : Walks(g, m, ops, Len(ops))
  BY AfterExists
<1>3. Walks(After(m, ops), m, ops, Len(ops))
  BY <1>1, <1>2
<1>. DEFINE A == After(m, ops)
<1>4. A = [k \in 0 .. Len(ops) |-> IF k = 0 THEN m ELSE OpEffect(A[k - 1], ops[k])]
  BY <1>3 DEF Walks
<1>. HIDE DEF A
<1>5. A[0] = m /\ \A k \in 1 .. Len(ops) : A[k] = OpEffect(A[k - 1], ops[k])
  BY <1>4
<1>6. QED
  BY <1>5 DEF A

\* Ops keep the domain of the memory.
LEMMA AfterDomain ==
  ASSUME NEW m, NEW ops, Len(ops) \in Nat
  PROVE  \A k \in 0 .. Len(ops) : DOMAIN After(m, ops)[k] = DOMAIN m
<1>. DEFINE S == {k \in Nat : k <= Len(ops) => DOMAIN After(m, ops)[k] = DOMAIN m}
<1>1. 0 \in S
  BY AfterSteps
<1>2. ASSUME NEW n \in Nat, n \in S PROVE n + 1 \in S
  <2>1. SUFFICES ASSUME n + 1 <= Len(ops) PROVE DOMAIN After(m, ops)[n + 1] = DOMAIN m
    OBVIOUS
  <2>2. n + 1 \in 1 .. Len(ops) /\ (n + 1) - 1 = n
    BY <2>1
  <2>3. After(m, ops)[n + 1] = OpEffect(After(m, ops)[n], ops[n + 1])
    BY <2>2, AfterSteps
  <2>4. \A a, op : DOMAIN OpEffect(a, op) = DOMAIN a
    BY DEF OpEffect, Put
  <2>5. n <= Len(ops)
    BY <2>1
  <2>6. QED
    BY <1>2, <2>3, <2>4, <2>5
<1>. HIDE DEF S
<1>3. \A n \in Nat : n \in S
  BY <1>1, <1>2, NatSetInduction
<1>4. QED
  BY <1>3 DEF S
-----------------------------------------------------------------------------
(* Where an element of a result is. *)

\* Division is determined by its bounds.
LEMMA DivUnique ==
  ASSUME NEW a \in Nat, NEW d \in Nat \ {0}, NEW r \in 0 .. d - 1
  PROVE  (a * d + r) \div d = a /\ (a * d + r) % d = r
<1>. DEFINE n == a * d + r
            q == n \div d
<1>1. n \in Nat
  OBVIOUS
<1>2. q \in Nat /\ n = q * d + (n % d) /\ (n % d) \in 0 .. d - 1
  <2>. HIDE DEF n
  <2>1. QED
    BY <1>1
<1>3. \A x, y, z \in Nat : x < y => x * z + z <= y * z
  <2>1. SUFFICES ASSUME NEW x \in Nat, NEW y \in Nat, NEW z \in Nat, x < y
                 PROVE  x * z + z <= y * z
    OBVIOUS
  <2>2. \A u, v \in Nat : u <= v => u * z <= v * z
    OBVIOUS
  <2>3. (x + 1) * z <= y * z
    BY <2>1, <2>2
  <2>4. (x + 1) * z = x * z + z
    OBVIOUS
  <2>5. QED
    BY <2>3, <2>4
<1>4. q = a
  <2>. DEFINE qd == q * d
              ad == a * d
              m == n % d
  <2>1. qd \in Nat /\ ad \in Nat /\ m \in 0 .. d - 1 /\ qd + m = ad + r
    BY <1>2
  <2>2. q < a => qd + d <= ad
    BY <1>2, <1>3
  <2>3. a < q => ad + d <= qd
    BY <1>2, <1>3
  <2>. HIDE DEF q, qd, ad, m
  <2>4. QED
    BY <1>2, <2>1, <2>2, <2>3
<1>5. n % d = r
  <2>. DEFINE ad == a * d
              m == n % d
  <2>1. ad \in Nat /\ m \in 0 .. d - 1 /\ ad + m = ad + r
    BY <1>2, <1>4
  <2>. HIDE DEF ad, m
  <2>2. m = r
    BY <2>1
  <2>3. QED
    BY <2>2 DEF m
<1>6. QED
  BY <1>4, <1>5

\* Row i of the chunk that starts at rowblock b is in rowblock b + i \div R.
LEMMA BlockOfRow ==
  ASSUME NEW b \in Nat, NEW i \in Nat
  PROVE  /\ (b * ROWS_PER_BLOCK + i) \div ROWS_PER_BLOCK = b + (i \div ROWS_PER_BLOCK)
         /\ (b * ROWS_PER_BLOCK + i) % ROWS_PER_BLOCK = i % ROWS_PER_BLOCK
<1>. DEFINE R == ROWS_PER_BLOCK
            q == i \div R
            s == i % R
<1>1. R \in Nat \ {0}
  BY RowsAssumption
<1>. HIDE DEF R
<1>2. q \in Nat /\ i = q * R + s /\ s \in 0 .. R - 1
  BY <1>1
<1>. HIDE DEF q, s
<1>3. (b + q) * R = b * R + q * R
  BY <1>1, <1>2
<1>4. b * R + i = (b + q) * R + s
  <2>. DEFINE x == b * R
              y == q * R
              z == (b + q) * R
  <2>1. x \in Nat /\ y \in Nat /\ z = x + y /\ i = y + s
    BY <1>1, <1>2, <1>3
  <2>. HIDE DEF x, y, z
  <2>2. x + i = z + s
    BY <1>1, <1>2, <2>1
  <2>3. QED
    BY <2>2 DEF x, z
<1>5. b + q \in Nat
  BY <1>2
<1>6. ((b + q) * R + s) \div R = b + q /\ ((b + q) * R + s) % R = s
  BY <1>1, <1>2, <1>5, DivUnique
<1>7. QED
  BY <1>4, <1>6 DEF R, q, s
-----------------------------------------------------------------------------
(* The state while a graph is served. *)

LEMMA ServingOps ==
  ASSUME TypeInv, Serving
  PROVE  /\ lock \in Clients /\ Holds(lock, "graph") /\ lock # NoClient
         /\ Ops \in GraphsOf /\ Len(Ops) \in Nat /\ DOMAIN Ops = 1 .. Len(Ops)
         /\ graph.at \in 1 .. Len(Ops) + 1
         /\ \A k \in 1 .. Len(Ops) : WellFormed(Ops[k])
         /\ ArenaSafe(Ops) /\ Op(lock) = Ops[graph.at]
<1>1. lock \in Clients /\ Holds(lock, "graph") /\ ServerInv /\ GraphType /\ PositionInv
  BY DEF Serving, Holds, TypeInv, Types, ServerInv
<1>2. Ops \in GraphsOf /\ Len(Ops) \in Nat
  BY <1>1, HolderServes DEF Ops
<1>3. graph.at \in 1 .. Len(Ops) + 1
  BY <1>1, <1>2 DEF PositionInv, GraphType, Ops
<1>4. QED
  BY <1>1, <1>2, <1>3, OpsType, ArenaAssumption, ScriptAssumption DEF Op, Ops

LEMMA ModelDomain ==
  ASSUME TypeInv, Serving
  PROVE  DOMAIN Model = TensorCells
<1>1. graph.at - 1 \in 0 .. Len(Ops) /\ Len(Ops) \in Nat
  BY ServingOps
<1>2. DOMAIN before = TensorCells
  BY DEF TypeInv, Types, MemInv
<1>3. QED
  BY <1>1, <1>2, AfterDomain DEF Model

\* A step that goes on with the request and the op leaves Model as it is; one
\* that goes on to the next op applies the op to it.
LEMMA ModelStays ==
  ASSUME UNCHANGED <<lock, script, before>>
  PROVE  /\ Ops' = Ops /\ Serving' = Serving /\ lock' = lock
         /\ graph'.at = graph.at => Model' = Model /\ Op(lock)' = Op(lock)
BY DEF Ops, Request, Serving, Model, Op

LEMMA ModelAdvances ==
  ASSUME TypeInv, Serving, UNCHANGED <<lock, script, before>>,
         graph.at <= Len(Ops), graph'.at = graph.at + 1
  PROVE  Model' = OpEffect(Model, Op(lock))
<1>1. graph.at \in 1 .. Len(Ops) /\ Len(Ops) \in Nat /\ Op(lock) = Ops[graph.at]
  BY ServingOps
<1>2. Model' = After(before, Ops)[graph'.at - 1]
  BY DEF Model, Ops, Request
<1>3. graph'.at - 1 = graph.at
  BY <1>1
<1>4. After(before, Ops)[graph.at] = OpEffect(After(before, Ops)[graph.at - 1], Ops[graph.at])
  BY <1>1, AfterSteps
<1>5. QED
  BY <1>1, <1>2, <1>3, <1>4 DEF Model

\* The cells of a result are cells its graph writes, at the handle of its tensor.
LEMMA ResultWritten ==
  ASSUME TypeInv, Serving, NEW k \in 1 .. Len(Ops), Works(Ops[k])
  PROVE  /\ Ops[k].dst.lo \in Nat /\ Ops[k].dst.n \in Nat
         /\ CellsOf(Ops[k].dst) \subseteq TensorCells
         /\ CellsOf(Ops[k].dst) \subseteq Written(Ops)
<1>1. k \in DOMAIN Ops /\ WellFormed(Ops[k]) /\ Ops[k].dst \in Tensors(Ops[k])
  BY ServingOps DEF Tensors
<1>2. QED
  BY <1>1, TensorType DEF Written, CellsOf

LEMMA WrittenHandle ==
  ASSUME NEW ops, NEW x \in Written(ops)
  PROVE  \E k \in DOMAIN ops : Works(ops[k]) /\ x \in CellsOf(ops[k].dst) /\ x[1] = ops[k].dst.h
<1>1. PICK k \in DOMAIN ops : Works(ops[k]) /\ x \in CellsOf(ops[k].dst)
  BY DEF Written
<1>2. x[1] = ops[k].dst.h
  BY <1>1 DEF CellsOf, CellAt
<1>3. QED
  BY <1>1, <1>2

LEMMA FlightFacts ==
  ASSUME ScheduleInv, Serving, InFlight
  PROVE  /\ graph.step # "wait"
         /\ \E k \in 1 .. graph.at - 1 : /\ k \in 1 .. Len(Ops) /\ Works(Ops[k])
                                         /\ graph.in_flight = Ops[k].dst
         /\ graph.in_flight.lo \in Nat /\ graph.in_flight.n \in Nat
         /\ CellsOf(graph.in_flight) \subseteq TensorCells
         /\ CellsOf(graph.in_flight) \subseteq Written(Ops)
<1>0. TypeInv /\ FlightInv
  BY DEF ScheduleInv
<1>1. graph.step # "wait"
  BY <1>0 DEF FlightInv
<1>2. PICK k \in 1 .. graph.at - 1 : Flying(Ops, k, Reached, graph.in_flight)
  BY <1>0 DEF FlightInv, Ops
<1>3. k \in 1 .. Len(Ops) /\ Works(Ops[k]) /\ graph.in_flight = Ops[k].dst
  BY <1>0, <1>2, ServingOps DEF Flying, Works
<1>4. QED
  BY <1>0, <1>1, <1>2, <1>3, ResultWritten

\* A matmul's activations and weights are tensors that it does not write; its
\* weights are written by no op.
LEMMA MmFacts ==
  ASSUME ScheduleInv, Serving, graph.at <= Len(Ops), NEW op, op = Op(lock), op.kind = "mm"
  PROVE  /\ WellFormed(op) /\ Works(op) /\ MmShape(op) /\ Inside(op) /\ graph.at \in 1 .. Len(Ops)
         /\ \A i \in 0 .. Rowblocks(op.rows) - 1 : CellAt(op.src[1], i) \in TensorCells
         /\ \A i \in 0 .. op.cols - 1 : CellAt(op.src[2], i) \in TensorCells \ CellsOf(op.dst)
         /\ \A k \in DOMAIN Ops : Works(Ops[k]) => op.src[1].h # Ops[k].dst.h
         /\ op.src[1].h # op.dst.h /\ op.src[1].lo \in Nat
         /\ op.dst.lo \in Nat /\ op.dst.n \in Nat
         /\ CellsOf(op.dst) \subseteq TensorCells
         /\ CellsOf(op.dst) \subseteq Written(Ops)
<1>0. TypeInv /\ GraphType
  BY DEF ScheduleInv, TypeInv, Types
<1>1. graph.at \in 1 .. Len(Ops) /\ Works(op) /\ Ops[graph.at] = op
  BY <1>0, ServingOps DEF Works
<1>2. WellFormed(op) /\ Inside(op)
  BY <1>0, <1>1, ServingOps, MmInside DEF Ops
<1>3. MmShape(op)
  BY <1>1, <1>2 DEF WellFormed
<1>4. op.src[1] \in Tensors(op) /\ op.src[2] \in Tensors(op)
  BY <1>3 DEF Tensors, Range, MmShape
<1>5. /\ op.src[1].lo \in Nat
      /\ \A i \in 0 .. op.src[1].n - 1 : CellAt(op.src[1], i) \in TensorCells
      /\ \A i \in 0 .. op.src[2].n - 1 : CellAt(op.src[2], i) \in TensorCells
  BY <1>1, <1>2, <1>4, TensorType
<1>6. /\ \A k \in DOMAIN Ops : Works(Ops[k]) => op.src[1].h # Ops[k].dst.h
      /\ ~Overlap(op.src[2], op.dst)
  <2>1. ArenaSafe(Ops) /\ graph.at \in DOMAIN Ops
    BY <1>0, <1>1, ServingOps
  <2>2. QED
    BY <1>1, <2>1, Zenon DEF ArenaSafe
<1>7. op.src[1].h # op.dst.h
  BY <1>0, <1>1, <1>6, ServingOps
<1>8. \A i \in 0 .. op.src[2].n - 1 : CellAt(op.src[2], i) \notin CellsOf(op.dst)
  BY <1>6 DEF Overlap, CellsOf
<1>9. QED
  BY <1>0, <1>1, <1>2, <1>3, <1>5, <1>6, <1>7, <1>8, ResultWritten DEF MmShape

LEMMA ChunkFacts ==
  ASSUME ScheduleInv, Serving, Chunking, NEW op, op = Op(lock)
  PROVE  /\ graph.at \in 1 .. Len(Ops) /\ op.kind = "mm" /\ Works(op) /\ WellFormed(op)
         /\ MmShape(op) /\ Inside(op) /\ graph.rb \in Nat /\ graph.col \in Nat
         /\ op.dst.lo \in Nat /\ op.dst.n \in Nat /\ op.src[1].lo \in Nat
         /\ CellsOf(op.dst) \subseteq TensorCells
         /\ CellsOf(op.dst) \subseteq Written(Ops)
<1>1. graph.at <= Len(Ops) /\ op.kind = "mm"
  BY DEF Chunking, Chunked
<1>2. graph.rb \in Nat /\ graph.col \in Nat
  BY DEF ScheduleInv, TypeInv, Types, GraphType
<1>3. QED
  BY <1>1, <1>2, MmFacts

\* Whoever waits for a chunk is working off a matmul in chunks.
LEMMA WaitingChunks ==
  ASSUME ScheduleInv, Serving, graph.step = "wait"
  PROVE  Chunking
<1>1. ~InFlight
  BY DEF ScheduleInv, FlightInv
<1>2. QED
  BY <1>1 DEF Chunking, ScheduleInv, TypeInv, PositionInv, Ops

LEMMA CellAtInjective ==
  ASSUME NEW t, t.lo \in Int, NEW i \in Int, NEW j \in Int, CellAt(t, i) = CellAt(t, j)
  PROVE  i = j
<1>1. t.lo + i = t.lo + j
  BY DEF CellAt
<1>2. QED
  BY <1>1

\* The chunk's results go to distinct cells of the result that are still to do,
\* or to distinct cells of result_buf.
LEMMA ChunkCells ==
  ASSUME ScheduleInv, Serving, Chunking, NEW op, op = Op(lock),
         NEW m, m = ChunkBlocks(op) * ROWS_PER_BLOCK
  PROVE  /\ m \in Nat /\ ChunkFirst(op) \in Nat /\ ChunkRows(op) \in Nat
         /\ ChunkFirst(op) + ChunkRows(op) <= op.dst.n
         /\ \A i \in 1 .. m : ResultCells(op)[i] = IF Direct(op) THEN CellAt(op.dst, ChunkFirst(op) + i - 1)
                                                   ELSE ResultBuf(i - 1)
         /\ Direct(op) => m = ChunkRows(op)
         /\ \A i \in 1 .. m : ResultBuf(i - 1) \in BufCells
<1>1. /\ MmShape(op) /\ Inside(op) /\ op.src[1].lo \in Nat /\ GraphType
  BY ChunkFacts DEF ScheduleInv, TypeInv, Types
<1>2. /\ ChunkBlocks(op) \in 1 .. MAX_ROWBLOCKS
      /\ ChunkRows(op) \in Nat /\ ChunkFirst(op) \in Nat
      /\ ChunkFirst(op) + ChunkRows(op) <= op.dst.n
  BY <1>1, ChunkBounds
<1>3. m \in Nat /\ m <= MAX_ROWBLOCKS * ROWS_PER_BLOCK /\ MAX_ROWBLOCKS * ROWS_PER_BLOCK \in Nat
  <2>1. \A x, y, z \in Nat : x <= y => x * z <= y * z
    OBVIOUS
  <2>2. QED
    BY <1>2, <2>1, RowsAssumption, ChunkAssumption
<1>4. \A i \in 1 .. m : ResultBuf(i - 1) \in BufCells
  <2>. DEFINE M == MAX_ROWBLOCKS * ROWS_PER_BLOCK
  <2>1. SUFFICES ASSUME NEW i \in 1 .. m PROVE i - 1 \in 0 .. M - 1
    BY DEF BufCells
  <2>2. m \in Nat /\ M \in Nat /\ m <= M
    BY <1>3
  <2>. HIDE DEF M
  <2>3. QED
    BY <2>2
<1>5. QED
  BY <1>2, <1>3, <1>4 DEF ResultCells, Direct

LEMMA JobCells ==
  ASSUME ScheduleInv, Working
  PROVE  /\ JobSize \in Nat
         /\ \A i \in 1 .. JobSize : JobCell(i) \in Unsettled \/ JobCell(i) \in BufCells
         /\ \A i \in 1 .. JobSize : JobCell(i) # ActsBuf
         /\ \A i, j \in 1 .. JobSize : JobCell(i) = JobCell(j) => i = j
         /\ Chunking => \A i \in 1 .. JobSize, j \in 0 .. ChunkFirst(Op(lock)) - 1 :
                          JobCell(i) # CellAt(Op(lock).dst, j)
<1>0. Serving
  BY DEF Working
<1>1. CASE InFlight
  <2>. DEFINE d == graph.in_flight
  <2>1. d.lo \in Nat /\ d.n \in Nat /\ CellsOf(d) \subseteq TensorCells
    BY <1>0, <1>1, FlightFacts
  <2>2. JobSize = d.n /\ Unsettled = CellsOf(d) /\ ~Chunking
    BY <1>1 DEF JobSize, Unsettled, Chunking
  <2>3. \A i : JobCell(i) = CellAt(d, i - 1)
    BY <1>1 DEF JobCell
  <2>4. ASSUME NEW i \in 1 .. d.n PROVE CellAt(d, i - 1) \in CellsOf(d)
    BY <2>1, <2>4 DEF CellsOf
  <2>5. ASSUME NEW i \in 1 .. d.n PROVE CellAt(d, i - 1) # ActsBuf
    BY <2>1, <2>4, BufferApart DEF BufCells
  <2>6. ASSUME NEW i \in 1 .. d.n, NEW j \in 1 .. d.n, CellAt(d, i - 1) = CellAt(d, j - 1)
        PROVE  i = j
    <3>1. i - 1 \in Int /\ j - 1 \in Int /\ d.lo \in Int
      BY <2>1
    <3>2. i - 1 = j - 1
      BY <2>6, <3>1, CellAtInjective
    <3>3. QED
      BY <2>1, <3>2
  <2>. HIDE DEF d
  <2>7. QED
    BY <2>1, <2>2, <2>3, <2>4, <2>5, <2>6
<1>2. CASE ~InFlight
  <2>1. Chunking
    BY <1>0, <1>2, WaitingChunks DEF Working
  <2>. DEFINE op == Op(lock)
              d  == op.dst
              m  == ChunkBlocks(op) * ROWS_PER_BLOCK
              F  == ChunkFirst(op)
  <2>2. /\ m \in Nat /\ F \in Nat /\ ChunkRows(op) \in Nat
        /\ F + ChunkRows(op) <= d.n
        /\ \A i \in 1 .. m : ResultCells(op)[i] = IF Direct(op) THEN CellAt(d, F + i - 1)
                                                  ELSE ResultBuf(i - 1)
        /\ Direct(op) => m = ChunkRows(op)
        /\ \A i \in 1 .. m : ResultBuf(i - 1) \in BufCells
    BY <1>0, <2>1, ChunkCells
  <2>3. d.lo \in Nat /\ d.n \in Nat /\ CellsOf(d) \subseteq TensorCells
    BY <1>0, <2>1, ChunkFacts
  <2>4. JobSize = m /\ Unsettled = CellsOf(d) /\ \A i : JobCell(i) = ResultCells(op)[i]
    BY <1>2, <2>1 DEF JobSize, Unsettled, JobCell
  <2>. HIDE DEF m, F, d, op
  <2>5. CASE Direct(op)
    <3>1. \A i \in 1 .. m : F + i - 1 \in 0 .. d.n - 1
      BY <2>2, <2>3, <2>5
    <3>2. \A i \in 1 .. m : CellAt(d, F + i - 1) \in CellsOf(d)
      BY <3>1 DEF CellsOf
    <3>3. \A i \in 1 .. m : CellAt(d, F + i - 1) # ActsBuf
      BY <2>3, <3>2, BufferApart DEF BufCells
    <3>4. ASSUME NEW i \in 1 .. m, NEW j \in 1 .. m, CellAt(d, F + i - 1) = CellAt(d, F + j - 1)
          PROVE  i = j
      <4>1. F + i - 1 \in Int /\ F + j - 1 \in Int /\ d.lo \in Int
        BY <2>2, <2>3
      <4>2. F + i - 1 = F + j - 1
        BY <3>4, <4>1, CellAtInjective
      <4>3. QED
        BY <2>2, <4>2
    <3>5. ASSUME NEW i \in 1 .. m, NEW j \in 0 .. F - 1, CellAt(d, F + i - 1) = CellAt(d, j)
          PROVE  FALSE
      <4>1. F + i - 1 \in Int /\ j \in Int /\ d.lo \in Int
        BY <2>2, <2>3
      <4>2. F + i - 1 = j
        BY <3>5, <4>1, CellAtInjective
      <4>3. QED
        BY <2>2, <4>2
    <3>6. \A i \in 1 .. m : ResultCells(op)[i] = CellAt(d, F + i - 1)
      BY <2>2, <2>5
    <3>7. QED
      BY <2>2, <2>4, <3>2, <3>3, <3>4, <3>5, <3>6 DEF d, F, op
  <2>6. CASE ~Direct(op)
    <3>1. \A i \in 1 .. m : ResultCells(op)[i] = ResultBuf(i - 1)
      BY <2>2, <2>6
    <3>2. \A i \in 1 .. m : ResultBuf(i - 1) # ActsBuf
      BY DEF ResultBuf, ActsBuf
    <3>3. \A i, j \in 1 .. m : ResultBuf(i - 1) = ResultBuf(j - 1) => i = j
      BY <2>2 DEF ResultBuf
    <3>4. ASSUME NEW i \in 1 .. m, NEW j \in 0 .. F - 1 PROVE ResultBuf(i - 1) # CellAt(d, j)
      <4>1. j \in 0 .. d.n - 1
        BY <2>2, <2>3
      <4>2. CellAt(d, j) \in TensorCells
        BY <2>3, <4>1 DEF CellsOf
      <4>3. QED
        BY <2>2, <4>2, BufferApart
    <3>5. QED
      BY <2>2, <2>4, <3>1, <3>2, <3>3, <3>4 DEF d, F, op
  <2>7. QED
    BY <2>5, <2>6
<1>3. QED
  BY <1>1, <1>2
-----------------------------------------------------------------------------
(* The PL's steps. *)

\* What the PL is to do does not change while run_graph stays where it is.
LEMMA JobStays ==
  ASSUME UNCHANGED <<lock, script, before>>,
         graph'.at = graph.at, graph'.in_flight = graph.in_flight,
         graph'.rb = graph.rb, graph'.col = graph.col
  PROVE  /\ Ops' = Ops /\ Model' = Model /\ Op(lock)' = Op(lock) /\ lock' = lock
         /\ Serving' = Serving /\ InFlight' = InFlight
         /\ Chunking' = Chunking /\ Unsettled' = Unsettled
         /\ ChunkFirst(Op(lock))' = ChunkFirst(Op(lock))
         /\ MmResult(Model, Op(lock))' = MmResult(Model, Op(lock))
         /\ JobSize' = JobSize
         /\ \A i : JobCell(i)' = JobCell(i)
         /\ \A i : JobValue(i)' = JobValue(i)
<1>1. Ops' = Ops /\ Model' = Model /\ Op(lock)' = Op(lock) /\ lock' = lock
  BY DEF Ops, Model, Op, Request
<1>2. Serving' = Serving /\ InFlight' = InFlight
  BY DEF Serving, InFlight, Request
<1>3. Chunking' = Chunking
  BY <1>1, <1>2 DEF Chunking
<1>4. Unsettled' = Unsettled
  BY <1>1, <1>2, <1>3 DEF Unsettled
<1>5. /\ ChunkFirst(Op(lock))' = ChunkFirst(Op(lock))
      /\ ChunkBlocks(Op(lock))' = ChunkBlocks(Op(lock))
      /\ ResultCells(Op(lock))' = ResultCells(Op(lock))
  BY <1>1, <1>2 DEF ChunkFirst, ChunkBlocks, ResultCells, Direct, ChunkRows
<1>6. JobSize' = JobSize
  BY <1>1, <1>2, <1>5 DEF JobSize
<1>7. \A i : JobCell(i)' = JobCell(i)
  BY <1>1, <1>2, <1>5 DEF JobCell
<1>8. \A i : JobValue(i)' = JobValue(i)
  BY <1>1, <1>2 DEF JobValue
<1>9. MmResult(Model, Op(lock))' = MmResult(Model, Op(lock))
  BY <1>1
<1>10. QED
  BY <1>1, <1>2, <1>3, <1>4, <1>5, <1>6, <1>7, <1>8, <1>9

\* A step that leaves run_graph alone, and changes no cell that has its value,
\* preserves what is known of the results.
LEMMA ResultsStay ==
  ASSUME DaemonInv, UNCHANGED <<lock, script, before, graph>>,
         Serving => \A x \in TensorCells \ Unsettled : mem'[x] = mem[x],
         Serving => \A x \in TensorCells \ Written(Ops) : mem'[x] = mem[x],
         ~Serving => \A x \in TensorCells : mem'[x] = mem[x],
         mem'[ActsBuf] = mem[ActsBuf],
         (Serving /\ Chunking) => \A j \in 0 .. ChunkFirst(Op(lock)) - 1 :
           mem'[CellAt(Op(lock).dst, j)] = mem[CellAt(Op(lock).dst, j)]
  PROVE  ResultInv' /\ FrameInv'
<1>0. WalkedInv /\ CellsInv /\ DoneInv /\ ReadInv /\ PackInv /\ FreshInv /\ FrameInv
  BY DEF DaemonInv, ValuesInv, ResultInv
<1>1. /\ Ops' = Ops /\ Model' = Model /\ Op(lock)' = Op(lock) /\ lock' = lock
      /\ Serving' = Serving /\ InFlight' = InFlight
      /\ Chunking' = Chunking /\ Unsettled' = Unsettled
      /\ ChunkFirst(Op(lock))' = ChunkFirst(Op(lock))
      /\ MmResult(Model, Op(lock))' = MmResult(Model, Op(lock))
      /\ graph' = graph /\ before' = before
  BY JobStays
<1>2. WalkedInv'
  BY <1>0, <1>1 DEF WalkedInv
<1>3. CellsInv'
  BY <1>0, <1>1 DEF CellsInv
<1>4. DoneInv'
  BY <1>0, <1>1 DEF DoneInv
<1>5. ReadInv'
  BY <1>0, <1>1 DEF ReadInv
<1>6. PackInv'
  <2>1. ActsBuf' = ActsBuf
    BY DEF ActsBuf
  <2>2. QED
    BY <1>0, <1>1, <2>1 DEF PackInv
<1>7. FreshInv'
  BY <1>0, <1>1 DEF FreshInv
<1>8. FrameInv'
  BY <1>0, <1>1 DEF FrameInv
<1>9. QED
  BY <1>2, <1>3, <1>4, <1>5, <1>6, <1>7, <1>8 DEF ResultInv

LEMMA UnsettledWritten ==
  ASSUME ScheduleInv, Serving
  PROVE  Unsettled \subseteq TensorCells /\ Unsettled \subseteq Written(Ops)
<1>1. CASE InFlight
  BY <1>1, FlightFacts DEF Unsettled
<1>2. CASE ~InFlight /\ Chunking
  BY <1>2, ChunkFacts DEF Unsettled
<1>3. QED
  BY <1>1, <1>2 DEF Unsettled

\* Row i of a chunk of b rowblocks is in one of them.
LEMMA DivBound ==
  ASSUME NEW b \in Nat, NEW R \in Nat \ {0}, NEW i \in 0 .. b * R - 1
  PROVE  i \div R \in 0 .. b - 1
<1>. DEFINE q == i \div R
            bR == b * R
            qR == q * R
<1>1. bR \in Nat /\ i \in Nat /\ i < bR
  OBVIOUS
<1>2. q \in Nat /\ qR \in Nat /\ qR <= i
  BY <1>1
<1>3. \A x, y, z \in Nat : x <= y => x * z <= y * z
  OBVIOUS
<1>4. b <= q => bR <= qR
  BY <1>2, <1>3
<1>. HIDE DEF q, bR, qR
<1>5. q < b
  BY <1>1, <1>2, <1>4
<1>6. QED
  BY <1>2, <1>5 DEF q

\* A cell of the weights that stream is none the PL fills, nor one an op writes.
LEMMA WeightsApart ==
  ASSUME DaemonInv, Running, NEW b \in 1 .. Len(hw.w)
  PROVE  /\ hw.w[b] \in TensorCells /\ hw.w[b] \notin Written(Ops)
         /\ \A i \in 1 .. JobSize : JobCell(i) # hw.w[b]
<1>0. ScheduleInv /\ WeightsInv /\ TypeInv /\ HwInv
  BY DEF DaemonInv, ValuesInv, ScheduleInv, TypeInv, Types
<1>1. Working /\ Serving
  BY <1>0 DEF ScheduleInv, RunInv, Working
<1>2. hw.w[b] \in TensorCells /\ b \in DOMAIN hw.w
  BY <1>0 DEF HwInv
<1>3. hw.w[b] \notin Written(Ops)
  <2>1. ASSUME hw.w[b] \in Written(Ops) PROVE FALSE
    <3>1. PICK k \in DOMAIN Ops : Works(Ops[k]) /\ hw.w[b][1] = Ops[k].dst.h
      BY <2>1, WrittenHandle
    <3>2. QED
      BY <1>0, <1>2, <3>1 DEF WeightsInv
  <2>2. QED
    BY <2>1
<1>4. QED
  BY <1>0, <1>1, <1>2, <1>3, JobCells, UnsettledWritten, BufferApart

LEMMA LoadStep ==
  ASSUME DaemonInv, LoadActs
  PROVE  ValuesInv'
<1>0. ScheduleInv /\ JobInv /\ WeightsInv /\ HwInv
  BY DEF DaemonInv, ValuesInv, ScheduleInv, TypeInv, Types
<1>1. /\ UNCHANGED <<lock, script, before, graph>> /\ mem' = mem
  BY DEF LoadActs, server
<1>2. ResultInv' /\ FrameInv'
  BY <1>1, ResultsStay
<1>3. /\ hw'.state = "stream" /\ hw.state = "load" /\ hw'.acts = mem[ActsBuf]
      /\ hw'.w = hw.w /\ hw'.to = hw.to /\ hw'.done = hw.done
  <2>1. hw' = [hw EXCEPT !.state = "stream", !.acts = mem[ActsBuf]] /\ hw.state = "load"
    BY DEF LoadActs
  <2>2. DOMAIN hw = {"state", "acts", "w", "to", "done"}
    BY <1>0 DEF HwInv
  <2>3. QED
    BY ONLY <2>1, <2>2
<1>4. /\ Ops' = Ops /\ Working' = Working /\ JobSize' = JobSize
      /\ \A i : JobCell(i)' = JobCell(i)
      /\ \A i : JobValue(i)' = JobValue(i)
  BY <1>1, JobStays DEF Working
<1>5. \A i : Streamed(i)' = Streamed(i)
  BY <1>1, <1>3 DEF Streamed
<1>6. Running /\ Running'
  BY <1>3 DEF Running
<1>7. WeightsInv'
  BY <1>0, <1>3, <1>4, <1>6 DEF WeightsInv
<1>8. JobInv'
  BY <1>0, <1>1, <1>3, <1>4, <1>5, <1>6 DEF JobInv
<1>9. QED
  BY <1>2, <1>7, <1>8 DEF ValuesInv

LEMMA StallStep ==
  ASSUME DaemonInv, Stall
  PROVE  ValuesInv'
<1>1. /\ UNCHANGED <<lock, script, before, graph>> /\ mem' = mem
  BY DEF Stall, server
<1>2. ResultInv' /\ FrameInv'
  BY <1>1, ResultsStay
<1>3. hw'.state = "stalled"
  BY DEF Stall, NoChunk
<1>4. ~Running'
  BY <1>3 DEF Running
<1>5. QED
  BY <1>2, <1>3, <1>4 DEF JobInv, WeightsInv, ValuesInv

LEMMA StreamStep ==
  ASSUME DaemonInv, StreamBlock
  PROVE  ValuesInv'
<1>. DEFINE R == ROWS_PER_BLOCK
            n == hw.done
            L == Len(hw.w)
            first == n * R
            row(c) == CHOOSE i \in DOMAIN hw.to : hw.to[i] = c
            new == {hw.to[first + i] : i \in 1 .. R}
<1>0. /\ ScheduleInv /\ JobInv /\ WeightsInv /\ HwInv /\ MemInv /\ R \in Nat \ {0}
  BY RowsAssumption DEF DaemonInv, ValuesInv, ScheduleInv, TypeInv, Types
<1>1. /\ UNCHANGED <<lock, script, before, graph>>
      /\ hw.state = "stream" /\ Running
      /\ mem' = [c \in DOMAIN mem |-> IF c \in new
                   THEN MmValue(hw.acts, mem[hw.w[n + 1]], (row(c) - 1) % R) ELSE mem[c]]
      /\ hw' = IF n + 1 = L THEN NoChunk ELSE [hw EXCEPT !.done = @ + 1]
  BY DEF StreamBlock, server, Running
<1>2. Working /\ Serving
  BY <1>0, <1>1 DEF ScheduleInv, RunInv, Working
<1>3. /\ Len(hw.to) = JobSize /\ \A i \in 1 .. JobSize : hw.to[i] = JobCell(i)
      /\ n < L /\ \A i \in 1 .. JobSize : JobValue(i) = Streamed(i)
      /\ \A i \in 1 .. first : mem[JobCell(i)] = JobValue(i)
  BY <1>0, <1>1, <1>2 DEF JobInv
<1>4. /\ n \in Nat /\ L \in Nat /\ JobSize \in Nat /\ first \in Nat
      /\ JobSize = L * R /\ DOMAIN hw.to = 1 .. JobSize /\ Range(hw.to) \subseteq DOMAIN mem
  <2>1. /\ n \in Nat /\ L \in Nat /\ Len(hw.to) \in Nat /\ DOMAIN hw.to = 1 .. Len(hw.to)
        /\ Len(hw.to) = L * R /\ Range(hw.to) \subseteq DOMAIN mem
    BY <1>0 DEF HwInv, MemInv, Range
  <2>2. QED
    BY <1>0, <1>3, <2>1
<1>5. /\ first + R <= JobSize /\ (n + 1) * R = first + R
      /\ n + 1 = L => first + R = JobSize
  <2>1. (n + 1) * R = first + R
    BY <1>0, <1>4
  <2>2. \A x, y, z \in Nat : x <= y => x * z <= y * z
    OBVIOUS
  <2>3. n + 1 <= L /\ n + 1 \in Nat
    BY <1>3, <1>4
  <2>4. (n + 1) * R <= L * R
    BY <1>0, <1>4, <2>2, <2>3
  <2>5. QED
    BY <1>4, <2>1, <2>4
<1>. HIDE DEF R, n, L, first, row
<1>6. ASSUME NEW i \in 1 .. R
      PROVE  /\ first + i \in 1 .. JobSize
             /\ JobCell(first + i) \in new
             /\ mem'[JobCell(first + i)] = JobValue(first + i)
  <2>1. first + i \in 1 .. JobSize
    BY <1>0, <1>4, <1>5
  <2>2. JobCell(first + i) \in new /\ hw.to[first + i] = JobCell(first + i)
    BY <1>3, <2>1
  <2>3. row(JobCell(first + i)) = first + i
    <3>1. \A j \in DOMAIN hw.to : hw.to[j] = JobCell(first + i) => j = first + i
      BY <1>0, <1>2, <1>3, <1>4, <2>1, JobCells
    <3>2. first + i \in DOMAIN hw.to
      BY <1>4, <2>1
    <3>3. QED
      BY <2>2, <3>1, <3>2 DEF row
  <2>4. ((first + i) - 1) \div R = n
    <3>1. i - 1 \in 0 .. R - 1
      BY <1>0
    <3>2. (n * R + (i - 1)) \div R = n
      BY <1>0, <1>4, <3>1, DivUnique
    <3>3. (first + i) - 1 = n * R + (i - 1)
      BY <1>4 DEF first
    <3>4. QED
      BY <3>2, <3>3
  <2>5. JobCell(first + i) \in DOMAIN mem
    BY <1>4, <2>1, <2>2 DEF Range
  <2>6. mem'[JobCell(first + i)] = MmValue(hw.acts, mem[hw.w[n + 1]], ((first + i) - 1) % R)
    BY <1>1, <2>2, <2>3, <2>5
  <2>7. Streamed(first + i) = MmValue(hw.acts, mem[hw.w[n + 1]], ((first + i) - 1) % R)
    BY <1>1, <2>4 DEF Streamed, R
  <2>8. QED
    BY <1>3, <2>1, <2>2, <2>6, <2>7
<1>7. \A x \in new : \E i \in 1 .. JobSize : x = JobCell(i)
  <2>1. SUFFICES ASSUME NEW i \in 1 .. R PROVE hw.to[first + i] = JobCell(first + i)
                                               /\ first + i \in 1 .. JobSize
    BY DEF new
  <2>2. QED
    BY <1>3, <1>6
<1>8. ASSUME NEW j \in 1 .. first PROVE JobCell(j) \notin new /\ JobCell(j) \in DOMAIN mem
  <2>1. j \in 1 .. JobSize
    BY <1>0, <1>4, <1>5
  <2>2. ASSUME NEW i \in 1 .. R PROVE hw.to[first + i] # JobCell(j)
    <3>1. first + i # j
      BY <1>0, <1>4
    <3>2. QED
      BY <1>0, <1>2, <1>3, <1>6, <2>1, <3>1, JobCells
  <2>3. JobCell(j) \in DOMAIN mem
    BY <1>3, <1>4, <2>1 DEF Range
  <2>4. QED
    BY <2>2, <2>3
<1>. HIDE DEF new
<1>9. \A x \in DOMAIN mem : x \notin new => mem'[x] = mem[x]
  BY <1>1
<1>10. ResultInv' /\ FrameInv'
  <2>1. /\ \A x \in new : x \in Unsettled \/ x \in BufCells
        /\ ActsBuf \notin new
        /\ Chunking => \A j \in 0 .. ChunkFirst(Op(lock)) - 1 : CellAt(Op(lock).dst, j) \notin new
    BY <1>0, <1>2, <1>7, JobCells
  <2>2. \A x \in new \cap TensorCells : x \in Unsettled /\ x \in Written(Ops)
    BY <1>0, <1>2, <2>1, UnsettledWritten, BufferApart
  <2>3. TensorCells \subseteq DOMAIN mem /\ ActsBuf \in DOMAIN mem
    BY <1>0 DEF MemInv, Cells, BufCells
  <2>4. Chunking => \A j \in 0 .. ChunkFirst(Op(lock)) - 1 : CellAt(Op(lock).dst, j) \in DOMAIN mem
    <3>1. SUFFICES ASSUME Chunking, NEW j \in 0 .. ChunkFirst(Op(lock)) - 1
                   PROVE  CellAt(Op(lock).dst, j) \in TensorCells
      BY <2>3
    <3>. DEFINE op == Op(lock)
    <3>2. /\ ChunkFirst(op) \in Nat /\ ChunkRows(op) \in Nat
          /\ ChunkFirst(op) + ChunkRows(op) <= op.dst.n
      BY <1>0, <1>2, <3>1, ChunkCells
    <3>3. op.dst.n \in Nat /\ CellsOf(op.dst) \subseteq TensorCells
      BY <1>0, <1>2, <3>1, ChunkFacts
    <3>4. j \in 0 .. op.dst.n - 1
      BY <3>1, <3>2, <3>3
    <3>5. QED
      BY <3>3, <3>4 DEF CellsOf
  <2>5. /\ \A x \in TensorCells \ Unsettled : mem'[x] = mem[x]
        /\ \A x \in TensorCells \ Written(Ops) : mem'[x] = mem[x]
        /\ mem'[ActsBuf] = mem[ActsBuf]
        /\ Chunking => \A j \in 0 .. ChunkFirst(Op(lock)) - 1 :
             mem'[CellAt(Op(lock).dst, j)] = mem[CellAt(Op(lock).dst, j)]
    BY <1>9, <2>1, <2>2, <2>3, <2>4
  <2>6. QED
    BY <1>1, <1>2, <2>5, ResultsStay
<1>11. /\ Ops' = Ops /\ Working' = Working /\ JobSize' = JobSize
       /\ \A i : JobCell(i)' = JobCell(i)
       /\ \A i : JobValue(i)' = JobValue(i)
  BY <1>1, JobStays DEF Working
<1>12. \A j \in 1 .. first + R : mem'[JobCell(j)] = JobValue(j)
  <2>1. SUFFICES ASSUME NEW j \in 1 .. first + R PROVE mem'[JobCell(j)] = JobValue(j)
    OBVIOUS
  <2>2. CASE j <= first
    BY <1>3, <1>4, <1>8, <1>9, <2>2
  <2>3. CASE ~(j <= first)
    <3>1. j - first \in 1 .. R /\ first + (j - first) = j
      BY <1>0, <1>4, <2>3
    <3>2. QED
      BY <1>6, <3>1
  <2>4. QED
    BY <2>2, <2>3
<1>13. CASE n + 1 = L
  <2>1. hw'.state = "idle"
    BY <1>1, <1>13, NoChunkType
  <2>2. ~Running'
    BY <2>1 DEF Running
  <2>3. JobInv'
    BY <1>5, <1>11, <1>12, <1>13, <2>1, <2>2 DEF JobInv
  <2>4. QED
    BY <1>10, <2>2, <2>3 DEF WeightsInv, ValuesInv
<1>14. CASE n + 1 # L
  <2>1. /\ hw'.state = "stream" /\ hw'.acts = hw.acts /\ hw'.w = hw.w /\ hw'.to = hw.to
        /\ hw'.done = n + 1
    <3>1. hw' = [hw EXCEPT !.done = @ + 1] /\ hw.state = "stream"
      BY <1>1, <1>14
    <3>2. DOMAIN hw = {"state", "acts", "w", "to", "done"}
      BY <1>0 DEF HwInv
    <3>3. QED
      BY ONLY <3>1, <3>2 DEF n
  <2>2. Running'
    BY <2>1 DEF Running
  <2>3. ASSUME NEW i \in 1 .. JobSize PROVE Streamed(i)' = Streamed(i)
    <3>. DEFINE b == (i - 1) \div R
    <3>1. i - 1 \in 0 .. L * R - 1
      BY <1>4
    <3>2. b \in 0 .. L - 1
      BY <1>0, <1>4, <3>1, DivBound
    <3>3. b + 1 \in 1 .. L
      BY <1>4, <3>2
    <3>4. hw.w[b + 1] \in TensorCells /\ \A j \in 1 .. JobSize : JobCell(j) # hw.w[b + 1]
      BY <1>1, <3>3, WeightsApart DEF L
    <3>5. hw.w[b + 1] \in DOMAIN mem /\ hw.w[b + 1] \notin new
      BY <1>0, <1>7, <3>4 DEF MemInv, Cells
    <3>6. mem'[hw.w[b + 1]] = mem[hw.w[b + 1]]
      BY <1>9, <3>5
    <3>7. QED
      BY <1>1, <2>1, <3>6 DEF Streamed, R
  <2>4. n + 1 < L
    BY <1>3, <1>4, <1>14
  <2>5. JobInv'
    <3>1. \A i \in 1 .. hw'.done * ROWS_PER_BLOCK : mem'[JobCell(i)'] = JobValue(i)'
      BY <1>5, <1>11, <1>12, <2>1 DEF R
    <3>2. \A i \in 1 .. JobSize : JobValue(i)' = Streamed(i)'
      BY <1>3, <1>11, <2>3
    <3>3. Len(hw'.to) = JobSize' /\ \A i \in 1 .. JobSize' : hw'.to[i] = JobCell(i)'
      BY <1>3, <1>11, <2>1
    <3>4. hw'.done < Len(hw'.w)
      BY <2>1, <2>4 DEF L
    <3>5. QED
      BY <1>11, <2>1, <3>1, <3>2, <3>3, <3>4 DEF JobInv
  <2>6. WeightsInv'
    BY <1>0, <1>1, <1>11, <2>1 DEF WeightsInv
  <2>7. QED
    BY <1>10, <2>5, <2>6 DEF ValuesInv
<1>15. QED
  BY <1>13, <1>14
-----------------------------------------------------------------------------
(* The server's steps. *)

LEMMA UnchangedStep ==
  ASSUME DaemonInv, UNCHANGED <<lock, script, before, graph, mem, hw>>
  PROVE  ValuesInv'
<1>1. ResultInv' /\ FrameInv'
  BY ResultsStay
<1>2. /\ Ops' = Ops /\ Working' = Working /\ JobSize' = JobSize
      /\ \A i : JobCell(i)' = JobCell(i)
      /\ \A i : JobValue(i)' = JobValue(i)
  BY JobStays DEF Working
<1>3. (\A i : Streamed(i)' = Streamed(i)) /\ Running' = Running
  BY DEF Streamed, Running
<1>4. JobInv'
  BY <1>2, <1>3 DEF DaemonInv, ValuesInv, JobInv
<1>5. WeightsInv'
  BY <1>2, <1>3 DEF DaemonInv, ValuesInv, WeightsInv
<1>6. QED
  BY <1>1, <1>4, <1>5 DEF ValuesInv

\* A request that ends leaves nothing running, and nothing to be said.
LEMMA EndStep ==
  ASSUME DaemonInv, AllDrained, NEW c \in Clients, Serve(c), NEW answer, Ending(c, answer)
  PROVE  ValuesInv'
<1>1. lock' = NoClient /\ hw' = hw
  BY DEF Ending, Respond
<1>2. ~Running
  BY <1>1, EndStopped DEF DaemonInv, ValuesInv
<1>3. ~Running' /\ ~Serving' /\ lock' \notin Clients
  BY <1>1, <1>2, ScriptAssumption DEF Running, Serving
<1>4. ResultInv'
  BY <1>3 DEF ResultInv, WalkedInv, CellsInv, DoneInv, ReadInv, PackInv, FreshInv
<1>5. JobInv' /\ WeightsInv' /\ FrameInv'
  BY <1>3 DEF JobInv, Working, WeightsInv, FrameInv
<1>6. QED
  BY <1>4, <1>5 DEF ValuesInv

\* Before its first chunk nothing of a result is done.
LEMMA FirstResult ==
  ASSUME NEW op, WellFormed(op), op.kind = "mm", NEW g, g.rb = 0, g.col = 0
  PROVE  g.col * op.rows + g.rb * ROWS_PER_BLOCK = 0
<1>1. op.rows \in Nat
  BY DEF WellFormed, Works, MmShape
<1>2. 0 * op.rows + 0 * ROWS_PER_BLOCK = 0
  BY <1>1, RowsAssumption
<1>3. QED
  BY <1>2

LEMMA AcquireStep ==
  ASSUME DaemonInv, NEW c \in Clients, Acquire(c)
  PROVE  ValuesInv'
<1>0. ScheduleInv /\ ServerInv /\ RunInv
  BY DEF DaemonInv, ValuesInv, ScheduleInv, TypeInv, Types
<1>1. /\ thread[c] = "waiting" /\ lock = NoClient /\ lock' = c /\ script' = script
      /\ before' = [x \in TensorCells |-> mem[x]] /\ graph' = NewGraph
      /\ mem' = mem /\ hw' = hw
  BY DEF Acquire
<1>2. /\ graph'.at = 1 /\ graph'.step = "op" /\ graph'.rb = 0 /\ graph'.col = 0
      /\ graph'.in_flight = NoTensor
  BY <1>1 DEF NewGraph
<1>3. ~Running'
  BY <1>0, <1>1, ScriptAssumption DEF RunInv, Serving, Running
<1>4. ~InFlight'
  BY <1>2 DEF InFlight
<1>5. JobInv' /\ WeightsInv' /\ FreshInv' /\ ReadInv'
  BY <1>2, <1>3, <1>4 DEF JobInv, Working, WeightsInv, FreshInv, ReadInv
<1>6. FrameInv'
  BY <1>1 DEF FrameInv
<1>7. WalkedInv' /\ PackInv'
  BY <1>2 DEF WalkedInv, PackInv
<1>8. Serving' => /\ Len(Ops') \in Nat /\ DOMAIN Ops' = 1 .. Len(Ops')
                  /\ \A k \in 1 .. Len(Ops') : WellFormed(Ops'[k])
  <2>1. Serving' => Ops' \in GraphsOf
    <3>1. Request(lock)' = Request(c) /\ thread[c] # "idle"
      BY <1>1 DEF Request
    <3>2. QED
      BY <1>0, <3>1, RequestType DEF Serving, Ops
  <2>2. QED
    BY <2>1, OpsType
<1>9. Serving' => Model' = before'
  <2>1. SUFFICES ASSUME Serving' PROVE Model' = before'
    OBVIOUS
  <2>2. Model' = After(before', Ops')[graph'.at - 1] /\ graph'.at - 1 = 0
    BY <1>2 DEF Model
  <2>3. After(before', Ops')[0] = before'
    BY <1>8, <2>1, AfterSteps
  <2>4. QED
    BY <2>2, <2>3
<1>10. CellsInv'
  BY <1>1, <1>9 DEF CellsInv
<1>11. DoneInv'
  <2>1. SUFFICES ASSUME Serving', Chunking' PROVE ChunkFirst(Op(lock))' = 0
    BY DEF DoneInv
  <2>2. Op(lock)' = Ops'[1] /\ 1 <= Len(Ops') /\ Op(lock)'.kind = "mm"
    BY <1>2, <2>1 DEF Chunking, Op, Ops, Chunked
  <2>3. WellFormed(Op(lock)')
    BY <1>8, <2>1, <2>2
  <2>4. graph'.col * Op(lock)'.rows + graph'.rb * ROWS_PER_BLOCK = 0
    BY <1>2, <2>2, <2>3, FirstResult
  <2>5. QED
    BY <2>4 DEF ChunkFirst
<1>12. QED
  BY <1>5, <1>6, <1>7, <1>10, <1>11 DEF ValuesInv, ResultInv
-----------------------------------------------------------------------------
(* run_graph's steps. *)

\* When no result is unsettled the tensors are as in Model.
LEMMA Settled ==
  ASSUME DaemonInv, Serving, ~Chunking, InFlight => hw.state = "idle"
  PROVE  \A x \in TensorCells : mem[x] = Model[x]
<1>0. ScheduleInv /\ CellsInv /\ JobInv
  BY DEF DaemonInv, ValuesInv, ResultInv
<1>1. SUFFICES ASSUME NEW x \in Unsettled PROVE mem[x] = Model[x]
  BY <1>0 DEF CellsInv
<1>2. InFlight /\ x \in CellsOf(graph.in_flight)
  BY <1>1 DEF Unsettled
<1>3. PICK i \in 0 .. graph.in_flight.n - 1 : x = CellAt(graph.in_flight, i)
  BY <1>2 DEF CellsOf
<1>4. graph.in_flight.n \in Nat
  BY <1>0, <1>2, FlightFacts
<1>5. i + 1 \in 1 .. graph.in_flight.n /\ (i + 1) - 1 = i
  BY <1>3, <1>4
<1>6. /\ JobSize = graph.in_flight.n /\ JobCell(i + 1) = CellAt(graph.in_flight, (i + 1) - 1)
      /\ JobValue(i + 1) = Model[CellAt(graph.in_flight, (i + 1) - 1)]
  BY <1>2 DEF JobSize, JobCell, JobValue
<1>7. mem[JobCell(i + 1)] = JobValue(i + 1)
  BY <1>0, <1>2, <1>5, <1>6 DEF JobInv, Working
<1>8. QED
  BY <1>3, <1>5, <1>6, <1>7

\* An op about to begin has nothing done and nothing packed.
LEMMA NothingDone ==
  ASSUME TypeInv, Serving, UNCHANGED <<lock, script, before>>, graph'.at \in Nat \ {0},
         graph'.rb = 0, graph'.col = 0, graph'.step # "wait"
  PROVE  DoneInv' /\ PackInv' /\ FreshInv'
<1>1. /\ Ops' = Ops /\ Len(Ops) \in Nat /\ \A k \in 1 .. Len(Ops) : WellFormed(Ops[k])
  BY ServingOps, ModelStays
<1>2. PackInv' /\ FreshInv'
  BY DEF PackInv, FreshInv
<1>3. DoneInv'
  <2>1. SUFFICES ASSUME Serving', Chunking' PROVE ChunkFirst(Op(lock))' = 0
    BY DEF DoneInv
  <2>2. Op(lock)' = Ops[graph'.at] /\ graph'.at <= Len(Ops) /\ Op(lock)'.kind = "mm"
    BY <1>1, <2>1 DEF Chunking, Op, Ops, Chunked
  <2>3. WellFormed(Op(lock)')
    BY <1>1, <2>1, <2>2
  <2>4. graph'.col * Op(lock)'.rows + graph'.rb * ROWS_PER_BLOCK = 0
    BY <2>2, <2>3, FirstResult
  <2>5. QED
    BY <2>4 DEF ChunkFirst
<1>4. QED
  BY <1>2, <1>3

\* The wait for the matmul in flight settles its result.
LEMMA BarrierStep ==
  ASSUME DaemonInv, NEW c \in Clients, Barrier(c), UNCHANGED server
  PROVE  ValuesInv'
<1>0. ScheduleInv /\ TypeInv /\ ServerInv /\ GraphType /\ ResultInv /\ FrameInv
  BY DEF DaemonInv, ValuesInv, ScheduleInv, TypeInv, Types
<1>1. /\ UNCHANGED <<lock, script, before>> /\ Holds(c, "graph") /\ graph.step = "op" /\ InFlight
      /\ ~Running
  BY DEF Barrier, AtOp, InGraph, MustWait, server
<1>2. lock = c /\ Serving
  BY <1>0, <1>1, HolderServes
<1>3. /\ hw.state = "idle" /\ mem' = mem /\ hw' = hw
      /\ graph' = [graph EXCEPT !.in_flight = NoTensor]
  <2>1. ~Error(c)
    <3>1. Error(c) => lock' = NoClient
      BY DEF Error, Respond
    <3>2. QED
      BY <1>1, <1>2, <3>1, ScriptAssumption
  <2>2. QED
    BY <2>1 DEF Barrier
<1>4. /\ graph'.at = graph.at /\ graph'.step = "op" /\ graph'.rb = 0 /\ graph'.col = 0
      /\ graph'.in_flight = NoTensor
  <2>1. graph.rb = 0 /\ graph.col = 0
    BY <1>0, <1>1, <1>2 DEF ResultInv, FreshInv
  <2>2. QED
    BY <1>0, <1>1, <1>3, <2>1 DEF GraphType
<1>5. ~Running' /\ ~InFlight'
  BY <1>1, <1>3, <1>4 DEF Running, InFlight
<1>6. /\ Ops' = Ops /\ Model' = Model /\ Serving'
  BY <1>1, <1>2, <1>4, ModelStays
<1>7. ~Chunking
  BY <1>1 DEF Chunking
<1>8. \A x \in TensorCells : mem[x] = Model[x]
  BY <1>2, <1>3, <1>7, Settled
<1>9. CellsInv' /\ WalkedInv' /\ ReadInv'
  BY <1>0, <1>2, <1>3, <1>4, <1>6, <1>8 DEF CellsInv, WalkedInv, ReadInv, ResultInv
<1>10. DoneInv' /\ PackInv' /\ FreshInv'
  BY <1>0, <1>1, <1>2, <1>4, NothingDone DEF GraphType
<1>11. JobInv' /\ WeightsInv'
  BY <1>4, <1>5 DEF JobInv, Working, WeightsInv
<1>12. FrameInv'
  BY <1>0, <1>1, <1>2, <1>3, <1>6 DEF FrameInv
<1>13. QED
  BY <1>9, <1>10, <1>11, <1>12 DEF ValuesInv, ResultInv

\* The op about to be read, or read, stays clear of the result in flight.
LEMMA PsApart ==
  ASSUME ScheduleInv, Serving, graph.step = "ps"
  PROVE  /\ graph.at \in 1 .. Len(Ops) /\ WellFormed(Op(lock)) /\ Works(Op(lock))
         /\ Op(lock).kind = "ps" /\ ~Chunking /\ graph.rb = 0 /\ graph.col = 0
         /\ InFlight => Apart(Op(lock), graph.in_flight)
<1>0. TypeInv /\ PositionInv /\ FlightInv
  BY DEF ScheduleInv, TypeInv
<1>1. /\ Len(Ops) \in Nat /\ graph.at \in 1 .. Len(Ops) + 1 /\ Op(lock) = Ops[graph.at]
      /\ \A k \in 1 .. Len(Ops) : WellFormed(Ops[k])
  BY <1>0, ServingOps
<1>2. graph.at <= Len(Ops) /\ Op(lock).kind = "ps"
  BY <1>0 DEF PositionInv, Ops
<1>3. graph.at \in 1 .. Len(Ops)
  BY <1>1, <1>2
<1>4. ~Chunked(Op(lock))
  BY <1>2 DEF Chunked
<1>5. graph.rb = 0 /\ graph.col = 0 /\ ~Chunking
  BY <1>0, <1>4 DEF PositionInv, Chunking
<1>6. ASSUME InFlight PROVE Apart(Op(lock), graph.in_flight)
  <2>1. PICK i \in 1 .. graph.at - 1 : Flying(Ops, i, graph.at, graph.in_flight)
    BY <1>0, <1>6 DEF FlightInv, Reached, Ops
  <2>2. graph.at \in i + 1 .. graph.at
    BY <1>3, <2>1
  <2>3. QED
    BY <1>1, <2>1, <2>2 DEF Flying
<1>7. QED
  BY <1>1, <1>2, <1>3, <1>5, <1>6 DEF Works

LEMMA PsReadStep ==
  ASSUME DaemonInv, ScheduleInv', NEW c \in Clients, PsRead(c)
  PROVE  ValuesInv'
<1>. DEFINE op == Op(lock)
<1>0. /\ ScheduleInv /\ TypeInv /\ ServerInv /\ GraphType /\ ResultInv /\ FrameInv /\ JobInv
      /\ WeightsInv
  BY DEF DaemonInv, ValuesInv, ScheduleInv, TypeInv, Types
<1>1. /\ UNCHANGED <<lock, script, before>> /\ Holds(c, "graph") /\ graph.step = "op"
      /\ graph' = [graph EXCEPT !.step = "ps", !.vals = Inputs(mem, Op(c))]
      /\ mem' = mem /\ hw' = hw
  BY DEF PsRead, Ready, AtOp, InGraph, server
<1>2. lock = c /\ Serving
  BY <1>0, <1>1, HolderServes
<1>3. /\ graph'.at = graph.at /\ graph'.step = "ps" /\ graph'.rb = graph.rb
      /\ graph'.col = graph.col /\ graph'.in_flight = graph.in_flight
      /\ graph'.vals = Inputs(mem, op)
  BY <1>0, <1>1, <1>2 DEF GraphType
<1>4. /\ Ops' = Ops /\ Model' = Model /\ Op(lock)' = op /\ lock' = lock
      /\ Serving' /\ InFlight' = InFlight
      /\ Chunking' = Chunking /\ Unsettled' = Unsettled
      /\ JobSize' = JobSize
      /\ \A i : JobCell(i)' = JobCell(i)
      /\ \A i : JobValue(i)' = JobValue(i)
  BY <1>1, <1>2, <1>3, JobStays
<1>5. /\ WellFormed(op) /\ Works(op) /\ graph.rb = 0 /\ graph.col = 0 /\ ~Chunking
      /\ InFlight => \A t \in Tensors(op) : ~Overlap(t, graph.in_flight)
  <2>1. graph.at <= Len(Ops) /\ op.kind = "ps"
    BY <1>2 DEF PsRead, Ready, AtOp, Ops
  <2>2. WellFormed(op) /\ Works(op)
    BY <1>0, <1>1, <1>2, <2>1, CurrentOp DEF Works, Ops
  <2>3. ~Chunked(op)
    BY <2>1 DEF Chunked
  <2>4. graph.rb = 0 /\ graph.col = 0 /\ ~Chunking
    BY <1>0, <1>2, <2>3 DEF TypeInv, PositionInv, Chunking
  <2>5. ASSUME InFlight PROVE Apart(op, graph.in_flight)
    <3>1. FlightInv' /\ Serving' /\ InFlight' /\ Reached' = graph.at /\ Request(lock)'.ops = Ops
      BY <1>3, <1>4, <2>5 DEF ScheduleInv, Reached, Ops
    <3>2. PICK i \in 1 .. graph.at - 1 : Flying(Ops, i, graph.at, graph.in_flight)
      BY <1>3, <3>1 DEF FlightInv
    <3>3. graph.at \in i + 1 .. graph.at /\ op = Ops[graph.at]
      BY <1>0, <1>2, <3>2, ServingOps
    <3>4. QED
      BY <3>2, <3>3 DEF Flying
  <2>6. QED
    BY <2>2, <2>4, <2>5 DEF Apart
<1>6. ASSUME NEW k \in DOMAIN op.src, NEW i \in 0 .. op.src[k].n - 1
      PROVE  mem[CellAt(op.src[k], i)] = Model[CellAt(op.src[k], i)]
  <2>. DEFINE t == op.src[k]
              x == CellAt(t, i)
  <2>1. t \in Tensors(op)
    BY DEF Tensors, Range
  <2>2. x \in TensorCells /\ x \in CellsOf(t)
    BY <1>5, <2>1, TensorType DEF CellsOf
  <2>3. x \notin Unsettled
    BY <1>5, <2>1, <2>2 DEF Unsettled, Overlap
  <2>4. QED
    BY <1>0, <1>2, <2>2, <2>3 DEF ResultInv, CellsInv
<1>7. Inputs(mem, op) = Inputs(Model, op)
  <2>1. \A k \in DOMAIN op.src : Vals(mem, op.src[k]) = Vals(Model, op.src[k])
    BY <1>6 DEF Vals
  <2>2. QED
    BY <2>1 DEF Inputs
<1>8. ReadInv'
  BY <1>3, <1>4, <1>7 DEF ReadInv
<1>9. CellsInv' /\ WalkedInv'
  BY <1>0, <1>1, <1>2, <1>3, <1>4 DEF CellsInv, WalkedInv, ResultInv
<1>10. DoneInv' /\ PackInv' /\ FreshInv'
  BY <1>0, <1>1, <1>2, <1>3, <1>5, NothingDone DEF GraphType
<1>11. JobInv'
  <2>1. (\A i : Streamed(i)' = Streamed(i)) /\ Running' = Running
    BY <1>1 DEF Streamed, Running
  <2>2. Working' => Working
    BY <1>2, <1>3, <1>4 DEF Working
  <2>3. QED
    BY <1>0, <1>1, <1>4, <2>1, <2>2 DEF JobInv
<1>12. WeightsInv'
  BY <1>0, <1>1, <1>4 DEF WeightsInv, Running
<1>13. FrameInv'
  BY <1>0, <1>1, <1>2, <1>4 DEF FrameInv
<1>14. QED
  BY <1>8, <1>9, <1>10, <1>11, <1>12, <1>13 DEF ValuesInv, ResultInv

\* The op passed is one that works.
LEMMA WalkedAdvances ==
  ASSUME TypeInv, WalkedInv, Serving, UNCHANGED <<lock, script, before>>,
         Works(Op(lock)), graph'.at = graph.at + 1
  PROVE  WalkedInv'
<1>1. \A k \in 1 .. graph.at - 1 : Works(Ops[k])
  BY DEF WalkedInv
<1>2. graph.at \in Nat /\ Works(Ops[graph.at])
  BY ServingOps
<1>3. \A k \in 1 .. graph'.at - 1 : k \in 1 .. graph.at - 1 \/ k = graph.at
  BY <1>2
<1>4. Ops' = Ops
  BY ModelStays
<1>5. QED
  BY <1>1, <1>2, <1>3, <1>4 DEF WalkedInv

LEMMA PsWriteStep ==
  ASSUME DaemonInv, NEW c \in Clients, PsWrite(c)
  PROVE  ValuesInv'
<1>. DEFINE op == Op(lock)
            dst == op.dst
            f == PsResult(Inputs(Model, op), op)
<1>0. /\ ScheduleInv /\ TypeInv /\ ServerInv /\ GraphType /\ ResultInv /\ FrameInv /\ JobInv
      /\ WeightsInv /\ MemInv
  BY DEF DaemonInv, ValuesInv, ScheduleInv, TypeInv, Types
<1>1. /\ UNCHANGED <<lock, script, before>> /\ Holds(c, "graph") /\ graph.step = "ps"
      /\ graph' = [graph EXCEPT !.step = "op", !.vals = <<>>, !.at = @ + 1]
      /\ mem' = Put(mem, Op(c).dst, PsResult(graph.vals, Op(c))) /\ hw' = hw
  BY DEF PsWrite, InGraph, server
<1>2. lock = c /\ Serving
  BY <1>0, <1>1, HolderServes
<1>3. /\ graph'.at = graph.at + 1 /\ graph'.step = "op" /\ graph'.rb = graph.rb
      /\ graph'.col = graph.col /\ graph'.in_flight = graph.in_flight
  BY <1>0, <1>1 DEF GraphType
<1>4. /\ graph.at \in 1 .. Len(Ops) /\ WellFormed(op) /\ Works(op)
      /\ op.kind = "ps" /\ ~Chunking /\ graph.rb = 0 /\ graph.col = 0
      /\ InFlight => Apart(op, graph.in_flight)
  BY <1>0, <1>1, <1>2, PsApart
<1>5. Ops' = Ops /\ Serving' /\ InFlight' = InFlight
  BY <1>1, <1>2, <1>3, ModelStays DEF InFlight
<1>6. Model' = Put(Model, dst, f)
  <2>1. graph.at <= Len(Ops)
    BY <1>0, <1>2, <1>4, ServingOps
  <2>2. Model' = OpEffect(Model, op)
    BY <1>0, <1>1, <1>2, <1>3, <2>1, ModelAdvances
  <2>3. QED
    BY <1>4, <2>2 DEF OpEffect
<1>7. mem' = Put(mem, dst, f)
  BY <1>0, <1>1, <1>2 DEF ResultInv, ReadInv
<1>8. DOMAIN Model = TensorCells /\ TensorCells \subseteq DOMAIN mem /\ ActsBuf \in DOMAIN mem
  BY <1>0, <1>2, ModelDomain DEF MemInv, Cells, BufCells
<1>9. CellsOf(dst) \subseteq TensorCells /\ CellsOf(dst) \subseteq Written(Ops)
  BY <1>0, <1>2, <1>4, ResultWritten, ServingOps
<1>. HIDE DEF f, dst, op
<1>10. /\ \A x \in CellsOf(dst) : mem'[x] = Model'[x]
       /\ \A x \in TensorCells : x \notin CellsOf(dst) => mem'[x] = mem[x] /\ Model'[x] = Model[x]
       /\ \A x \in DOMAIN mem : x \notin CellsOf(dst) => mem'[x] = mem[x]
  BY <1>6, <1>7, <1>8, <1>9 DEF Put
<1>11. CellsInv'
  <2>1. SUFFICES ASSUME NEW x \in TensorCells \ Unsettled', x \notin CellsOf(dst)
                 PROVE  mem[x] = Model[x]
    BY <1>10 DEF CellsInv
  <2>2. x \notin Unsettled
    BY <1>3, <1>4, <1>5, <2>1 DEF Unsettled
  <2>3. QED
    BY <1>0, <1>2, <2>1, <2>2 DEF ResultInv, CellsInv
<1>12. WalkedInv'
  BY <1>0, <1>1, <1>2, <1>3, <1>4, WalkedAdvances DEF ResultInv, op
<1>13. DoneInv' /\ PackInv' /\ FreshInv' /\ ReadInv'
  <2>1. graph'.at \in Nat \ {0} /\ graph'.rb = 0 /\ graph'.col = 0 /\ graph'.step # "wait"
    BY <1>3, <1>4
  <2>2. QED
    BY <1>0, <1>1, <1>2, <1>3, <2>1, NothingDone DEF ReadInv
<1>14. JobInv'
  <2>1. SUFFICES ASSUME InFlight PROVE JobInv'
    BY <1>3, <1>5 DEF JobInv, Working
  <2>. DEFINE d == graph.in_flight
  <2>2. d.n \in Nat /\ CellsOf(d) \subseteq TensorCells
    BY <1>0, <1>2, <2>1, FlightFacts
  <2>3. CellsOf(d) \cap CellsOf(dst) = {}
    BY <1>4, <2>1 DEF Apart, Overlap, Tensors, dst
  <2>4. /\ JobSize = d.n /\ JobSize' = d.n
        /\ \A i : JobCell(i) = CellAt(d, i - 1) /\ JobCell(i)' = CellAt(d, i - 1)
        /\ \A i : JobValue(i) = Model[CellAt(d, i - 1)] /\ JobValue(i)' = Model'[CellAt(d, i - 1)]
    BY <1>3, <1>5, <2>1 DEF JobSize, JobCell, JobValue
  <2>5. \A i \in 1 .. d.n : CellAt(d, i - 1) \in CellsOf(d)
    BY <2>2 DEF CellsOf
  <2>6. \A i \in 1 .. d.n : mem'[JobCell(i)'] = mem[JobCell(i)] /\ JobValue(i)' = JobValue(i)
    BY <1>10, <2>2, <2>3, <2>4, <2>5
  <2>7. Working /\ Working'
    BY <1>2, <1>5, <2>1 DEF Working
  <2>8. CASE Running
    <3>1. /\ Len(hw.to) = JobSize /\ \A i \in 1 .. JobSize : hw.to[i] = JobCell(i)
          /\ hw.done < Len(hw.w) /\ (hw.state = "load" => hw.done = 0)
          /\ \A i \in 1 .. JobSize : JobValue(i) = Streamed(i)
          /\ \A i \in 1 .. hw.done * ROWS_PER_BLOCK : mem[JobCell(i)] = JobValue(i)
      BY <1>0, <2>7, <2>8 DEF JobInv
    <3>2. HwInv /\ ROWS_PER_BLOCK \in Nat \ {0}
      BY <1>0, RowsAssumption DEF TypeInv, Types
    <3>3. mem'[ActsBuf] = mem[ActsBuf]
      <4>1. ActsBuf \in BufCells
        BY DEF BufCells
      <4>2. QED
        BY <1>8, <1>9, <1>10, <4>1, BufferApart
    <3>4. ASSUME NEW i \in 1 .. JobSize PROVE Streamed(i)' = Streamed(i)
      <4>. DEFINE R == ROWS_PER_BLOCK
                  L == Len(hw.w)
                  b == (i - 1) \div R
      <4>1. L \in Nat /\ JobSize = L * R /\ JobSize \in Nat
        BY <2>2, <2>4, <3>1, <3>2 DEF HwInv
      <4>2. i - 1 \in 0 .. L * R - 1
        BY <4>1
      <4>3. b \in 0 .. L - 1
        BY <3>2, <4>1, <4>2, DivBound
      <4>4. b + 1 \in 1 .. L
        BY <4>1, <4>3
      <4>5. hw.w[b + 1] \in TensorCells /\ hw.w[b + 1] \notin Written(Ops)
        BY <2>8, <4>4, WeightsApart
      <4>6. mem'[hw.w[b + 1]] = mem[hw.w[b + 1]]
        BY <1>9, <1>10, <4>5
      <4>7. QED
        BY <1>1, <3>3, <4>6 DEF Streamed
    <3>5. \A i \in 1 .. hw.done * ROWS_PER_BLOCK : i \in 1 .. JobSize
      <4>. DEFINE a == hw.done * ROWS_PER_BLOCK
      <4>1. a \in Nat /\ JobSize \in Nat /\ a <= JobSize
        <5>1. \A x, y, z \in Nat : x <= y => x * z <= y * z
          OBVIOUS
        <5>2. hw.done \in Nat /\ Len(hw.w) \in Nat /\ JobSize = Len(hw.w) * ROWS_PER_BLOCK
          BY <3>1, <3>2 DEF HwInv
        <5>3. hw.done <= Len(hw.w)
          BY <3>1, <5>2
        <5>4. QED
          BY <2>2, <2>4, <3>2, <5>1, <5>2, <5>3
      <4>. HIDE DEF a
      <4>2. \A i \in 1 .. a : i \in 1 .. JobSize
        BY <4>1
      <4>3. QED
        BY <4>2 DEF a
    <3>6. \A i \in 1 .. hw.done * ROWS_PER_BLOCK : mem'[JobCell(i)'] = JobValue(i)'
      BY <2>4, <2>6, <3>1, <3>5
    <3>7. \A i \in 1 .. JobSize' : JobValue(i)' = Streamed(i)'
      BY <2>4, <2>6, <3>1, <3>4
    <3>8. /\ Len(hw'.to) = JobSize' /\ \A i \in 1 .. JobSize' : hw'.to[i] = JobCell(i)'
          /\ hw'.done < Len(hw'.w) /\ (hw'.state = "load" => hw'.done = 0)
      BY <1>1, <2>4, <3>1
    <3>9. hw'.state # "idle"
      BY <1>1, <2>8 DEF Running
    <3>10. QED
      BY <1>1, <3>6, <3>7, <3>8, <3>9 DEF JobInv
  <2>9. CASE ~Running
    <3>1. ~Running' /\ hw' = hw
      BY <1>1, <2>9 DEF Running
    <3>2. hw.state = "idle" => \A i \in 1 .. JobSize : mem[JobCell(i)] = JobValue(i)
      BY <1>0, <2>7 DEF JobInv
    <3>3. QED
      BY <2>4, <2>6, <3>1, <3>2 DEF JobInv
  <2>10. QED
    BY <2>8, <2>9
<1>15. WeightsInv'
  BY <1>0, <1>1, <1>5 DEF WeightsInv, Running
<1>16. FrameInv'
  BY <1>0, <1>1, <1>2, <1>5, <1>9, <1>10 DEF FrameInv
<1>17. QED
  BY <1>11, <1>12, <1>13, <1>14, <1>15, <1>16 DEF ValuesInv, ResultInv

\* What a start tells the engines and the kernel.
LEMMA StartFacts ==
  ASSUME hw.state = "idle", NEW op, Start(op), NEW k, k = ChunkBlocks(op), k \in Nat
  PROVE  /\ hw'.state = "load" /\ hw'.done = 0 /\ Running'
         /\ DOMAIN hw'.w = 1 .. k /\ Len(hw'.w) = k
         /\ \A b \in 1 .. k : hw'.w[b] = CellAt(op.src[1], graph.rb + b - 1)
         /\ hw'.to = ResultCells(op) /\ Len(hw'.to) = k * ROWS_PER_BLOCK
<1>. DEFINE w == [i \in 1 .. k |-> CellAt(op.src[1], graph.rb + i - 1)]
            m == k * ROWS_PER_BLOCK
<1>1. hw' = [state |-> "load", acts |-> hw.acts, w |-> w, to |-> ResultCells(op), done |-> 0]
  BY DEF Start
<1>2. hw'.state = "load" /\ hw'.done = 0 /\ hw'.w = w /\ hw'.to = ResultCells(op)
  BY <1>1
<1>3. DOMAIN w = 1 .. k /\ Len(w) = k
  <2>. DEFINE T == {w[i] : i \in 1 .. k}
  <2>1. \A i \in 1 .. k : w[i] \in T
    OBVIOUS
  <2>2. DOMAIN w = 1 .. k /\ w = [i \in 1 .. k |-> w[i]]
    OBVIOUS
  <2>. HIDE DEF w, T
  <2>3. w \in Seq(T)
    BY <2>1, <2>2
  <2>4. QED
    BY <2>2, <2>3
<1>4. Len(ResultCells(op)) = m
  <2>1. m \in Nat
    BY RowsAssumption
  <2>2. DOMAIN ResultCells(op) = 1 .. m
    BY DEF ResultCells
  <2>. HIDE DEF m
  <2>. DEFINE r == [i \in 1 .. m |-> ResultCells(op)[i]]
  <2>3. ResultCells(op) = r
    BY <2>2 DEF ResultCells
  <2>4. r \in Seq({r[i] : i \in 1 .. m})
    BY <2>1
  <2>5. Len(r) = m
    BY <2>1, <2>4
  <2>6. QED
    BY <2>3, <2>5
<1>5. QED
  BY <1>2, <1>3, <1>4 DEF Running

LEMMA PutAt ==
  ASSUME NEW m, NEW t, t.lo \in Nat, NEW f, NEW j \in 0 .. t.n - 1, CellAt(t, j) \in DOMAIN m
  PROVE  Put(m, t, f)[CellAt(t, j)] = f[j]
<1>1. CellAt(t, j) \in CellsOf(t)
  BY DEF CellsOf
<1>2. CellAt(t, j)[2] - t.lo = j
  BY DEF CellAt
<1>3. QED
  BY <1>1, <1>2 DEF Put

\* Element (r, col) of a product.
LEMMA MmResultAt ==
  ASSUME NEW m, NEW op, MmShape(op), NEW col \in 0 .. op.cols - 1, NEW r \in 0 .. op.rows - 1
  PROVE  /\ col * op.rows + r \in 0 .. op.dst.n - 1
         /\ MmResult(m, op)[col * op.rows + r] =
              MmValue(m[CellAt(op.src[2], col)], m[CellAt(op.src[1], r \div ROWS_PER_BLOCK)],
                      r % ROWS_PER_BLOCK)
<1>. DEFINE rows == op.rows
            cols == op.cols
            j == col * rows + r
<1>1. rows \in Nat \ {0} /\ cols \in Nat \ {0} /\ op.dst.n = rows * cols
  BY DEF MmShape
<1>2. j \div rows = col /\ (j % rows) = r
  <2>1. col \in Nat /\ r \in 0 .. rows - 1
    BY <1>1
  <2>. HIDE DEF rows
  <2>2. (col * rows + r) \div rows = col /\ (col * rows + r) % rows = r
    BY <1>1, <2>1, DivUnique
  <2>3. QED
    BY <2>2
<1>3. j \in 0 .. op.dst.n - 1
  <2>. DEFINE a == col * rows
              n == rows * cols
  <2>1. a \in Nat /\ n \in Nat /\ op.dst.n = n /\ j = a + r
    BY <1>1
  <2>2. a + rows <= n
    <3>1. \A x, y, z \in Nat : x <= y => x * z <= y * z
      OBVIOUS
    <3>2. col + 1 <= cols /\ col + 1 \in Nat
      BY <1>1
    <3>3. (col + 1) * rows <= cols * rows
      BY <1>1, <3>1, <3>2
    <3>4. (col + 1) * rows = a + rows /\ cols * rows = n
      BY <1>1
    <3>5. QED
      BY <3>3, <3>4
  <2>. HIDE DEF a, n, j
  <2>3. QED
    BY <1>1, <2>1, <2>2
<1>4. MmResult(m, op)[j] = MmValue(m[CellAt(op.src[2], j \div rows)],
                                   m[CellAt(op.src[1], (j % rows) \div ROWS_PER_BLOCK)],
                                   (j % rows) % ROWS_PER_BLOCK)
  <2>. HIDE DEF j
  <2>1. QED
    BY <1>3 DEF MmResult
<1>5. QED
  BY <1>2, <1>3, <1>4

\* run_async's start: the PL is told to fill the whole result.
LEMMA IssueStep ==
  ASSUME DaemonInv, NEW c \in Clients, Issue(c)
  PROVE  ValuesInv'
<1>. DEFINE op == Op(lock)
            dst == op.dst
            f == MmResult(Model, op)
            R == ROWS_PER_BLOCK
            B == Rowblocks(op.rows)
<1>0. /\ ScheduleInv /\ TypeInv /\ ServerInv /\ GraphType /\ ResultInv /\ FrameInv /\ JobInv
      /\ WeightsInv /\ MemInv /\ RunInv
  BY DEF DaemonInv, ValuesInv, ScheduleInv, TypeInv, Types
<1>1. /\ UNCHANGED <<lock, script, before>> /\ Holds(c, "graph") /\ graph.step = "op" /\ ~InFlight
      /\ graph.at <= Len(Request(c).ops) /\ Op(c).kind = "mm" /\ Pipelined(Op(c))
      /\ mem' = PackActs(Op(c)) /\ Start(Op(c))
      /\ graph' = [graph EXCEPT !.at = @ + 1, !.in_flight = Op(c).dst]
  BY DEF Issue, Ready, AtOp, InGraph, server, MustWait
<1>2. lock = c /\ Serving
  BY <1>0, <1>1, HolderServes
<1>3. /\ graph'.at = graph.at + 1 /\ graph'.step = "op" /\ graph'.rb = graph.rb
      /\ graph'.col = graph.col /\ graph'.in_flight = dst
  BY <1>0, <1>1, <1>2 DEF GraphType
<1>4. /\ WellFormed(op) /\ Works(op) /\ MmShape(op) /\ graph.at \in 1 .. Len(Ops)
      /\ \A i \in 0 .. B - 1 : CellAt(op.src[1], i) \in TensorCells
      /\ \A i \in 0 .. op.cols - 1 : CellAt(op.src[2], i) \in TensorCells
      /\ \A k \in DOMAIN Ops : Works(Ops[k]) => op.src[1].h # Ops[k].dst.h
      /\ dst.lo \in Nat /\ dst.n \in Nat /\ op.kind = "mm"
      /\ CellsOf(dst) \subseteq TensorCells
      /\ CellsOf(dst) \subseteq Written(Ops)
  BY <1>0, <1>1, <1>2, MmFacts DEF Ops
<1>5. graph.rb = 0 /\ graph.col = 0
  BY <1>0, <1>1, <1>2, MmInside
<1>6. /\ R \in Nat \ {0} /\ B \in Nat \ {0} /\ op.rows \in Nat \ {0} /\ op.cols = 1 /\ B * R = op.rows
      /\ dst.n = op.rows /\ ChunkBlocks(op) = B
      /\ ResultCells(op) = [i \in 1 .. op.rows |-> CellAt(dst, 0 + i - 1)]
  <2>1. /\ op.rows \in Nat \ {0} /\ op.cols = 1 /\ dst.n = op.rows * op.cols
    BY <1>1, <1>2, <1>4 DEF MmShape, Pipelined
  <2>2. dst.n = op.rows
    BY <2>1
  <2>3. QED
    BY <1>0, <1>1, <1>2, <1>4, <1>5, <2>1, <2>2, PipelinedDirect, RowblocksBounds, RowsAssumption
<1>7. ~Chunking /\ ~Running
  BY <1>0, <1>1, <1>2 DEF Chunking, Chunked, RunInv
<1>8. \A x \in TensorCells : mem[x] = Model[x]
  BY <1>1, <1>2, <1>7, Settled
<1>9. /\ \A x \in TensorCells : mem'[x] = mem[x]
      /\ mem'[ActsBuf] = mem[CellAt(op.src[2], 0)]
  <2>1. mem' = [mem EXCEPT ![ActsBuf] = mem[CellAt(op.src[2], 0)]]
    BY <1>1, <1>2, <1>5 DEF PackActs
  <2>2. ActsBuf \in BufCells /\ ActsBuf \in DOMAIN mem /\ TensorCells \subseteq DOMAIN mem
    BY <1>0 DEF BufCells, MemInv, Cells
  <2>3. QED
    BY <2>1, <2>2, BufferApart
<1>10. Ops' = Ops /\ Serving' /\ lock' = lock
  BY <1>1, <1>2, ModelStays
<1>11. Model' = Put(Model, dst, f)
  <2>1. graph.at <= Len(Ops)
    BY <1>1, <1>2 DEF Ops
  <2>2. Model' = OpEffect(Model, op)
    BY <1>0, <1>1, <1>2, <1>3, <2>1, ModelAdvances
  <2>3. QED
    BY <1>4, <2>2 DEF OpEffect
<1>12. DOMAIN Model = TensorCells
  BY <1>0, <1>2, ModelDomain
<1>13. InFlight'
  <2>1. dst \in Tensors(op)
    BY DEF Tensors
  <2>2. dst # NoTensor
    BY <1>4, <2>1, TensorType
  <2>3. QED
    BY <1>3, <2>2 DEF InFlight
<1>14. CellsInv'
  <2>1. Unsettled' = CellsOf(dst)
    BY <1>3, <1>13 DEF Unsettled
  <2>2. \A x \in TensorCells \ CellsOf(dst) : Model'[x] = Model[x]
    BY <1>11, <1>12 DEF Put
  <2>3. QED
    BY <1>8, <1>9, <2>1, <2>2 DEF CellsInv
<1>15. WalkedInv'
  BY <1>0, <1>1, <1>2, <1>3, <1>4, WalkedAdvances DEF ResultInv
<1>16. DoneInv' /\ PackInv' /\ FreshInv' /\ ReadInv'
  <2>1. graph'.at \in Nat \ {0} /\ graph'.rb = 0 /\ graph'.col = 0 /\ graph'.step # "wait"
    BY <1>0, <1>3, <1>5 DEF GraphType
  <2>2. QED
    BY <1>0, <1>1, <1>2, <1>3, <2>1, NothingDone DEF ReadInv
<1>17. FrameInv'
  BY <1>0, <1>1, <1>2, <1>9, <1>10 DEF FrameInv
<1>18. CASE hw.state # "idle"
  <2>1. hw' = hw
    BY <1>1, <1>18 DEF Start
  <2>2. ~Running' /\ hw'.state # "idle"
    BY <1>7, <1>18, <2>1 DEF Running
  <2>3. QED
    BY <1>14, <1>15, <1>16, <1>17, <2>2 DEF ValuesInv, ResultInv, JobInv, WeightsInv
<1>19. CASE hw.state = "idle"
  <2>1. /\ hw'.state = "load" /\ hw'.done = 0 /\ Running'
        /\ DOMAIN hw'.w = 1 .. B /\ Len(hw'.w) = B
        /\ \A b \in 1 .. B : hw'.w[b] = CellAt(op.src[1], 0 + b - 1)
        /\ hw'.to = ResultCells(op) /\ Len(hw'.to) = op.rows
    <3>1. Start(op) /\ ChunkBlocks(op) \in Nat
      BY <1>1, <1>2, <1>6
    <3>2. /\ hw'.state = "load" /\ hw'.done = 0 /\ Running'
          /\ DOMAIN hw'.w = 1 .. ChunkBlocks(op) /\ Len(hw'.w) = ChunkBlocks(op)
          /\ \A b \in 1 .. ChunkBlocks(op) : hw'.w[b] = CellAt(op.src[1], graph.rb + b - 1)
          /\ hw'.to = ResultCells(op) /\ Len(hw'.to) = ChunkBlocks(op) * ROWS_PER_BLOCK
      BY <1>19, <3>1, StartFacts
    <3>3. QED
      BY <1>5, <1>6, <3>2
  <2>2. WeightsInv'
    <3>1. \A b \in 1 .. B : hw'.w[b][1] = op.src[1].h
      BY <2>1 DEF CellAt
    <3>2. QED
      BY <1>4, <1>10, <2>1, <3>1 DEF WeightsInv
  <2>3. /\ JobSize' = op.rows
        /\ \A i : JobCell(i)' = CellAt(dst, i - 1)
        /\ \A i : JobValue(i)' = Model'[CellAt(dst, i - 1)]
    BY <1>3, <1>6, <1>13 DEF JobSize, JobCell, JobValue
  <2>4. ASSUME NEW i \in 1 .. op.rows
        PROVE  hw'.to[i] = JobCell(i)' /\ JobValue(i)' = Streamed(i)'
    <3>. DEFINE b == (i - 1) \div R
    <3>1. i - 1 \in 0 .. op.rows - 1 /\ 0 + i - 1 = i - 1 /\ i - 1 \in 0 .. dst.n - 1
      BY <1>6
    <3>2. hw'.to[i] = JobCell(i)'
      BY <1>6, <2>1, <2>3, <3>1
    <3>3. b \in 0 .. B - 1 /\ b + 1 \in 1 .. B /\ 0 + (b + 1) - 1 = b
      <4>1. i - 1 \in 0 .. B * R - 1
        BY <1>6, <3>1
      <4>2. b \in 0 .. B - 1
        BY <1>6, <4>1, DivBound
      <4>3. QED
        BY <1>6, <4>2
    <3>4. f[i - 1] = MmValue(Model[CellAt(op.src[2], 0)], Model[CellAt(op.src[1], b)], (i - 1) % R)
      <4>1. 0 \in 0 .. op.cols - 1 /\ 0 * op.rows + (i - 1) = i - 1
        BY <1>6, <3>1
      <4>2. MmResult(Model, op)[0 * op.rows + (i - 1)] =
              MmValue(Model[CellAt(op.src[2], 0)], Model[CellAt(op.src[1], b)], (i - 1) % R)
        BY <1>4, <3>1, <4>1, MmResultAt
      <4>3. QED
        BY <4>1, <4>2
    <3>5. CellAt(dst, i - 1) \in TensorCells
      BY <1>4, <3>1 DEF CellsOf
    <3>6. Model'[CellAt(dst, i - 1)] = f[i - 1]
      BY <1>4, <1>11, <1>12, <3>1, <3>5, PutAt
    <3>7. Streamed(i)' = MmValue(mem'[ActsBuf], mem'[hw'.w[b + 1]], (i - 1) % R)
      <4>1. ActsBuf' = ActsBuf
        BY DEF ActsBuf
      <4>2. QED
        BY <2>1, <4>1 DEF Streamed
    <3>8. mem'[ActsBuf] = Model[CellAt(op.src[2], 0)]
      BY <1>4, <1>6, <1>8, <1>9
    <3>9. mem'[hw'.w[b + 1]] = Model[CellAt(op.src[1], b)]
      BY <1>4, <1>8, <1>9, <2>1, <3>3
    <3>10. QED
      BY <2>3, <3>2, <3>4, <3>6, <3>7, <3>8, <3>9
  <2>5. JobInv'
    <3>1. 0 * ROWS_PER_BLOCK = 0 /\ 0 < B
      BY <1>6
    <3>2. \A i \in 1 .. hw'.done * ROWS_PER_BLOCK : mem'[JobCell(i)'] = JobValue(i)'
      BY <2>1, <3>1
    <3>3. QED
      BY <2>1, <2>3, <2>4, <3>1, <3>2 DEF JobInv
  <2>6. QED
    BY <1>14, <1>15, <1>16, <1>17, <2>2, <2>5 DEF ValuesInv, ResultInv
<1>20. QED
  BY <1>18, <1>19

\* run's start of a chunk: the PL is told to fill the chunk's cells.
LEMMA StartChunkStep ==
  ASSUME DaemonInv, NEW c \in Clients, StartChunk(c)
  PROVE  ValuesInv'
<1>. DEFINE op == Op(lock)
            dst == op.dst
            col == graph.col
            R == ROWS_PER_BLOCK
            k == ChunkBlocks(op)
<1>0. /\ ScheduleInv /\ TypeInv /\ ServerInv /\ GraphType /\ ResultInv /\ FrameInv /\ JobInv
      /\ WeightsInv /\ MemInv /\ RunInv
  BY DEF DaemonInv, ValuesInv, ScheduleInv, TypeInv, Types
<1>1. /\ UNCHANGED <<lock, script, before>> /\ Holds(c, "graph") /\ graph.step = "op" /\ ~InFlight
      /\ graph.at <= Len(Request(c).ops) /\ Op(c).kind = "mm" /\ ~Pipelined(Op(c))
      /\ mem' = IF graph.rb = 0 THEN PackActs(Op(c)) ELSE mem
      /\ Start(Op(c)) /\ graph' = [graph EXCEPT !.step = "wait"]
  BY DEF StartChunk, Ready, AtOp, InGraph, server, MustWait
<1>2. lock = c /\ Serving /\ Chunking
  BY <1>0, <1>1, HolderServes DEF Chunking, Chunked, Ops
<1>3. /\ graph'.at = graph.at /\ graph'.step = "wait" /\ graph'.rb = graph.rb
      /\ graph'.col = graph.col /\ graph'.in_flight = graph.in_flight
  BY <1>0, <1>1, <1>2 DEF GraphType
<1>4. /\ WellFormed(op) /\ Works(op) /\ MmShape(op) /\ graph.at \in 1 .. Len(Ops) /\ Inside(op)
      /\ \A i \in 0 .. Rowblocks(op.rows) - 1 : CellAt(op.src[1], i) \in TensorCells
      /\ \A i \in 0 .. op.cols - 1 : CellAt(op.src[2], i) \in TensorCells \ CellsOf(dst)
      /\ \A n \in DOMAIN Ops : Works(Ops[n]) => op.src[1].h # Ops[n].dst.h
      /\ op.src[1].h # op.dst.h /\ op.src[1].lo \in Nat
      /\ dst.lo \in Nat /\ dst.n \in Nat /\ op.kind = "mm"
      /\ CellsOf(dst) \subseteq TensorCells
  BY <1>0, <1>1, <1>2, MmFacts DEF Ops
<1>5. /\ k \in 1 .. MAX_ROWBLOCKS /\ k \in Nat \ {0} /\ graph.rb + k <= Rowblocks(op.rows)
      /\ graph.rb \in Nat /\ col \in 0 .. op.cols - 1 /\ R \in Nat \ {0}
      /\ Rowblocks(op.rows) \in Nat /\ MAX_ROWBLOCKS \in Nat
  <2>1. /\ k \in 1 .. MAX_ROWBLOCKS /\ graph.rb + k <= Rowblocks(op.rows)
    BY <1>0, <1>4, ChunkBounds
  <2>2. graph.rb \in Nat /\ graph.col \in Nat /\ op.rows \in Nat \ {0} /\ op.cols \in Nat
    BY <1>0, <1>4 DEF GraphType, MmShape
  <2>3. graph.col < op.cols
    BY <1>4 DEF Inside
  <2>. HIDE DEF k
  <2>4. QED
    BY <2>1, <2>2, <2>3, RowblocksBounds, RowsAssumption, ChunkAssumption
<1>6. ~Running
  BY <1>0, <1>1 DEF RunInv
<1>7. \A x \in TensorCells \ CellsOf(dst) : mem[x] = Model[x]
  BY <1>0, <1>1, <1>2 DEF ResultInv, CellsInv, Unsettled
<1>8. /\ \A x \in TensorCells : mem'[x] = mem[x]
      /\ mem'[ActsBuf] = Model[CellAt(op.src[2], col)]
  <2>1. CASE graph.rb = 0
    <3>1. mem' = [mem EXCEPT ![ActsBuf] = mem[CellAt(op.src[2], col)]]
      BY <1>1, <1>2, <2>1 DEF PackActs
    <3>2. ActsBuf \in BufCells /\ ActsBuf \in DOMAIN mem /\ TensorCells \subseteq DOMAIN mem
      BY <1>0 DEF BufCells, MemInv, Cells
    <3>3. QED
      BY <1>4, <1>5, <1>7, <3>1, <3>2, BufferApart
  <2>2. CASE graph.rb # 0
    <3>1. mem' = mem /\ graph.rb > 0
      BY <1>1, <1>5, <2>2
    <3>2. QED
      BY <1>0, <1>2, <3>1 DEF ResultInv, PackInv
  <2>3. QED
    BY <2>1, <2>2
<1>9. /\ Ops' = Ops /\ Model' = Model /\ Op(lock)' = op /\ lock' = lock
      /\ Serving' /\ ~InFlight' /\ Chunking'
      /\ Unsettled' = Unsettled
      /\ ChunkFirst(Op(lock))' = ChunkFirst(Op(lock))
      /\ MmResult(Model, Op(lock))' = MmResult(Model, Op(lock))
      /\ JobSize' = JobSize
      /\ \A i : JobCell(i)' = JobCell(i)
      /\ \A i : JobValue(i)' = JobValue(i)
  BY <1>1, <1>2, <1>3, JobStays
<1>10. CellsInv' /\ WalkedInv' /\ ReadInv' /\ FreshInv'
  BY <1>0, <1>2, <1>3, <1>8, <1>9 DEF CellsInv, WalkedInv, ReadInv, FreshInv, ResultInv
<1>11. DoneInv'
  <2>1. \A j \in 0 .. ChunkFirst(op) - 1 : CellAt(dst, j) \in TensorCells
    <3>1. ChunkFirst(op) \in Nat /\ ChunkRows(op) \in Nat /\ ChunkFirst(op) + ChunkRows(op) <= dst.n
      BY <1>0, <1>2, ChunkCells
    <3>2. \A j \in 0 .. ChunkFirst(op) - 1 : j \in 0 .. dst.n - 1
      BY <1>4, <3>1
    <3>3. QED
      BY <1>4, <3>2 DEF CellsOf
  <2>2. QED
    BY <1>0, <1>2, <1>8, <1>9, <2>1 DEF ResultInv, DoneInv
<1>12. PackInv'
  <2>1. ActsBuf' = ActsBuf
    BY DEF ActsBuf
  <2>2. QED
    BY <1>3, <1>8, <1>9, <2>1 DEF PackInv
<1>13. FrameInv'
  BY <1>0, <1>1, <1>2, <1>8, <1>9 DEF FrameInv
<1>14. CASE hw.state # "idle"
  <2>1. hw' = hw
    BY <1>1, <1>14 DEF Start
  <2>2. ~Running' /\ hw'.state # "idle"
    BY <1>6, <1>14, <2>1 DEF Running
  <2>3. QED
    BY <1>10, <1>11, <1>12, <1>13, <2>2 DEF ValuesInv, ResultInv, JobInv, WeightsInv
<1>15. CASE hw.state = "idle"
  <2>1. /\ hw'.state = "load" /\ hw'.done = 0 /\ Running'
        /\ DOMAIN hw'.w = 1 .. k /\ Len(hw'.w) = k
        /\ \A b \in 1 .. k : hw'.w[b] = CellAt(op.src[1], graph.rb + b - 1)
        /\ hw'.to = ResultCells(op) /\ Len(hw'.to) = k * R
    <3>1. Start(op) /\ ChunkBlocks(op) \in Nat
      BY <1>1, <1>2, <1>5
    <3>2. QED
      BY <1>15, <3>1, StartFacts
  <2>2. WeightsInv'
    <3>1. \A b \in 1 .. k : hw'.w[b][1] = op.src[1].h
      BY <2>1 DEF CellAt
    <3>2. QED
      BY <1>4, <1>9, <2>1, <3>1 DEF WeightsInv
  <2>3. /\ JobSize = k * R
        /\ \A i : JobCell(i) = ResultCells(op)[i]
        /\ \A i : JobValue(i) = MmValue(Model[CellAt(op.src[2], col)],
                                        Model[CellAt(op.src[1], graph.rb + ((i - 1) \div R))],
                                        (i - 1) % R)
    BY <1>1 DEF JobSize, JobCell, JobValue
  <2>4. ASSUME NEW i \in 1 .. k * R PROVE JobValue(i) = Streamed(i)'
    <3>. DEFINE b == (i - 1) \div R
    <3>1. b \in 0 .. k - 1
      <4>1. k * R \in Nat
        BY <1>5
      <4>2. i - 1 \in 0 .. k * R - 1
        BY <4>1
      <4>3. QED
        BY <1>5, <4>2, DivBound
    <3>. HIDE DEF k
    <3>2. /\ b + 1 \in 1 .. k /\ graph.rb + (b + 1) - 1 = graph.rb + b
          /\ graph.rb + b \in 0 .. Rowblocks(op.rows) - 1
      <4>. HIDE DEF b
      <4>1. QED
        BY <1>5, <3>1
    <3>3. hw'.w[b + 1] = CellAt(op.src[1], graph.rb + b)
      BY <2>1, <3>2
    <3>4. CellAt(op.src[1], graph.rb + b) \in TensorCells \ CellsOf(dst)
      <4>1. CellAt(op.src[1], graph.rb + b)[1] = op.src[1].h
        BY DEF CellAt
      <4>2. \A x \in CellsOf(dst) : x[1] = dst.h
        BY DEF CellsOf, CellAt
      <4>3. QED
        BY <1>4, <3>2, <4>1, <4>2
    <3>5. mem'[hw'.w[b + 1]] = Model[CellAt(op.src[1], graph.rb + b)]
      BY <1>7, <1>8, <3>3, <3>4
    <3>6. Streamed(i)' = MmValue(mem'[ActsBuf], mem'[hw'.w[b + 1]], (i - 1) % R)
      <4>1. ActsBuf' = ActsBuf
        BY DEF ActsBuf
      <4>2. QED
        BY <2>1, <4>1 DEF Streamed
    <3>7. QED
      BY <1>8, <2>3, <3>5, <3>6
  <2>5. JobInv'
    <3>1. 0 * ROWS_PER_BLOCK = 0 /\ 0 < k
      BY <1>5
    <3>2. \A i \in 1 .. hw'.done * ROWS_PER_BLOCK : mem'[JobCell(i)'] = JobValue(i)'
      BY <2>1, <3>1
    <3>. HIDE DEF k
    <3>3. QED
      BY <1>9, <2>1, <2>3, <2>4, <3>1, <3>2 DEF JobInv
  <2>6. QED
    BY <1>10, <1>11, <1>12, <1>13, <2>2, <2>5 DEF ValuesInv, ResultInv
<1>16. QED
  BY <1>14, <1>15

\* The rowblocks hold every row.
LEMMA RowblocksCover ==
  ASSUME NEW n \in Nat \ {0}
  PROVE  n <= Rowblocks(n) * ROWS_PER_BLOCK
<1>. DEFINE R == ROWS_PER_BLOCK
            q == (n + R - 1) \div R
            a == q * R
            b == (q + 1) * R
<1>1. R \in Nat \ {0}
  BY RowsAssumption
<1>. HIDE DEF R
<1>2. q \in Nat /\ n + R - 1 < b
  BY <1>1
<1>. HIDE DEF q
<1>3. a \in Nat /\ b = a + R
  BY <1>1, <1>2
<1>. HIDE DEF a, b
<1>4. n <= a
  BY <1>1, <1>2, <1>3
<1>5. QED
  BY <1>4 DEF a, q, R, Rowblocks

\* A chunk ends inside its column's last rowblock, or where a rowblock ends: the
\* next chunk's first result is the one after its last.
LEMMA ChunkEnds ==
  ASSUME GraphType, NEW op, MmShape(op), Inside(op), op.src[1].lo \in Nat,
         NEW k, k = ChunkBlocks(op)
  PROVE  /\ ChunkRows(op) \in Nat /\ graph.rb * ROWS_PER_BLOCK \in Nat /\ k * ROWS_PER_BLOCK \in Nat
         /\ ChunkRows(op) <= k * ROWS_PER_BLOCK
         /\ graph.rb * ROWS_PER_BLOCK + ChunkRows(op) <= op.rows
         /\ graph.rb + k < Rowblocks(op.rows) =>
              ChunkFirst(op) + ChunkRows(op) = graph.col * op.rows + (graph.rb + k) * ROWS_PER_BLOCK
         /\ ~(graph.rb + k < Rowblocks(op.rows)) =>
              ChunkFirst(op) + ChunkRows(op) = (graph.col + 1) * op.rows
<1>. DEFINE R == ROWS_PER_BLOCK
            rb == graph.rb
            rows == op.rows
            col == graph.col
            B == Rowblocks(rows)
            rbR == rb * R
            kR == k * R
            nR == (rb + k) * R
            BR == B * R
            lR == (B - 1) * R
            C == col * rows
            D == (col + 1) * rows
<1>1. /\ R \in Nat \ {0} /\ rb \in Nat /\ rows \in Nat \ {0} /\ col \in Nat /\ k \in Nat
      /\ B \in Nat \ {0} /\ rb + k <= B
  BY ChunkBounds, RowblocksBounds, RowsAssumption, ChunkAssumption DEF GraphType, MmShape
<1>2. rows <= BR /\ lR < rows
  BY <1>1, RowblocksCover, RowblocksBounds
<1>3. ChunkRows(op) = Smaller(kR, rows - rbR) /\ ChunkFirst(op) = C + rbR
  BY DEF ChunkRows, ChunkFirst
<1>. HIDE DEF R, rb, rows, col, B
<1>4. /\ rbR \in Nat /\ kR \in Nat /\ nR \in Nat /\ BR \in Nat /\ lR \in Nat
      /\ nR = rbR + kR /\ C \in Nat /\ D = C + rows
  BY <1>1
<1>5. \A x, y, z \in Nat : x <= y => x * z <= y * z
  OBVIOUS
<1>6. nR <= BR
  BY <1>1, <1>5
<1>7. rb + k < B => nR <= lR
  <2>1. rb + k < B => rb + k <= B - 1 /\ B - 1 \in Nat /\ rb + k \in Nat
    BY <1>1
  <2>2. QED
    BY <1>1, <1>5, <2>1
<1>8. ~(rb + k < B) => nR = BR
  <2>1. ~(rb + k < B) => rb + k = B
    BY <1>1
  <2>2. QED
    BY <2>1
<1>9. rbR <= lR
  <2>1. rb <= B - 1 /\ B - 1 \in Nat
    BY <1>1 DEF Inside, rb, B, rows
  <2>2. QED
    BY <1>1, <1>5, <2>1
<1>. HIDE DEF rbR, kR, nR, BR, lR, C, D
<1>10. /\ ChunkRows(op) \in Nat /\ ChunkRows(op) <= kR /\ rbR + ChunkRows(op) <= rows
  BY <1>1, <1>2, <1>3, <1>4, <1>9 DEF Smaller
<1>11. rb + k < B => ChunkFirst(op) + ChunkRows(op) = C + nR
  BY <1>1, <1>2, <1>3, <1>4, <1>7 DEF Smaller
<1>12. ~(rb + k < B) => ChunkFirst(op) + ChunkRows(op) = D
  BY <1>1, <1>2, <1>3, <1>4, <1>8 DEF Smaller
<1>13. QED
  BY <1>4, <1>10, <1>11, <1>12 DEF R, rb, rows, col, B, rbR, kR, nR, C, D

\* When the wait has ended and what went to result_buf is copied, the result is
\* right up to the end of the chunk.
LEMMA ChunkDone ==
  ASSUME DaemonInv, Serving, graph.step = "wait", hw.state = "idle", mem' = CopyBack(Op(lock))
  PROVE  /\ \A j \in 0 .. (ChunkFirst(Op(lock)) + ChunkRows(Op(lock))) - 1 :
              mem'[CellAt(Op(lock).dst, j)] = MmResult(Model, Op(lock))[j]
         /\ \A x \in TensorCells \ CellsOf(Op(lock).dst) : mem'[x] = mem[x]
         /\ mem'[ActsBuf] = mem[ActsBuf]
<1>. DEFINE op == Op(lock)
            dst == op.dst
            R == ROWS_PER_BLOCK
            k == ChunkBlocks(op)
            m == k * R
            F == ChunkFirst(op)
            CR == ChunkRows(op)
            rb == graph.rb
            col == graph.col
            copied(x) == ~Direct(op) /\ \E i \in 0 .. CR - 1 : x = CellAt(dst, F + i)
<1>0. ScheduleInv /\ MemInv /\ ResultInv /\ JobInv /\ GraphType
  BY DEF DaemonInv, ValuesInv, ScheduleInv, TypeInv, Types
<1>1. Chunking /\ ~InFlight /\ Working
  BY <1>0, WaitingChunks DEF Chunking, Working
<1>2. /\ m \in Nat /\ F \in Nat /\ CR \in Nat /\ F + CR <= dst.n
      /\ \A i \in 1 .. m : ResultCells(op)[i] = IF Direct(op) THEN CellAt(dst, F + i - 1)
                                                ELSE ResultBuf(i - 1)
  BY <1>0, <1>1, ChunkCells
<1>3. /\ MmShape(op) /\ Inside(op) /\ rb \in Nat /\ col \in Nat
      /\ dst.lo \in Nat /\ dst.n \in Nat /\ op.src[1].lo \in Nat
      /\ CellsOf(dst) \subseteq TensorCells
  BY <1>0, <1>1, ChunkFacts
<1>4. /\ CR <= m /\ rb * R \in Nat /\ rb * R + CR <= op.rows
  BY <1>0, <1>3, ChunkEnds
<1>5. /\ \A i \in 1 .. m : mem[ResultCells(op)[i]] =
           MmValue(Model[CellAt(op.src[2], col)], Model[CellAt(op.src[1], rb + ((i - 1) \div R))],
                   (i - 1) % R)
  BY <1>0, <1>1 DEF JobInv, JobSize, JobCell, JobValue
<1>6. \A j \in 0 .. F - 1 : mem[CellAt(dst, j)] = MmResult(Model, op)[j]
  BY <1>0, <1>1 DEF ResultInv, DoneInv
<1>7. /\ TensorCells \subseteq DOMAIN mem /\ ActsBuf \in DOMAIN mem
      /\ \A x \in DOMAIN mem : mem'[x] = IF copied(x) THEN mem[ResultBuf(x[2] - dst.lo - F)] ELSE mem[x]
  BY <1>0 DEF CopyBack, MemInv, Cells, BufCells
<1>8. \A i \in 0 .. CR - 1 : F + i \in 0 .. dst.n - 1
  BY <1>2, <1>3
<1>9. \A x : copied(x) => x \in CellsOf(dst)
  BY <1>8 DEF CellsOf
<1>10. F = col * op.rows + rb * R /\ op.rows \in Nat \ {0} /\ op.cols \in Nat /\ col < op.cols
  BY <1>3 DEF ChunkFirst, MmShape, Inside
<1>. HIDE DEF F, CR, m, k, dst
<1>11. ASSUME NEW i \in 0 .. CR - 1
       PROVE  mem'[CellAt(dst, F + i)] = MmResult(Model, op)[F + i]
  <2>. DEFINE x == CellAt(dst, F + i)
              a == rb * R
  <2>1. i \in Nat /\ i + 1 \in 1 .. m /\ (i + 1) - 1 = i /\ F + (i + 1) - 1 = F + i
    BY <1>2, <1>4
  <2>2. mem[ResultCells(op)[i + 1]] =
          MmValue(Model[CellAt(op.src[2], col)], Model[CellAt(op.src[1], rb + (i \div R))], i % R)
    BY <1>5, <2>1
  <2>3. x \in DOMAIN mem
    BY <1>3, <1>7, <1>8 DEF CellsOf
  <2>4. mem'[x] = mem[ResultCells(op)[i + 1]]
    <3>1. CASE Direct(op)
      <4>1. mem'[x] = mem[x]
        BY <1>7, <2>3, <3>1
      <4>2. QED
        BY <1>2, <2>1, <3>1, <4>1
    <3>2. CASE ~Direct(op)
      <4>1. copied(x)
        BY <3>2
      <4>2. x[2] - dst.lo - F = i
        BY <1>2, <1>3 DEF CellAt
      <4>3. ResultCells(op)[i + 1] = ResultBuf(i)
        BY <1>2, <2>1, <3>2
      <4>. HIDE DEF x
      <4>4. QED
        BY <1>7, <2>3, <4>1, <4>2, <4>3
    <3>3. QED
      BY <3>1, <3>2
  <2>5. MmResult(Model, op)[F + i] =
          MmValue(Model[CellAt(op.src[2], col)], Model[CellAt(op.src[1], rb + (i \div R))], i % R)
    <3>1. a + i \in 0 .. op.rows - 1 /\ col \in 0 .. op.cols - 1
      <4>1. a \in Nat /\ a + CR <= op.rows
        BY <1>4
      <4>. HIDE DEF a
      <4>2. QED
        BY <1>2, <1>3, <1>10, <4>1
    <3>2. (a + i) \div R = rb + (i \div R) /\ (a + i) % R = i % R
      BY <1>3, <2>1, BlockOfRow
    <3>3. col * op.rows + (a + i) = F + i
      <4>. DEFINE b == col * op.rows
      <4>1. a \in Nat /\ b \in Nat /\ F = b + a
        BY <1>3, <1>4, <1>10
      <4>. HIDE DEF a, b
      <4>2. b + (a + i) = F + i
        BY <2>1, <4>1
      <4>3. QED
        BY <4>2 DEF b
    <3>. HIDE DEF a
    <3>4. MmResult(Model, op)[col * op.rows + (a + i)] =
            MmValue(Model[CellAt(op.src[2], col)], Model[CellAt(op.src[1], (a + i) \div R)], (a + i) % R)
      BY <1>3, <3>1, MmResultAt
    <3>5. QED
      BY <3>2, <3>3, <3>4
  <2>6. QED
    BY <2>2, <2>4, <2>5
<1>12. ASSUME NEW j \in 0 .. F - 1
       PROVE  mem'[CellAt(dst, j)] = MmResult(Model, op)[j]
  <2>1. CellAt(dst, j) \in DOMAIN mem
    <3>1. j \in 0 .. dst.n - 1
      BY <1>2, <1>3
    <3>2. QED
      BY <1>3, <1>7, <3>1 DEF CellsOf
  <2>2. ~copied(CellAt(dst, j))
    <3>1. SUFFICES ASSUME NEW i \in 0 .. CR - 1, CellAt(dst, j) = CellAt(dst, F + i) PROVE FALSE
      OBVIOUS
    <3>2. j \in Int /\ F + i \in Int /\ dst.lo \in Int
      BY <1>2, <1>3
    <3>3. j = F + i
      BY <3>1, <3>2, CellAtInjective
    <3>4. QED
      BY <1>2, <3>3
  <2>3. QED
    BY <1>6, <1>7, <2>1, <2>2
<1>13. \A j \in 0 .. (F + CR) - 1 : mem'[CellAt(dst, j)] = MmResult(Model, op)[j]
  <2>1. SUFFICES ASSUME NEW j \in 0 .. (F + CR) - 1, ~(j < F)
                 PROVE  mem'[CellAt(dst, j)] = MmResult(Model, op)[j]
    BY <1>2, <1>12
  <2>2. j - F \in 0 .. CR - 1 /\ F + (j - F) = j
    BY <1>2, <2>1
  <2>3. QED
    BY <1>11, <2>2
<1>14. mem'[ActsBuf] = mem[ActsBuf]
  <2>1. ActsBuf \in BufCells
    BY DEF BufCells
  <2>2. ~copied(ActsBuf)
    BY <1>3, <1>9, <2>1, BufferApart
  <2>3. QED
    BY <1>7, <2>2
<1>15. \A x \in TensorCells \ CellsOf(dst) : mem'[x] = mem[x]
  BY <1>7, <1>9
<1>16. QED
  BY <1>13, <1>14, <1>15 DEF F, CR, dst

LEMMA WaitChunkStep ==
  ASSUME DaemonInv, NEW c \in Clients, WaitChunk(c), UNCHANGED server
  PROVE  ValuesInv'
<1>. DEFINE op == Op(lock)
            dst == op.dst
            k == ChunkBlocks(op)
            N == ChunkFirst(op) + ChunkRows(op)
<1>0. /\ ScheduleInv /\ TypeInv /\ ServerInv /\ GraphType /\ ResultInv /\ FrameInv /\ MemInv
  BY DEF DaemonInv, ValuesInv, ScheduleInv, TypeInv, Types
<1>1. /\ UNCHANGED <<lock, script, before>> /\ Holds(c, "graph") /\ graph.step = "wait" /\ ~Running
  BY DEF WaitChunk, InGraph, server
<1>2. lock = c /\ Serving /\ Chunking
  BY <1>0, <1>1, HolderServes, WaitingChunks
<1>3. hw.state = "idle" /\ mem' = CopyBack(op) /\ graph' = NextChunk(op) /\ hw' = hw
  <2>1. ~Error(c)
    <3>1. Error(c) => lock' = NoClient
      BY DEF Error, Respond
    <3>2. QED
      BY <1>1, <1>2, <3>1, ScriptAssumption
  <2>2. QED
    BY <1>2, <2>1 DEF WaitChunk
<1>4. /\ WellFormed(op) /\ Works(op) /\ MmShape(op) /\ Inside(op) /\ op.kind = "mm"
      /\ graph.at \in 1 .. Len(Ops) /\ graph.rb \in Nat /\ graph.col \in Nat
      /\ dst.lo \in Nat /\ dst.n \in Nat /\ op.src[1].lo \in Nat
      /\ CellsOf(dst) \subseteq TensorCells /\ CellsOf(dst) \subseteq Written(Ops)
  BY <1>0, <1>2, ChunkFacts
<1>5. /\ \A j \in 0 .. N - 1 : mem'[CellAt(dst, j)] = MmResult(Model, op)[j]
      /\ \A x \in TensorCells \ CellsOf(dst) : mem'[x] = mem[x]
      /\ mem'[ActsBuf] = mem[ActsBuf]
  BY <1>1, <1>2, <1>3, ChunkDone
<1>6. \A x \in TensorCells \ CellsOf(dst) : mem[x] = Model[x]
  BY <1>0, <1>2 DEF ResultInv, CellsInv, Unsettled, Chunking
<1>7. Ops' = Ops /\ Serving' /\ lock' = lock
  BY <1>1, <1>2, ModelStays
<1>8. FrameInv'
  BY <1>0, <1>1, <1>2, <1>4, <1>5, <1>7 DEF FrameInv
<1>9. /\ graph'.step = "op" /\ graph'.in_flight = graph.in_flight
      /\ \/ graph'.at = graph.at /\ graph'.rb = graph.rb + k /\ graph'.col = graph.col
            /\ graph.rb + k < Rowblocks(op.rows)
         \/ graph'.at = graph.at /\ graph'.rb = 0 /\ graph'.col = graph.col + 1
            /\ ~(graph.rb + k < Rowblocks(op.rows))
         \/ graph'.at = graph.at + 1 /\ graph'.rb = 0 /\ graph'.col = 0
            /\ ~(graph.rb + k < Rowblocks(op.rows)) /\ ~(graph.col + 1 < op.cols)
  <2>1. DOMAIN graph = {"at", "step", "vals", "col", "rb", "in_flight"}
    BY <1>0 DEF GraphType
  <2>2. CASE graph.rb + k < Rowblocks(op.rows)
    <3>1. graph' = [graph EXCEPT !.step = "op", !.rb = @ + k]
      BY <1>3, <2>2 DEF NextChunk
    <3>. HIDE DEF k, op
    <3>2. /\ graph'.step = "op" /\ graph'.in_flight = graph.in_flight
          /\ graph'.at = graph.at /\ graph'.rb = graph.rb + k /\ graph'.col = graph.col
      BY ONLY <2>1, <3>1
    <3>3. QED
      BY <2>2, <3>2
  <2>3. CASE ~(graph.rb + k < Rowblocks(op.rows)) /\ graph.col + 1 < op.cols
    <3>1. graph' = [graph EXCEPT !.step = "op", !.rb = 0, !.col = @ + 1]
      BY <1>3, <2>3 DEF NextChunk
    <3>2. /\ graph'.step = "op" /\ graph'.in_flight = graph.in_flight
          /\ graph'.at = graph.at /\ graph'.rb = 0 /\ graph'.col = graph.col + 1
      BY ONLY <2>1, <3>1
    <3>3. QED
      BY <2>3, <3>2
  <2>4. CASE ~(graph.rb + k < Rowblocks(op.rows)) /\ ~(graph.col + 1 < op.cols)
    <3>1. graph' = [graph EXCEPT !.step = "op", !.rb = 0, !.col = 0, !.at = @ + 1]
      BY <1>3, <2>4 DEF NextChunk
    <3>2. /\ graph'.step = "op" /\ graph'.in_flight = graph.in_flight
          /\ graph'.at = graph.at + 1 /\ graph'.rb = 0 /\ graph'.col = 0
      BY ONLY <2>1, <3>1
    <3>3. QED
      BY <2>4, <3>2
  <2>5. QED
    BY <2>2, <2>3, <2>4
<1>10. ~InFlight' /\ ~Running'
  BY <1>1, <1>2, <1>3, <1>9 DEF InFlight, Chunking, Running
<1>11. JobInv' /\ WeightsInv' /\ ReadInv' /\ FreshInv'
  BY <1>9, <1>10 DEF JobInv, Working, WeightsInv, ReadInv, FreshInv
<1>12. /\ graph.rb + k < Rowblocks(op.rows) =>
            N = graph.col * op.rows + (graph.rb + k) * ROWS_PER_BLOCK
       /\ ~(graph.rb + k < Rowblocks(op.rows)) => N = (graph.col + 1) * op.rows
  BY <1>0, <1>4, ChunkEnds
<1>. HIDE DEF k, N, dst
<1>13. CASE graph'.at = graph.at
  <2>1. Model' = Model /\ Op(lock)' = op /\ Chunking'
    BY <1>1, <1>2, <1>7, <1>10, <1>13, ModelStays DEF Chunking
  <2>2. ChunkFirst(Op(lock))' = N
    <3>1. ChunkFirst(Op(lock))' = graph'.col * op.rows + graph'.rb * ROWS_PER_BLOCK
      BY <2>1 DEF ChunkFirst
    <3>2. CASE graph'.rb = graph.rb + k /\ graph'.col = graph.col /\ graph.rb + k < Rowblocks(op.rows)
      BY <1>12, <3>1, <3>2
    <3>3. CASE graph'.rb = 0 /\ graph'.col = graph.col + 1 /\ ~(graph.rb + k < Rowblocks(op.rows))
      <4>. DEFINE D == (graph.col + 1) * op.rows
      <4>1. D \in Nat /\ 0 * ROWS_PER_BLOCK = 0
        BY <1>4, RowsAssumption DEF MmShape
      <4>2. ChunkFirst(Op(lock))' = D + 0 * ROWS_PER_BLOCK
        BY <3>1, <3>3
      <4>. HIDE DEF D
      <4>3. ChunkFirst(Op(lock))' = D
        BY <4>1, <4>2
      <4>4. QED
        BY <1>12, <3>3, <4>3 DEF D
    <3>4. graph'.at # graph.at + 1
      BY <1>4, <1>13
    <3>5. QED
      BY <1>9, <3>2, <3>3, <3>4
  <2>3. DoneInv'
    <3>1. \A j \in 0 .. N - 1 : mem'[CellAt(dst, j)] = MmResult(Model, op)[j]
      BY <1>5
    <3>2. QED
      BY <2>1, <2>2, <3>1 DEF DoneInv, dst
  <2>4. CellsInv'
    <3>1. Unsettled' = CellsOf(dst)
      BY <1>10, <2>1 DEF Unsettled, dst
    <3>2. QED
      BY <1>5, <1>6, <2>1, <3>1 DEF CellsInv
  <2>5. WalkedInv'
    BY <1>0, <1>2, <1>7, <1>13 DEF ResultInv, WalkedInv
  <2>6. PackInv'
    <3>1. mem[ActsBuf] = Model[CellAt(op.src[2], graph.col)]
      BY <1>0, <1>1, <1>2 DEF ResultInv, PackInv
    <3>2. graph'.rb > 0 => graph'.col = graph.col
      BY <1>4, <1>9, <1>13
    <3>3. ActsBuf' = ActsBuf
      BY DEF ActsBuf
    <3>4. QED
      BY <1>5, <1>9, <2>1, <3>1, <3>2, <3>3 DEF PackInv
  <2>7. QED
    BY <1>8, <1>11, <2>3, <2>4, <2>5, <2>6 DEF ValuesInv, ResultInv
<1>14. CASE graph'.at = graph.at + 1
  <2>1. /\ graph'.rb = 0 /\ graph'.col = 0
        /\ ~(graph.rb + k < Rowblocks(op.rows)) /\ ~(graph.col + 1 < op.cols)
    BY <1>4, <1>9, <1>14
  <2>2. N = dst.n
    <3>1. graph.col + 1 = op.cols /\ op.cols \in Nat /\ op.rows \in Nat
      BY <1>4, <2>1 DEF Inside, MmShape
    <3>2. dst.n = op.rows * op.cols
      BY <1>4 DEF MmShape, dst
    <3>3. QED
      BY <1>12, <2>1, <3>1, <3>2
  <2>3. Model' = Put(Model, dst, MmResult(Model, op)) /\ DOMAIN Model = TensorCells
    <3>1. graph.at <= Len(Ops)
      BY <1>2 DEF Chunking
    <3>2. Model' = OpEffect(Model, op)
      BY <1>0, <1>1, <1>2, <1>14, <3>1, ModelAdvances
    <3>3. QED
      BY <1>0, <1>2, <1>4, <3>2, ModelDomain DEF OpEffect, dst
  <2>4. \A x \in TensorCells : mem'[x] = Model'[x]
    <3>1. SUFFICES ASSUME NEW x \in TensorCells PROVE mem'[x] = Model'[x]
      OBVIOUS
    <3>2. CASE x \in CellsOf(dst)
      <4>1. PICK j \in 0 .. dst.n - 1 : x = CellAt(dst, j)
        BY <3>2 DEF CellsOf
      <4>2. mem'[x] = MmResult(Model, op)[j]
        BY <1>5, <2>2, <4>1
      <4>3. Model'[x] = MmResult(Model, op)[j]
        BY <1>4, <2>3, <3>1, <4>1, PutAt
      <4>4. QED
        BY <4>2, <4>3
    <3>3. CASE x \notin CellsOf(dst)
      BY <1>5, <1>6, <2>3, <3>3 DEF Put
    <3>4. QED
      BY <3>2, <3>3
  <2>5. CellsInv'
    BY <2>4 DEF CellsInv
  <2>6. WalkedInv'
    BY <1>0, <1>1, <1>2, <1>4, <1>14, WalkedAdvances DEF ResultInv
  <2>7. DoneInv' /\ PackInv'
    <3>1. graph'.at \in Nat \ {0}
      BY <1>4, <1>14
    <3>2. QED
      BY <1>0, <1>1, <1>2, <1>9, <2>1, <3>1, NothingDone
  <2>8. QED
    BY <1>8, <1>11, <2>5, <2>6, <2>7 DEF ValuesInv, ResultInv
<1>15. QED
  BY <1>9, <1>13, <1>14
-----------------------------------------------------------------------------
(* The invariant holds. *)

LEMMA ValuesStep ==
  ASSUME DaemonInv, ScheduleInv', AllDrained, [Next]_vars
  PROVE  ValuesInv'
<1>1. CASE UNCHANGED vars
  BY <1>1, UnchangedStep DEF vars, server
<1>2. CASE Hardware
  BY <1>2, LoadStep, StallStep, StreamStep DEF Hardware
<1>3. ASSUME NEW c \in Clients, Serve(c) PROVE ValuesInv'
  <2>1. CASE Recv(c)
    BY <2>1, UnchangedStep DEF Recv
  <2>2. CASE Acquire(c)
    BY <2>2, AcquireStep
  <2>3. ASSUME NEW answer, Ending(c, answer) PROVE ValuesInv'
    BY <1>3, <2>3, EndStep
  <2>4. CASE UNCHANGED server /\ Holds(c, "graph")
    <3>0. lock = c /\ lock' = lock /\ c # NoClient
      BY <2>4, ScriptAssumption DEF server, Holds, DaemonInv, ScheduleInv, TypeInv, Types, ServerInv
    <3>1. \A answer : ~Respond(c, answer)
      BY <3>0 DEF Respond
    <3>2. ~(Recv(c) \/ Acquire(c) \/ Upload(c) \/ Download(c) \/ Refuse(c) \/ UnknownOp(c)
              \/ RefusedOp(c) \/ Finish(c))
      <4>1. ~Error(c) /\ \A data : ~Ok(c, data)
        BY <3>1 DEF Error, Ok
      <4>2. thread[c] = "holding"
        BY <2>4 DEF Holds
      <4>3. ~Recv(c) /\ ~Acquire(c)
        BY <4>2 DEF Recv, Acquire
      <4>4. QED
        BY <4>1, <4>3 DEF Upload, Download, Refuse, UnknownOp, RefusedOp, Finish
    <3>3. QED
      BY <1>3, <2>4, <3>2, BarrierStep, PsReadStep, PsWriteStep, IssueStep, StartChunkStep,
         WaitChunkStep DEF Serve
  <2>5. QED
    BY <1>3, <2>1, <2>2, <2>3, <2>4, ServeCases
<1>4. QED
  BY <1>1, <1>2, <1>3 DEF Next

LEMMA SpecDaemonInv ==
  ASSUME AllDrained
  PROVE  Spec => []DaemonInv
<1>1. Init => ValuesInv
  <2>1. SUFFICES ASSUME Init PROVE ValuesInv
    OBVIOUS
  <2>2. ~Serving /\ ~Running /\ lock \notin Clients
    BY <2>1, ScriptAssumption, NoChunkType DEF Init, Serving, Running
  <2>3. ResultInv
    BY <2>2 DEF ResultInv, WalkedInv, CellsInv, DoneInv, ReadInv, PackInv, FreshInv
  <2>4. QED
    BY <2>2, <2>3 DEF ValuesInv, JobInv, Working, WeightsInv, FrameInv
<1>2. ValuesInv /\ ScheduleInv /\ ScheduleInv' /\ [Next]_vars => ValuesInv'
  BY ValuesStep DEF DaemonInv
<1>3. QED
  BY <1>1, <1>2, SpecScheduleInv, PTL DEF Spec, DaemonInv
-----------------------------------------------------------------------------
(* The refinement. *)

\* The tensors as a client sees them.
Store == [x \in TensorCells |-> IF lock = NoClient THEN mem[x] ELSE before[x]]

HistoryInv == before = [x \in TensorCells |-> before[x]]

LEMMA SpecHistoryInv == Spec => []HistoryInv
<1>1. Init => HistoryInv
  BY DEF Init, HistoryInv
<1>2. HistoryInv /\ [Next]_vars => HistoryInv'
  <2>1. SUFFICES ASSUME HistoryInv, [Next]_vars PROVE HistoryInv'
    OBVIOUS
  <2>2. CASE UNCHANGED before
    BY <2>1, <2>2 DEF HistoryInv
  <2>3. ASSUME NEW c \in Clients, Acquire(c) PROVE HistoryInv'
    BY <2>3 DEF Acquire, HistoryInv
  <2>4. ASSUME NEW c \in Clients, Serve(c) PROVE UNCHANGED before \/ Acquire(c)
    BY <2>4, ServeCases DEF Recv, Ending, Respond, server
  <2>5. Hardware => UNCHANGED before
    BY DEF Hardware, LoadActs, StreamBlock, Stall, server
  <2>6. QED
    BY <2>1, <2>2, <2>3, <2>4, <2>5 DEF Next, vars, server
<1>3. QED
  BY <1>1, <1>2, PTL DEF Spec

\* GraphSpec's operators are GraphOps's.
LEMMA SameOperators ==
  /\ \A m, t, f : Daemon!Put(m, t, f) = Put(m, t, f)
  /\ \A m, t : Daemon!Vals(m, t) = Vals(m, t)
  /\ \A m, ops : Daemon!GraphEffect(m, ops) = GraphEffect(m, ops)
  /\ \A ops : Daemon!Written(ops) = Written(ops)
  /\ \A op : Daemon!Works(op) <=> Works(op)
<1>. USE DEF Daemon!CellAt, CellAt
<1>1. \A t : Daemon!CellsOf(t) = CellsOf(t)
  BY DEF Daemon!CellsOf, CellsOf
<1>2. \A m, t : Daemon!Vals(m, t) = Vals(m, t)
  BY DEF Daemon!Vals, Vals
<1>3. \A m, t, f : Daemon!Put(m, t, f) = Put(m, t, f)
  BY <1>1 DEF Daemon!Put, Put
<1>4. \A op : Daemon!Works(op) <=> Works(op)
  BY DEF Daemon!Works, Works
<1>5. \A ops : Daemon!Written(ops) = Written(ops)
  BY <1>1, <1>4 DEF Daemon!Written, Written
<1>6. \A m, ops : Daemon!After(m, ops) = After(m, ops)
  BY DEF Daemon!After, After, Daemon!OpEffect, OpEffect, Daemon!Put, Put, Daemon!CellsOf, CellsOf,
         Daemon!MmResult, MmResult, Daemon!PsResult, PsResult, Daemon!Inputs, Inputs,
         Daemon!MmValue, MmValue, Daemon!PsValue, PsValue, Daemon!Vals, Vals
<1>7. \A m, ops : Daemon!GraphEffect(m, ops) = GraphEffect(m, ops)
  BY <1>6 DEF Daemon!GraphEffect, GraphEffect
<1>8. QED
  BY <1>2, <1>3, <1>4, <1>5, <1>7

\* The answer of a request is the answer of an abstract one.
LEMMA SameAnswer ==
  ASSUME NEW c \in Clients, NEW answer, Respond(c, answer)
  PROVE  Daemon!Answer(c, answer)
BY DEF Respond, Daemon!Answer

LEMMA ModelIsFunction ==
  ASSUME TypeInv, HistoryInv, Serving
  PROVE  Model = [x \in TensorCells |-> Model[x]]
<1>1. /\ graph.at \in 1 .. Len(Ops) + 1 /\ Len(Ops) \in Nat
  BY ServingOps
<1>2. CASE graph.at = 1
  <2>1. Model = before
    BY <1>1, <1>2, AfterSteps DEF Model
  <2>2. QED
    BY <2>1 DEF HistoryInv
<1>3. CASE graph.at # 1
  <2>1. graph.at - 1 \in 1 .. Len(Ops)
    BY <1>1, <1>3
  <2>. DEFINE a == After(before, Ops)[(graph.at - 1) - 1]
              op == Ops[graph.at - 1]
  <2>2. Model = OpEffect(a, op)
    BY <1>1, <2>1, AfterSteps DEF Model
  <2>. HIDE DEF a, op
  <2>3. OpEffect(a, op) = [x \in DOMAIN OpEffect(a, op) |-> OpEffect(a, op)[x]]
    BY DEF OpEffect, Put
  <2>4. DOMAIN Model = TensorCells
    BY ModelDomain
  <2>5. QED
    BY <2>2, <2>3, <2>4
<1>4. QED
  BY <1>2, <1>3

\* The holder of the lock, and what the client sees before and after its answer.
LEMMA AtTheAnswer ==
  ASSUME DaemonInv, HistoryInv, NEW c \in Clients, thread[c] = "holding", NEW answer, Respond(c, answer)
  PROVE  /\ lock = c /\ script[c] # <<>> /\ Store = before
         /\ Store' = [x \in TensorCells |-> mem'[x]]
         /\ Request(c).kind = "graph" => Serving
         /\ Request(c).kind # "graph" => Store = [x \in TensorCells |-> mem[x]]
<1>0. ServerInv /\ FrameInv
  BY DEF DaemonInv, ValuesInv, ScheduleInv, TypeInv, Types
<1>1. lock = c /\ script[c] # <<>> /\ lock # NoClient
  BY <1>0, ScriptAssumption DEF ServerInv
<1>2. Store = [x \in TensorCells |-> before[x]]
  BY <1>1 DEF Store
<1>3. Store' = [x \in TensorCells |-> mem'[x]]
  BY DEF Respond, Store
<1>4. Request(c).kind = "graph" <=> Serving
  BY <1>1 DEF Serving
<1>5. Request(c).kind # "graph" => \A x \in TensorCells : mem[x] = before[x]
  BY <1>0, <1>1, <1>4 DEF FrameInv
<1>6. Request(c).kind # "graph" => Store = [x \in TensorCells |-> mem[x]]
  BY <1>2, <1>5
<1>7. QED
  BY <1>1, <1>2, <1>3, <1>4, <1>6 DEF HistoryInv

LEMMA UploadRefines ==
  ASSUME DaemonInv, HistoryInv, NEW c \in Clients, Upload(c)
  PROVE  Daemon!ANext
<1>. DEFINE r == Request(c)
<1>1. /\ thread[c] = "holding" /\ r.kind = "upload" /\ mem' = Put(mem, r.t, r.data)
      /\ Respond(c, [ok |-> TRUE, data |-> <<>>])
  BY DEF Upload, Holds, Ok
<1>2. /\ script[c] # <<>> /\ Store' = [x \in TensorCells |-> mem'[x]]
      /\ Store = [x \in TensorCells |-> mem[x]]
  BY <1>1, AtTheAnswer
<1>3. TensorCells \subseteq DOMAIN mem
  BY DEF DaemonInv, ScheduleInv, TypeInv, Types, MemInv, Cells
<1>4. Store' = Put(Store, r.t, r.data)
  BY <1>1, <1>2, <1>3 DEF Put
<1>5. Daemon!AUpload(c)
  BY <1>1, <1>4, SameAnswer, SameOperators DEF Daemon!AUpload, Store, Request
<1>6. QED
  BY <1>2, <1>5 DEF Daemon!ANext

LEMMA DownloadRefines ==
  ASSUME DaemonInv, HistoryInv, NEW c \in Clients, Download(c)
  PROVE  Daemon!ANext
<1>. DEFINE r == Request(c)
<1>1. /\ thread[c] = "holding" /\ r.kind = "download" /\ mem' = mem
      /\ Respond(c, [ok |-> TRUE, data |-> Vals(mem, r.t)])
  BY DEF Download, Holds, Ok
<1>2. /\ script[c] # <<>> /\ Store' = [x \in TensorCells |-> mem'[x]]
      /\ Store = [x \in TensorCells |-> mem[x]]
  BY <1>1, AtTheAnswer
<1>3. CellsOf(r.t) \subseteq TensorCells
  <2>1. r \in Requests
    BY <1>1, RequestType DEF DaemonInv, ScheduleInv, TypeInv, Types
  <2>2. QED
    BY <1>1, <2>1, ScriptAssumption
<1>4. Vals(mem, r.t) = Vals(Store, r.t)
  BY <1>2, <1>3 DEF Vals, CellsOf
<1>5. Daemon!ADownload(c)
  <2>1. Daemon!Answer(c, [ok |-> TRUE, data |-> Daemon!Vals(Store, r.t)])
    BY <1>1, <1>4, SameAnswer, SameOperators
  <2>2. Store' = Store
    BY <1>1, <1>2
  <2>3. QED
    BY <1>1, <2>1, <2>2 DEF Daemon!ADownload, Store, Request
<1>6. QED
  BY <1>2, <1>5 DEF Daemon!ANext

\* An exception: whatever the graph has done by then is in what it writes.
LEMMA ErrorRefines ==
  ASSUME DaemonInv, HistoryInv, NEW c \in Clients, thread[c] = "holding",
         Request(c).kind \in {"graph", "refused"}, Error(c)
  PROVE  Daemon!ANext
<1>. DEFINE r == Request(c)
            written == IF r.kind = "graph" THEN Written(r.ops) ELSE {}
<1>1. Respond(c, [ok |-> FALSE, data |-> <<>>]) /\ mem' = mem
  BY DEF Error
<1>2. /\ lock = c /\ script[c] # <<>> /\ Store = before
      /\ Store' = [x \in TensorCells |-> mem'[x]]
      /\ r.kind = "graph" => Serving
      /\ r.kind # "graph" => Store = [x \in TensorCells |-> mem[x]]
  BY <1>1, AtTheAnswer
<1>3. DOMAIN Store = TensorCells /\ DOMAIN Store' = TensorCells
  BY DEF Store
<1>4. ASSUME NEW x \in TensorCells \ written PROVE Store'[x] = Store[x]
  <2>1. CASE r.kind = "graph"
    <3>1. x \in TensorCells \ Written(Ops)
      BY <1>2, <1>4, <2>1 DEF Ops
    <3>2. mem[x] = before[x]
      BY <1>2, <2>1, <3>1 DEF DaemonInv, ValuesInv, FrameInv
    <3>3. QED
      BY <1>1, <1>2, <3>1, <3>2
  <2>2. CASE r.kind # "graph"
    BY <1>1, <1>2, <2>2
  <2>3. QED
    BY <2>1, <2>2
<1>5. Daemon!AFail(c)
  <2>1. r.kind \notin {"upload", "download"}
    OBVIOUS
  <2>2. \A x \in DOMAIN Store \ written : Store'[x] = Store[x]
    BY <1>3, <1>4
  <2>3. written = IF Head(script[c]).kind = "graph" THEN Daemon!Written(Head(script[c]).ops) ELSE {}
    BY SameOperators DEF Request
  <2>. HIDE DEF written
  <2>4. QED
    BY <1>1, <1>3, <2>1, <2>2, <2>3, SameAnswer DEF Daemon!AFail, Store, Request
<1>6. QED
  BY <1>2, <1>5 DEF Daemon!ANext

\* The answer of a graph: all of its ops have had their effect.
LEMMA FinishRefines ==
  ASSUME DaemonInv, HistoryInv, NEW c \in Clients, Finish(c)
  PROVE  Daemon!ANext
<1>. DEFINE r == Request(c)
<1>0. ScheduleInv /\ TypeInv /\ ServerInv /\ HwInv
  BY DEF DaemonInv, ScheduleInv, TypeInv, Types
<1>1. /\ thread[c] = "holding" /\ r.kind = "graph" /\ graph.at > Len(r.ops) /\ Holds(c, "graph")
  BY DEF Finish, AtEnd, InGraph, Holds
<1>2. CASE Error(c)
  BY <1>1, <1>2, ErrorRefines
<1>3. CASE ~Error(c)
  <2>1. /\ Respond(c, [ok |-> TRUE, data |-> <<>>]) /\ mem' = mem
        /\ InFlight => ~Running /\ hw.state # "stalled"
    BY <1>3 DEF Finish, Ok
  <2>2. /\ lock = c /\ script[c] # <<>> /\ Store = before /\ Serving
        /\ Store' = [x \in TensorCells |-> mem'[x]]
    BY <1>1, <2>1, AtTheAnswer
  <2>3. /\ Ops = r.ops /\ Len(Ops) \in Nat /\ graph.at = Len(Ops) + 1 /\ DOMAIN Ops = 1 .. Len(Ops)
    BY <1>0, <1>1, <2>2, ServingOps DEF Ops
  <2>4. ~Chunking /\ (InFlight => hw.state = "idle")
    BY <1>0, <1>1, <2>1, <2>3 DEF Chunking, Running, HwInv
  <2>5. \A x \in TensorCells : mem[x] = Model[x]
    BY <2>2, <2>4, Settled
  <2>6. Model = GraphEffect(before, Ops)
    BY <2>3 DEF Model, GraphEffect
  <2>7. Store' = GraphEffect(Store, r.ops)
    <3>1. Store' = [x \in TensorCells |-> Model[x]]
      BY <2>1, <2>2, <2>5
    <3>2. QED
      BY <1>0, <2>2, <2>3, <2>6, <3>1, ModelIsFunction
  <2>8. \A i \in DOMAIN r.ops : Works(r.ops[i])
    <3>1. \A k \in 1 .. graph.at - 1 : Works(Ops[k])
      BY <2>2 DEF DaemonInv, ValuesInv, ResultInv, WalkedInv
    <3>2. QED
      BY <2>3, <3>1
  <2>9. Daemon!AGraph(c)
    BY <1>1, <2>1, <2>7, <2>8, SameAnswer, SameOperators DEF Daemon!AGraph, Store, Request
  <2>10. QED
    BY <2>2, <2>9 DEF Daemon!ANext
<1>4. QED
  BY <1>2, <1>3

LEMMA StepRefines ==
  ASSUME DaemonInv, HistoryInv, [Next]_vars
  PROVE  [Daemon!ANext]_(Daemon!avars)
<1>0. ScheduleInv /\ ServerInv /\ RunInv
  BY DEF DaemonInv, ScheduleInv, TypeInv, Types
<1>1. ASSUME Store' = Store, UNCHANGED <<script, ret>> PROVE UNCHANGED Daemon!avars
  BY <1>1 DEF Store, Daemon!avars
<1>2. CASE UNCHANGED server /\ lock # NoClient
  BY <1>1, <1>2 DEF server, Store
<1>3. CASE UNCHANGED <<server, mem>>
  BY <1>1, <1>3 DEF server, Store
<1>4. CASE Hardware
  <2>1. UNCHANGED server /\ Running
    BY <1>4 DEF Hardware, LoadActs, StreamBlock, Stall, Running
  <2>2. lock # NoClient
    BY <1>0, <2>1, ScriptAssumption DEF RunInv, Serving
  <2>3. QED
    BY <1>2, <2>1, <2>2
<1>5. ASSUME NEW c \in Clients, Serve(c) PROVE Daemon!ANext \/ UNCHANGED Daemon!avars
  <2>1. CASE Recv(c)
    BY <1>1, <2>1 DEF Recv, Store
  <2>2. CASE Acquire(c)
    <3>1. /\ lock = NoClient /\ lock' # NoClient /\ UNCHANGED <<script, ret>>
          /\ before' = [x \in TensorCells |-> mem[x]]
      BY <2>2, ScriptAssumption DEF Acquire
    <3>2. Store' = Store
      BY <3>1 DEF Store
    <3>3. QED
      BY <1>1, <3>1, <3>2
  <2>3. CASE Upload(c)
    BY <2>3, UploadRefines
  <2>4. CASE Download(c)
    BY <2>4, DownloadRefines
  <2>5. CASE Refuse(c)
    BY <2>5, ErrorRefines DEF Refuse, Holds
  <2>6. CASE UnknownOp(c) \/ RefusedOp(c)
    BY <2>6, ErrorRefines DEF UnknownOp, RefusedOp, Ready, AtOp, InGraph, Holds
  <2>7. CASE Finish(c)
    BY <2>7, FinishRefines
  <2>8. CASE (Barrier(c) \/ WaitChunk(c)) /\ Error(c)
    BY <2>8, ErrorRefines DEF Barrier, WaitChunk, AtOp, InGraph, Holds
  <2>9. CASE Holds(c, "graph") /\ UNCHANGED server
    <3>1. lock # NoClient
      BY <1>0, <2>9, HolderServes, ScriptAssumption
    <3>2. QED
      BY <1>2, <2>9, <3>1
  <2>10. Barrier(c) \/ WaitChunk(c) => Holds(c, "graph") /\ (UNCHANGED server \/ Error(c))
    BY DEF Barrier, WaitChunk, AtOp, InGraph, server
  <2>11. PsRead(c) \/ PsWrite(c) \/ Issue(c) \/ StartChunk(c) => Holds(c, "graph") /\ UNCHANGED server
    BY DEF PsRead, PsWrite, Issue, StartChunk, Ready, AtOp, InGraph
  <2>12. QED
    BY <1>5, <2>1, <2>2, <2>3, <2>4, <2>5, <2>6, <2>7, <2>8, <2>9, <2>10, <2>11 DEF Serve
<1>6. QED
  BY <1>3, <1>4, <1>5 DEF Next, vars

\* The daemon keeps GraphSpec's promise for any clients, requests, shapes and
\* lengths of graphs: each request takes effect at once, and a graph that is
\* answered has computed what its ops one after the other would.  As with
\* Overlapped, no op may raise while a matmul is in flight.
THEOREM Refines ==
  ASSUME AllDrained
  PROVE  Spec => RefinesGraphSpec
<1>1. Init => Daemon!AInit
  <2>1. SUFFICES ASSUME Init PROVE Daemon!AInit
    OBVIOUS
  <2>2. \A x \in TensorCells : mem[x] = InitValue(x)
    BY <2>1 DEF Init
  <2>3. QED
    BY <2>1, <2>2 DEF Init, Daemon!AInit
<1>2. DaemonInv /\ HistoryInv /\ [Next]_vars => [Daemon!ANext]_(Daemon!avars)
  BY StepRefines
<1>3. QED
  BY <1>1, <1>2, SpecDaemonInv, SpecHistoryInv, PTL DEF Spec, RefinesGraphSpec, Daemon!ASpec
=============================================================================
