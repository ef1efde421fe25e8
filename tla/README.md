# A verification project for the TinyTapeout TPU

The repository builds one-bit-weight, eight-bit-activation matrix products three
ways: an ASIC tile (`src/src/rtl`), reached over USB through an RP2350 streamer
(`src/tools/rp_streamer`) by a ggml backend (`src/tools/bonsai_backend`); and a
PYNQ-Z1 board (`src/tools/pynqz1`) with an FPGA kernel, a Python daemon and a
second ggml backend. This directory models the parts whose correctness depends
on timing, ordering, failure or bookkeeping. TLC checks the models on small
instances, and TLAPS proves the central properties of the tile, of the USB
link, of the stored bitstream, of the tensor allocator and of the board daemon for
every size, and that a matrix product computed on the tile is exact.

`PROJECT.json` lists the runs, the map from definitions to source lines, the
hazards and the findings. A definition whose name has an underscore and a suffix
(`Lda_ungated`) is not part of a model: it is the definition after it with a slip
the code could have had, and shows that a property notices.

## The system

| Component | State | Operations | What is hard |
|---|---|---|---|
| ASIC tile (`src/src/rtl/*.v`) | controller FSM and step, weight, activation and accumulator memories, PE registers, error latch | one command byte per clock edge: LDW, LDA, SEED, START, RDP, STATUS, CLEAR, NOP; reset | three skewed wavefronts must meet; everything moves on every edge, whatever the command; commands to a busy tile are dropped silently |
| Tile protocol (`protocol.h/.cpp`, `plan.h`, `main.c: run_tile_macro`) | none | cycle list of a tile, packed descriptor, reply bytes | the same list is written twice, on the host and in firmware, and must agree; a fixed padding replaces polling; sign and byte order |
| Matmul lowering (`matmul.cpp`) | plan, sub-block table, accumulators per cell pair | `run_bonsai_matmul`, `run_cell_pair` | skipped groups, padding lanes, odd rows, which op's psum belongs to which block |
| USB transport (`transport-usb.cpp`) | shared connection, mutex, one dead flag per wrapper | create, execute, status, free | one byte stream with no sentinel; timeouts with replies still under way; several wrappers over one connection |
| Streamer firmware (`main.c`) | position in the current frame, FIFOs | header loop, X, M, a, d, F, L | blocking reads and writes that nothing interrupts |
| Stored bitstream (`bitstream_flash.c`, `ice40_loader.c`, `cli.py`) | flash header and payload, one-sector buffer | begin, append, end, present, load at boot | power loss at any point, an upload cut short, erase ranges |
| Tensor allocator (`board/memory/allocator.py`) | free lists per slab, records | allocate, free, walk, slab_view | fragmentation, multi-slab placement with rollback, cache lines |
| Board daemon (`board/daemon`) | lock, graph in progress | RPC dispatch, `run_graph` | asynchronous issue, barriers, failure between issue and completion |
| PL driver and runner (`kernels/pl`, `q1a8_runner.c`) | DMA channels in flight | start, wait, complete | time-outs, buffers reused under a transfer |
| Q1A8 FPGA kernel (`fpga/rtl/q1a8`) | FSM, counters, activation RAM, reducer pipeline, accumulators | start, load, stream, drain, emit | pipeline latency against the drain state; a RAM that answers a clock late; a start that meets a busy kernel |
| Q1A8 layout (`proto/q1a8_layout.py`) | none | sizes, `pack_weights`, `pack_acts` | lanes past the last row; the kernel has to read the order the packer wrote |
| PS kernels (`kernels/ps/native.py`, `native.c`) | none between ops | thirteen graph ops | operands that are pointers or copies depending on where the allocator cut them; results written over inputs; strides; failures half-way |
| Host backend and RPC (`host/backend`, `host/transport`) | buffers, handles, socket | alloc, set, get, graph compute | lost replies, handle life |

The ASIC path, from top to bottom: a ggml backend thread calls
`run_bonsai_matmul`, which for every pair of output rows builds a plan of tiles
and hands it to `UsbTransport::execute`; that packs each tile into three bytes,
takes the connection's mutex, writes one 'M' frame and reads the replies; the
firmware unrolls each descriptor into chip cycles and returns the bytes RDP gave.

## The modules

| Module | Models | Uses |
|---|---|---|
| `TileArith` | array size, byte and psum arithmetic, wrap-around | |
| `TpuTile` | the RTL, one step per edge | `TileArith`, `TileSpec` |
| `TileSpec` | what the tile promises: a run is one dot-product step | `TileArith` |
| `TpuTile_proofs` | theorems about `TpuTile`; it implements `TileSpec` | `TpuTile`, `SetInduction` |
| `SetInduction` | induction over numbers in the form of sets, iteration, concatenation of pieces | TLAPS |
| `TileProtocol` | command bytes, cycle lists, descriptors, replies | `TileArith` |
| `CellPair` | `run_cell_pair` as functions: plan, sub-blocks, fold | `TileProtocol` |
| `BonsaiMatmul` | threads, mutex, firmware and chip composed | `TpuTile`, `CellPair` |
| `BonsaiMatmul_proofs` | theorems about `BonsaiMatmul` | `BonsaiMatmul`, `TpuTile_proofs` |
| `UsbLink` | the byte stream, timeouts, FIFOs, wrappers | |
| `UsbLink_proofs` | theorems about `UsbLink` | `UsbLink`, `SetInduction` |
| `BitstreamFlash` | upload, flash, boot, power loss | |
| `BitstreamFlash_proofs` | theorems about `BitstreamFlash` | `BitstreamFlash`, TLAPS |
| `SlabRanges` | `_walk`, `slab_view`: a tensor's range as bytes of slabs | |
| `TensorAllocator` | free lists, placement | `SlabRanges` |
| `TensorAllocator_proofs` | theorems about `TensorAllocator` | `TensorAllocator`, `SetInduction` |
| `Q1A8Layout` | sizes and packed streams of weights and activations | |
| `Q1A8Kernel` | the FPGA kernel, one step per clock, and the driver's start and wait | `Q1A8Layout` |
| `PsOps` | what each graph op means, on whole tensors | `Q1A8Layout` |
| `PsSpec` | what a client sees of the ARM's kernels | `PsOps` |
| `PsKernels` | the ARM's kernels on slabs, copies and pointers | `SlabRanges`, `PsOps`, `PsSpec` |
| `Kernels_proofs` | theorems about `Q1A8Kernel` and about `PsKernels` | both, `SetInduction` |
| `GraphOps` | tensors, ops, what an op computes, ggml's arena guarantee | |
| `GraphSpec` | what the daemon promises: requests take effect at once, ops in order | `GraphOps` |
| `GraphScheduler` | server threads, lock, `run_graph`, PL driver, DMA and kernel | `GraphOps`, `GraphSpec` |
| `GraphScheduler_proofs` | types, overlap of ARM and PL, the daemon implements `GraphSpec` | `GraphScheduler`, `SetInduction` |
| `MC*` | constants for TLC, refinement mapping | |

**TpuTile.** The variables are the registers, with their RTL names; `acc_done`
and `valid_out` are sets of the rows and PEs whose bit is up. An action is one
command on one edge, and each moves the whole chip: the controller
(`TileCtrl`), the PEs (`PeArray`) and the capture (`Capture`), and then what the
command itself writes, gated by `Idle` as in `project.v`. `Observe` stands for
RDP, STATUS and NOP, which only the output multiplexer looks at. Selectors that
name no row or column are included and raise the error latch. Left out: pins
that are tied off, and the registers' contents before the first reset.

**TileProtocol, CellPair.** A cycle is a record of command, argument and data
byte; conversions (two's complement bytes, bit packing, byte order) are modelled
as computed. Floats are integers: a weight is plus or minus an integer scale, so
that every sum is exact and a wrong one cannot hide in rounding.
`quantize_acts_q8_0` and `make_matmul_job` are not modelled; their results are
the inputs.

**BonsaiMatmul.** One host thread per backend with its own cells to compute, the
mutex, the frame in progress, and `TpuTile` itself, one `chip_cycle` per step.
The link is reliable here. `IsJob` is what the code knows of its inputs: weights
that are plus or minus the scale of their group (the comment of
`weight_group_scale`), int8 activations, one scale per block.

**UsbLink.** The same calls at the level of bytes, with the chip reduced to who
caused which reply byte: every byte knows its frame and position, so "the replies
of this plan" can be stated. A bulk transfer moves a packet at a time and may
time out at any point; a packet larger than what is asked for is an overflow and
lost. A bus reset empties the FIFOs and does not touch the firmware's loop, which
has no reset handler. `OpenFails` covers all the failing returns of `open_device`.

**BitstreamFlash.** Flash is a header and one cell per payload byte; programming
a cell that is not erased leaves garbage, as NOR flash does. Erases are sector by
sector and programs page by page, with power loss between any two. `faults`,
chosen at the start of a behaviour, adds losses inside an operation ("torn") or
hosts that die while uploading ("cut"); the properties say which of them they bear. The checksum is the sequence of bytes itself. RAM is lost
with power, flash is not. Frames have a header of two symbols instead of five
bytes; a header arrives in one packet.

**TensorAllocator.** The lists and the loops of `allocator.py`, loops as recursive
functions. `_release` appends a block and sorts the list; the list is in order
before, so the model inserts the block where the sort would move it. The runtime's
lock makes operations atomic. `_walk` and `slab_view` are operators
that an invariant compares with the plain list of a tensor's bytes in every
reachable state.

**Q1A8Layout, Q1A8Kernel.** A stream is a sequence of two-byte cells, each
naming the value it is part of. The kernel's variables group the registers:
`fsm` (state and counters), `acts` (RAM, its output register, the sub-block being
assembled), `weights` (operand registers), `lanes` (control inputs, the three
pipeline registers, `last_pipe`, `done`, accumulators) and `host` (what the
driver wrote, what the DMAs moved, the two bits of `q1a8_kernel_top.v`). An action
is one clock of one FSM state; every one also clocks the RAM's output and the
lanes (`Datapath`). `Stall` is a clock without a beat. A sum is the sequence of
its contributions, so an accumulator with a wrong, missing, doubled or late
contribution differs from the right one; rounding is left out. `Strobe` and
`Waited` are the runner's start and wait. The `done` that ends `ST_WAIT_DONE` rises a clock before the
last accumulation; the drain that follows has slack. (`q1a8_reducer.v` says its
latency is two cycles and `REDUCER_LATENCY` is 2; the file has three registers.)

**PsOps, PsSpec, PsKernels.** A value is a term that names how it was computed;
an f16 is one cell, an f32 or i32 two, an i64 four. `PsOps` says what an op
means: `Expected(T, op)` gives the tensors after `op`. `PsKernels` runs the same op
the way the code does: `InPtr`, `OutPtr`, `ScratchPtr` and `RowPtr` are the four
ways operands are resolved (the slab itself, a copy, a zeroed buffer with
write-back, a prefilled one), and the loops of `native.c` are folds over one heap
that holds slabs and copies, element by element in their order, so operands that
share bytes interfere as they do in C. A read outside the heap is the value
`Wild`. `pynq` chooses between slabs with an address and the plain slabs of the
tests. Refusals keep their error codes; what a C function refuses is
`RuntimeError`. The third and fourth dimension of the row ops repeat the second
and are left out. Memory is the CPU's view: no caches, except for the
ranges SET_ROWS flushes.

**GraphScheduler.** One thread per client, the runtime's lock, `run_graph`'s
locals and the hardware. A value records how it was computed, so a stale or half
written operand shows in everything derived from it. A PS kernel is two steps,
reading its inputs and writing its result, with the stream running beside both.
The driver's chunks follow `run`: columns, rowblocks up to the byte cap and the
extent, whole rowblocks straight into the tensor and the rest through
`result_buf`. `before` is a history variable, the tensors when the lock was
taken: the refinement shows `GraphSpec` this snapshot until the answer. Left out:
caches, DMA resets, multi-extent activations and rowblocks that straddle extents
(copies through scratch), and ALLOC and FREE, which are `TensorAllocator`'s.
`ArenaSafe` is ggml's guarantee that graph.py relies on, stated as an assumption
on the graphs.

## The runs

| Run | Instance | Shows |
|---|---|---|
| `tile_2x2` | the chip's array, `BYTE = 2` | type, nothing in flight when idle, operands aligned, done fresh, the inductive invariant, operands held, fixed latency, runs end, and `TpuTile` implements `TileSpec` |
| `matmul` | blocks of 128 and 32; two threads, odd rows, padding, skipped groups and blocks, extreme activations | exact results, no wrap, sign kept; both encoders agree; no command meets a busy chip; all threads complete |
| `usb` | one wrapper with timeouts and crashes, or two without; FIFOs of two packets | own replies, frame boundaries agreed, no deadlock between full FIFOs, calls return and succeed |
| `flash` | region of three sectors, up to three frames, two power losses | crash consistency, stored means sent, boots restore |
| `graph` | graphs of up to three of twelve ops beside a second client, hardware that may stop | the overlap of ARM and PL implements `GraphSpec`, nothing under a stream is touched, every request is answered |
| `allocator` | slabs of 11 and 7 units, four tensors | partition, coalescing, exact rollback, ranges, cache lines |
| `ps_kernels` | 40 ops of all kinds, two in a row, PYNQ or plain slabs, twelve layouts with each tensor whole or cut | the kernels implement `PsSpec`; cuts never make an op fail (but GET_ROWS, which is given no cut row, does fail on one); SET_ROWS flushes what it wrote |
| `q1a8_kernel` | 8 rows, 4 sub-blocks, 4 beats; three starts of 8x1, 16x1 or 9x2 (rows by Q1 blocks); stalls anywhere | every sum is exact, tlast and done at the right time, every start finishes |

Bounds. A byte of two values keeps the carries and wrap-arounds of a psum
(`BYTE * BYTE` values) with every operand enumerated; alignment does not depend
on the data, and the theorems cover every array size. `BYTE = 256` is used where values matter (run `matmul`). Two
hosts are enough for the mutex and the shared stream, which treat hosts alike;
`MAX_FRAMES` allows a bring-up (five frames) and three or four calls after it, so a
timed-out call can be followed by another's. `FIFO` sizes of two packets make
both directions fill with plans of 48 tiles; the code's are 4096 bytes. Pages of
two, sectors of four and chunks of three make a chunk straddle a sector and a
tail end inside a page. Three ops are a matmul, one that runs under it and one
that must not; with rowblocks of two rows, extents of four cells and chunks of two
rowblocks, every branch of `run` and `run_async` is taken. In run `graph` an op
that raises comes when nothing is in flight; run `graph_orphan` has the other
case. Slab sizes are no multiple of an alignment. For the PS kernels a sub-block is one element, a rowblock two rows and a head two
elements: three weight rows leave a half-filled rowblock, and the cuts fall
between rows, inside rows and inside elements. Two ops in a row let one's result
be the other's input. Results lie apart from the inputs, over one that starts at
the same place, or, for COPY and MATMUL, shifted into one; none lies over a broadcast
`src1` or a norm's weight. GET_ROWS has no way round a row that is cut and is given
none (`resource_bound` under the hazards); attention over a side-by-side cache is
given a whole cache, and run `ps_attn` has the cut one. Run `q1a8_kernel` has the real sizes
but for the activation RAM, of which it fills eight sub-blocks of 256; nine rows
leave seven lanes of a rowblock empty.

Deadlock checking is off where the system may come to rest (a bounded number of
calls or allocations).

Fairness. The clock of the tile does not stop during a run (no CLEAR or reset is
assumed); the firmware's loop and the device controller run; while a thread can
go on, some thread does, DMA engines move or stop for good (in run `q1a8_kernel`
they keep offering and taking beats), and libusb either moves a packet or times out. No
fairness is assumed of locks (each thread's work is finite), of power loss, of
timeouts or of hosts.

### Disagreements the runs show

| Run | What |
|---|---|
| `usb_shared` | after one wrapper's timeout, another wrapper over the same connection is given its late replies and returns true. |
| `flash_cut` | "fewer bytes than promised" is never reported: the next host's bytes complete the file, and the mixture is stored and booted. |
| `graph_orphan` | an op that raises while a matmul streams frees the lock without the wait that the runner's contract asks for: the next request writes under the stream. |
| `ps_attn` | the range of an attention operand is computed from the stride of the heads, the smaller one when the heads of a position lie side by side: over a cache that the allocator has cut, the kernel reads past the copy. |

Read in the code while modelling, without a run of their own (under hazards in
`PROJECT.json`): the USB descriptor has no room for the seeds `plan.h` promises
(every caller passes zero); `create_usb_transport` returns a dead transport where
its comment says nullptr; the stored checksum is never compared, so a power loss
inside the first erase or the header's program can leave an accepted header over
another payload; a refused upload's body is read as frames; `transport-usb.cpp`
and `host/protocol.py` say that a bus reset restarts the firmware's loop, which
has no reset handler (run `flash_cut` shows the effect); `lowering.cpp` accepts
attention up to 8192 positions and `native.py` refuses more than 1024; nothing
checks `k` against the 8192 activations the kernel's RAM holds; GET_ROWS takes every
rowblock for uncut, but the allocator cuts a tensor where a slab ends and a packed
rowblock, `144 * k / 128` bytes, does not divide 32 MiB, so a token over the cut cannot
be looked up; the error bit `run_bonsai_matmul` samples may be another thread's.

## What is proved

| Module | Theorem | Statement |
|---|---|---|
| `TpuTile_proofs` | `TypeCorrect` | `Spec => []TypeOK` |
| | `PipelineHolds` | `Spec => []PipelineInv` |
| | `Quiescence` | `Spec => []NothingInFlight` |
| | `Alignment` | `Spec => []MacAligned` |
| | `DoneIsFresh` | `Spec => []DoneMeansCaptured` |
| | `RunIsolation` | `Spec => OperandsHeld` |
| | `FixedLatency` | `Spec => ExactLatency` |
| | `Refines` | `Spec => RefinesTileSpec` |
| `BonsaiMatmul_proofs` | `ProductIsExact` | `MSpec => []ResultsExact` |
| | `FirmwareNeedNotPoll` | `MSpec => []CommandsLand` |
| | `MacroDrivesAsHost` | `MSpec => []MacroMatchesHost` |
| | `StatusNeverFails` | `MSpec => []NeverFails` |
| `UsbLink_proofs` | `TypeCorrect` | `Spec => []TypeOK` |
| | `LinkHolds` | `OneOpen`, `FaultyAlone` imply `Spec => [](TypeInv /\ LinkInv)` |
| | `StaysSynced` | the same imply `Spec => []Synced` |
| | `GetsOwnReplies` | the same imply `Spec => []OwnReplies` |
| | `CallsSucceed` | the same imply `Spec => []AllSucceed` |
| `BitstreamFlash_proofs` | `TypeCorrect` | `Spec => []TypeOK` |
| | `NeverOverwrites` | `Spec => []CellsClean` |
| | `AcceptedIsWhole` | `Spec => []PresentIsWhole` |
| | `RunsWhatIsStored` | `Spec => []BootRestores` |
| | `OkIsStored` | `FilesFit` implies `Spec => []OkMeansStored` |
| | `StoredIsAuthentic` | `FilesFit` implies `Spec => []Authentic` |
| `GraphScheduler_proofs` | `TypeCorrect` | `Spec => []TypeOK` |
| | `Overlapped` | `AllDrained` implies `Spec => WaitBeforeReuse` |
| | `AnswerIsFinal` | `AllDrained` implies `Spec => QuietBetween` |
| | `Refines` | `AllDrained` implies `Spec => RefinesGraphSpec` |
| `Kernels_proofs` | `RowsAreExact` | `Spec => []RowsExact` |
| | `RowsAreFlushed` | `PSpec => []FlushCovers` |
| | `CutsStayHidden` | `RowsUncut` implies `PSpec => []CutsAreHidden` |
| `TensorAllocator_proofs` | `TypeCorrect` | `Spec => []TypeOK` |
| | `StayCoalesced` | `Spec => []Coalesced` |
| | `BytesPartitioned` | `Spec => []Partition` |
| | `RangesAreExact` | `Spec => []RangesExact` |
| | `LinesStayPrivate` | `WholeLines` implies `Spec => []LinesPrivate` |
| | `FailureLeavesNoTrace` | `Spec => [][last'.code = "out_of_memory" => UNCHANGED free]_vars` |

**The tile**, for every `ROWS`, `COLS` and `BYTE` that satisfy `TileAssumption`
(positive sizes, a byte of at least two values). `TypeOK` is inductive once
the byte splice of SEED and the PEs' sum are shown to stay in range. None of the
others is: that a PE meets the right operands now depends on where the wavefront
was an edge ago. `PipelineInv` says where everything is at each step of a run:
while loading, the first `step` PEs of a row hold its last `step` weights; while
running, the valid partial sums are exactly those on the anti-diagonal
`r + c + 1 = step`, each with its column's activation beside it, and the rows
captured are exactly those the front has left; while idle, nothing is valid. With
`TypeOK` it is inductive, one lemma per kind of step, and the other results follow
from it.

That the tile implements `TileSpec` needs the values too: `PsumInv` says that a
valid partial sum in column `c` is its row's accumulator plus the row's products up
to `c`, modulo the width of a sum. It is kept because a sum may wrap at any of its
terms (`WrapEarly`) and because the operands beside the sum are the right ones
(`PipelineInv`). A row that leaves the array has all its products, so the capture
stores what `TileSpec` promised at START: START is `Run`, the edge back to idle is
`Finish`, every other edge of a busy tile is a stutter, and a command to an idle
tile is the write of the same name.

**A product on the tile**, for any number of threads, all jobs that satisfy `IsJob`,
of any size, all group and block sizes of which one divides the other and a block's
int8 cannot overflow an int16 (`BlocksFit`), and any padding of at least 6
(`MatmulAssumption`; the array is the 2 x 2 of the code). The proof follows the data
down and up again. *A tile*: the cycles of `BuildTilePairs` place by place
(`TilePlaces`), and that three packed bytes unroll to the same cycles
(`MacroIsPairs`). *An edge*: cycle `p` of a tile finds the chip as the cycle before
left it (`TileEdge`): operands loaded so far, the accumulators the tile before left,
and, `p` edges after START, at most `TileLatency - p` edges of the run to go, which
is why 6 cycles of padding are enough; this rests on the tile's own invariants and
its latency. *A frame*: `At(P, t, p)` says that of plan `P` tile `t` is in the
chip, `p` cycles done, the descriptors behind it in the frame, and the reply so far
is the sums of the runs that ended; every step of firmware and chip takes it to the
next place (`NextTileAt`, `ChipCycleAt`), and a finished one gives the host the exact
sums (`ReplyAt`). *A row*: the sum of a run is the signed sum of its block's
activations, padding lanes included (`BlockRun`), the scale is the magnitude of every
weight of the group (`ScaleExact`), a skipped block contributes nothing (`BlockAdds`),
so the fold is the dot product (`FoldExact`). *The loops* reach every cell
(`EveryCell`). *The threads*: `MatmulInv`, the inductive invariant, says which round
each thread is in and with which plan, that exactly the rounds before it are in `dst`
with their dot products, and that the link is quiet or at `At` of the plan of the one
thread that holds `io_mutex`. None of the properties is inductive without it.

**The USB link**, for all packet, chunk and FIFO sizes in which a bring-up frame
and its replies fit (`LinkAssumption`; 21 bytes at most, the code has 64-byte
packets and 4096-byte FIFOs) and all plans of fewer than 65536 tiles, not empty,
whose last tile ends a run: `execute` returns at once on an empty plan, and the
lowering ends every run it starts. The stream has no sentinel, so the invariant has
to say where every byte is. During an `execute` or a `status`, the firmware's
buffer, the FIFO towards it and what the host has yet to write are consecutive
slices of the call's frame (`Going`); what the host has read, the endpoint, the
FIFO back and what the firmware has yet to place there are consecutive slices of
the replies due (`Coming`); and the firmware's count says which reply the next item
of the frame will cause (`Place`, `CallInv`). During the bring-up less is known:
`cycle_reset_and_check` goes on after a failed NOP frame, so several of the five
frames, and late replies of earlier ones, may be under way. `OnWire` says that the
frames are whole and in order and that the replies are those to whole frames, eight,
four or one byte long; a single byte in a packet can then only be the answer to
STATUS, the last frame, and a bring-up that succeeds leaves nothing behind. Two
hypotheses bound the claim, as in run `usb`. `FaultyAlone`: a transport that may
meet timeouts has the connection to itself; run `usb_shared` shows what happens
otherwise. `OneOpen`: the device is opened once; a host that dies inside a frame
leaves the firmware counting body bytes, and the next host's headers complete them
(`crash_recovery` under the hazards). Within these, timeouts and crashes come
anywhere.

**The stored bitstream**, for every page, sector, chunk and region size that
`FlashAssumption` allows (whole pages in a sector, whole sectors in the region)
and all files. `FlashInv` follows one upload through the writer: what has been
erased covers all that will be programmed (`EraseInv`), the bytes received so far
are what is in flash plus what is in the buffer, in order (`ReceivedInv`,
`BufferInv`, `WrittenInv`), a page operation has its own bounds (`JobInv`), and the
header is written over them only when all are there. Power may be lost in any
state, so every conjunct also has to survive losing RAM. `HostInv` adds the host:
which frame is in the stream, and that what was answered is what the device has;
it holds while no host dies inside an upload, and it needs `FilesFit`, that no file
is larger than the region: `flash-bitstream` sends the body of a refused file all
the same, and its bytes are then read as frames.

**The daemon**, for all clients, requests, graphs, shapes, chunk caps and extents
that satisfy `ScriptAssumption` (ops are on allocated tensors of the sizes their
shape needs, or are "refused": they raise before they touch anything. A matmul whose
weights or result turn out too small in a later chunk raises after the first ones
were written; clients do not send it) and
`ArenaAssumption` (ggml's guarantee). `ScheduleInv` says who holds the lock, where
in its graph the request is, which stretch of which tensors the PL has been given,
and that a matmul in flight is one that no op since has touched. `ValuesInv` says
what every cell holds: off the result in progress, the tensors are what the ops
passed so far compute one after the other (`After`) from the snapshot `before`; a
chunk the PL has finished is right, and one it has yet to write will be, from the
activations and weights as they are now. That last part is the heart of it: an op
that runs under the stream leaves those operands alone only because of
`ArenaSafe` and the barrier. Every step then maps to a stutter of `GraphSpec`,
except the answers, which map to the request. `AllDrained` excludes the graphs in
which an op raises over a running stream; run `graph_orphan` shows that the daemon
breaks its promise there.

**The FPGA kernel**, for every even number of lanes, all block sizes
(`LayoutAssumption`), every length of the pipe that announces the end and all shapes
whose activations fit the RAM (`KernelAssumption`; the code's RAM holds 8192 of
them, and that nothing checks `k` against it is listed under the hazards). Between
a word on a stream and a row's sum lie two counters, the RAM, the operand registers
and a pipeline, so `KernelInv` follows a value all the way. *The streams*: the packed
layouts, given as concatenations, place by place: which beat holds which lane's scale
or mask (`ScaleBeat`, `BitBeat`) and which sub-block's activations (`ActsBeat`).
*Loading* (`LoadInv`, `AccumInv`, `RamInv`): the position in the activation stream is
the sub-block being assembled, its beats are in the register, all before it in the RAM.
*Feeding* (`FeedInv`, `WeightsInv`): the position in the weight stream is a product of
the counters, and the lanes whose beat has come hold their own operands. *The
pipeline* (`PipeInv`): of the sub-blocks issued, the accumulators have the first `m`
and the stages the others, in order, with bubbles anywhere between them, since a
stalled stream stops the issue and not the lanes. *The end* (`DoneInv`): `done` is not
up before the last sub-block has left the first stage, so the drain meets at most one
filled stage and has two clocks to spare, even for a pipe of length 1. `Emitted` then counts the rows that have left, each with its own sum.
`RowsExact` alone is not inductive: it says nothing about a row before it leaves.

**The ARM's kernels**, for all boards, tensors and ops whose extents and row fields are
numbers (`BoardAssumption`), whatever the memory holds. `FlushCovers`: along the rows of
a SET_ROWS, `Covered` says that what has been written in place lies within the hull
touched so far in its slab; a row that is cut, or whose slab has no address, goes
through a copy and leaves both alone, and `Touch` only widens a hull (`TouchCovers`).
That hulls are intervals of numbers needs that `slab_view` gives numbers
(`ViewOffset`). `CutsAreHidden`: each way to resolve an operand turns a cut into
something else (`InHidden`, `OutHidden`, `ScratchHidden`), and the first error of an op
is one of its operands' (`FirstErrorHidden`). GET_ROWS has no such way; `RowsUncut`
says of its rows what a comment in `native.py` does, that each lies in one extent.
The boards of run `ps_kernels` satisfy it; the allocator does not promise it.

**The allocator**, for all slabs that are not empty, all request sizes and all
positive alignments (`AllocatorAssumption`). The lemmas follow the code from the
inside out: `_take` and `_take_largest` cut a range out of a list and leave a list
in order (`CutOut`), a block sorted in and merged covers what both covered
(`Released`), the extents of a tensor go back one by one (`ReleasedAll`), and
whatever `allocate` returns was `Carved` out of the lists, aligned, whether from one
block, from many or after a rollback (`PlaceCarves`). The invariant `Inv` adds up
the bytes: the lists are in order with gaps between blocks (`FreeLists`), a tensor's
extents do not overlap (`TensorsInv`), and a slab's bytes are those of its list and
of the tensors, none in two of them (`SharedInv`); `Partition` alone is not
inductive, as it does not say that handles are fresh and lists in order.
`FailureLeavesNoTrace` rests on one more lemma: a list in order with gaps is
determined by the bytes it covers. `RangesExact` needs that a tensor's extents add up
to its size (`SizesInv`); along the extents, the pieces `_walk` has yielded are the
bytes of the range before its cursor (`WalkedTo`), and `slab_view` has stopped at the
extent that holds the range's first byte, if it has met it. `WholeLines` says that the alignments asked for
are multiples of the cache line; the daemon's default is one line, and a client
that asks for less loses the guarantee.

What a recursive function computes (the dot product of a row, `After` over the ops of a graph, the cells of a
tensor, the merge of a free list) is proved by induction over numbers in the form of sets (`SetInduction`):
the library's induction theorems take an operator, which the provers cannot
instantiate; a set in its place they can.

Only model-checked: liveness (`RunEnds`, `Completes`, `CallsReturn`,
`UploadsEnd`, `Answered`, `Finishes`), which the provers do not reach; the
refinement of `PsSpec` by `PsKernels`, whose thirteen ops are folds over heaps of
terms; and of the allocator,
that a failure means too little space (the second half of `FailsOnlyWhenFull`; the
first is `FailureLeavesNoTrace`).

## State of the plan

Modelled and checked: everything in the table of modules. Proved: the tile with its
refinement of `TileSpec`, the product on the tile from end to end, the USB link, the
stored bitstream, the allocator, the daemon with its refinement of `GraphSpec`, the FPGA
kernel, and of the ARM's kernels all but their refinement of `PsSpec`: every invariant
that a passing run checks. What a continuation would prove next is that refinement, op by op.

## Not modelled

Float rounding everywhere, and quantisation (`quantize_acts_q8_0`,
`_quantize_q8_0`): the models compare how values are composed, not their bits.
Caches: what PYNQ's flush and invalidate do to a dirty line is not in the
repository. The host backend of the board and its RPC client: one blocking call
at a time over TCP, and glue over ggml's structures, whose guarantees appear as
assumptions (`ArenaSafe`). `merge_acts` and `_pack_rowblock_into`, which build the
stream of an older bitstream. Build, deployment, Tcl, benchmarks, fixtures,
profiling and the board's command-line tools: no state of their own. The Verilator transport (a test fixture
that drives the same cycle list); the vendor's USB stack and libusb beyond what
the code relies on (packets, FIFOs, time-outs); the iCE40's configuration
handshake (one step here).
