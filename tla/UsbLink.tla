------------------------------ MODULE UsbLink ------------------------------
(***************************************************************************)
(* The USB link between UsbTransport and the firmware, byte by byte: the   *)
(* host's calls (create_usb_transport, execute, status) made by the        *)
(* backends of a process over one shared AsicConnection, bulk transfers    *)
(* that move one packet at a time and may time out or overflow, TinyUSB's  *)
(* FIFOs, and the firmware's loop, which reads a five-byte header, then    *)
(* the body it announces, chunk by chunk, and nothing else: the stream has *)
(* no sentinel.                                                            *)
(*                                                                         *)
(* A byte carries its value v and where it comes from: frame f, position   *)
(* i.  A reply byte carries the position of the bytes that caused it.      *)
(* Header modes 'B', 'F' and 'L' are never sent by this transport.         *)
(***************************************************************************)
EXTENDS Integers, SequencesExt

CONSTANTS Processes,       \* the host process: sets of UsbTransport objects it may have
          NoCall,          \* io_mutex is free
          Plans,           \* plans to execute: per op, whether it ends a run
          PACKET,          \* bulk packet size (64)
          XCHUNK, MCHUNK,  \* the firmware's chunk sizes in pairs (64) and tiles (32)
          RXFIFO, TXFIFO,  \* TinyUSB's FIFOs (4096 each)
          Faulty,          \* the sets with which transfers may time out
          MAX_FRAMES,      \* bound: frames sent
          MAX_OPENS        \* bound: times the device is opened

\* A bring-up frame fits into a packet and a chunk, and its replies into the FIFO.  execute
\* sends no empty plan, and the last tile of a plan ends a run.
ASSUME LinkAssumption ==
  /\ PACKET \in Nat /\ PACKET >= 21 /\ XCHUNK \in Nat /\ XCHUNK >= 8 /\ MCHUNK \in Nat \ {0}
  /\ RXFIFO \in Nat /\ TXFIFO \in Nat /\ TXFIFO >= 13
  /\ MAX_FRAMES \in Nat /\ MAX_OPENS \in Nat
  /\ \A plan \in Plans : plan \in Seq(BOOLEAN) /\ plan # <<>> /\ plan[Len(plan)] = TRUE

\* The two high bytes of a header's count are not used.
ASSUME CountAssumption == \A plan \in Plans : Len(plan) < 65536

VARIABLES
  wrapper,      \* of each transport: "none", "live" or "dead" (UsbTransport::dead)
  conn,         \* AsicConnection: open, reset_done, reset_ok
  call,         \* the call that holds the mutex, or NoCall
  ret,          \* what the last call returned
  rx_ff, tx_ff, \* device FIFOs, host to device and back
  ep_in,        \* the packet armed on the IN endpoint
  fw,           \* firmware: mode, bytes read of the current item, items left
  pend,         \* reply bytes usb_write_blocking still has to place
  chip_ok,      \* the chip is there and answers status
  frames, opens

usb      == <<rx_ff, tx_ff, ep_in>>
firmware == <<fw, pend>>
vars     == <<wrapper, conn, call, ret, usb, firmware, chip_ok, frames, opens>>

Wrapper == DOMAIN wrapper

Least(a, b) == IF a < b THEN a ELSE b
Take(s, n)  == SubSeq(s, 1, Least(n, Len(s)))
Drop(s, n)  == SubSeq(s, n + 1, Len(s))

\* ASCII of the header modes, chip opcodes, and a descriptor's flag byte
MODE_X == 88
MODE_M == 77
MODE_a == 97
MODE_d == 100
CMD_NOP == 7
CMD_STATUS == 0
EndsFlag_always(ends) == 48
EndsFlag(ends) == IF ends THEN 48 ELSE 16
-----------------------------------------------------------------------------
(* The frames of the host. *)

Header(mode, n) == <<mode, n % 256, n \div 256, 0, 0>>
XBytes(cmd, n)  == Header(MODE_X, n) \o FlattenSeq([i \in 1 .. n |-> <<cmd, 0>>])
MBytes(plan)    == Header(MODE_M, Len(plan))
                   \o FlattenSeq([i \in 1 .. Len(plan) |-> <<1, 1, EndsFlag(plan[i])>>])

Stamp(f, bytes) == [i \in 1 .. Len(bytes) |-> [f |-> f, i |-> i, v |-> bytes[i]]]

\* A round trip: bytes to write, reply bytes to read, and whether its failure
\* fails the call.
Trip(bytes, replies, must) == [bytes |-> bytes, replies |-> replies, must |-> must]

\* cycle_reset_and_check ignores what the two NOP frames return.
BringUp == <<Trip(Header(MODE_a, 0), 0, TRUE), Trip(XBytes(CMD_NOP, 8), 8, FALSE),
             Trip(Header(MODE_d, 0), 0, TRUE), Trip(XBytes(CMD_NOP, 4), 4, FALSE),
             Trip(XBytes(CMD_STATUS, 1), 1, TRUE)>>

\* Four reply bytes for each op that ends a run; RepliesUpto counts those of the first ops.
RepliesUpto(plan) ==
  LET bytes[i \in 0 .. Len(plan)] == IF i = 0 THEN 0 ELSE bytes[i - 1] + (IF plan[i] THEN 4 ELSE 0)
  IN  bytes
ReplyBytes(plan) == RepliesUpto(plan)[Len(plan)]

\* What a call keeps while it holds the mutex.
Call == [w : UNION Processes, kind : {"create", "execute", "status"}, plan : Seq(BOOLEAN),
         trips : Seq([bytes : Seq(Nat), replies : Nat, must : BOOLEAN]),
         got : Seq([f : Nat, i : Nat, b : Nat]), tx : Seq([f : Nat, i : Nat, v : Nat]), first : Nat]

ASSUME NoCallAssumption == NoCall \notin Call

\* What the replies to plan, sent as frame f, look like: four bytes for each op
\* that ends a run, caused by that op's descriptor.
Expected(f, plan) ==
  FlattenSeq([i \in 1 .. Len(plan) |->
    IF plan[i] THEN [b \in 1 .. 4 |-> [f |-> f, i |-> 3 + 3 * i, b |-> b]] ELSE <<>>])
-----------------------------------------------------------------------------
Init ==
  /\ wrapper \in {[w \in S |-> "none"] : S \in Processes}
  /\ conn = [open |-> FALSE, reset_done |-> FALSE, reset_ok |-> FALSE]
  /\ call = NoCall
  /\ ret = [kind |-> "none", ok |-> FALSE]
  /\ rx_ff = <<>> /\ tx_ff = <<>> /\ ep_in = <<>>
  /\ fw = [mode |-> "hdr", buf |-> <<>>, left |-> 0]
  /\ pend = <<>>
  /\ chip_ok \in BOOLEAN
  /\ frames = 0 /\ opens = 0

\* A call starts with its first trip still to be written.
Begin(w, kind, plan, trips) ==
  /\ frames + Len(trips) <= MAX_FRAMES
  /\ call' = [w |-> w, kind |-> kind, plan |-> plan, trips |-> trips, got |-> <<>>,
              tx |-> Stamp(frames + 1, Head(trips).bytes), first |-> frames + 1]
  /\ frames' = frames + 1

\* create_usb_transport.  Opening the device resets the bus, which empties
\* TinyUSB's FIFOs; the firmware's loop has no part in it and goes on.
\* g_conn_mutex keeps two creates apart, and only the first one needs io_mutex.
Create(w) ==
  /\ wrapper[w] = "none"
  /\ \/ /\ ~conn.open /\ opens < MAX_OPENS
        /\ conn' = [open |-> TRUE, reset_done |-> FALSE, reset_ok |-> FALSE]
        /\ rx_ff' = <<>> /\ tx_ff' = <<>> /\ ep_in' = <<>>
        /\ opens' = opens + 1
        /\ Begin(w, "create", <<>>, BringUp)
        /\ UNCHANGED <<wrapper, ret>>
     \/ /\ conn.open /\ conn.reset_done
        /\ wrapper' = [wrapper EXCEPT ![w] = IF conn.reset_ok THEN "live" ELSE "dead"]
        /\ ret' = [kind |-> "create", ok |-> conn.reset_ok]
        /\ UNCHANGED <<conn, call, usb, frames, opens>>
  /\ UNCHANGED <<firmware, chip_ok>>

\* open_device fails, before or after its reset: there is no transport.
OpenFails(w) ==
  /\ Wrapper \in Faulty /\ ~conn.open /\ opens < MAX_OPENS
  /\ opens' = opens + 1
  /\ ret' = [kind |-> "nullptr", ok |-> FALSE]
  /\ \/ rx_ff' = <<>> /\ tx_ff' = <<>> /\ ep_in' = <<>>
     \/ UNCHANGED usb
  /\ UNCHANGED <<wrapper, conn, call, firmware, chip_ok, frames>>

Execute(w, plan) ==
  /\ call = NoCall /\ wrapper[w] = "live"
  /\ Begin(w, "execute", plan, <<Trip(MBytes(plan), ReplyBytes(plan), TRUE)>>)
  /\ UNCHANGED <<wrapper, conn, ret, usb, firmware, chip_ok, opens>>

Status(w) ==
  /\ call = NoCall /\ wrapper[w] = "live"
  /\ Begin(w, "status", <<>>, <<Trip(XBytes(CMD_STATUS, 1), 1, TRUE)>>)
  /\ UNCHANGED <<wrapper, conn, ret, usb, firmware, chip_ok, opens>>

\* execute and status of a dead transport: no traffic, and no lock taken.
Refuse(w) ==
  /\ wrapper[w] = "dead"
  /\ ret' = [kind |-> "refuse", ok |-> FALSE]
  /\ UNCHANGED <<wrapper, conn, call, usb, firmware, chip_ok, frames, opens>>

\* The backend is freed; the last one closes the device.
Free(w) ==
  /\ wrapper[w] # "none" /\ (call # NoCall => call.w # w)
  /\ wrapper' = [wrapper EXCEPT ![w] = "none"]
  /\ conn' = [conn EXCEPT !.open = \E o \in Wrapper \ {w} : wrapper[o] # "none"]
  /\ UNCHANGED <<call, ret, usb, firmware, chip_ok, frames, opens>>

\* The host process dies, at any point.
Crash ==
  /\ conn.open
  /\ wrapper' = [w \in Wrapper |-> "none"]
  /\ conn' = [conn EXCEPT !.open = FALSE]
  /\ call' = NoCall
  /\ UNCHANGED <<ret, usb, firmware, chip_ok, frames, opens>>
-----------------------------------------------------------------------------
(* A call's transfers. *)

Return_staysLive(ok, got) ==
  /\ call' = NoCall
  /\ ret' = [kind |-> call.kind, ok |-> ok, f |-> call.first, plan |-> call.plan, got |-> got]
  /\ wrapper' = [wrapper EXCEPT ![call.w] = "live"]
  /\ conn' = IF call.kind = "create"
             THEN [conn EXCEPT !.reset_done = TRUE, !.reset_ok = ok] ELSE conn
  /\ UNCHANGED frames

\* The call returns what it got.  A failed execute or status kills its own
\* transport only; a create hands out a transport in any case, dead if the chip
\* was not ready.
Return(ok, got) ==
  /\ call' = NoCall
  /\ ret' = [kind |-> call.kind, ok |-> ok, f |-> call.first, plan |-> call.plan, got |-> got]
  /\ wrapper' = [wrapper EXCEPT ![call.w] = IF ok THEN "live" ELSE "dead"]
  /\ conn' = IF call.kind = "create"
             THEN [conn EXCEPT !.reset_done = TRUE, !.reset_ok = ok] ELSE conn
  /\ UNCHANGED frames

\* The trip is over: the next one, or the end.  The last byte of a bring-up is
\* checked for START_READY without error; a byte of a partial sum may look like it.
EndTrip(got) ==
  \/ /\ Len(call.trips) > 1
     /\ call' = [call EXCEPT !.trips = Tail(@), !.got = <<>>,
                             !.tx = Stamp(frames + 1, call.trips[2].bytes)]
     /\ frames' = frames + 1
     /\ UNCHANGED <<wrapper, conn, ret>>
  \/ /\ Len(call.trips) = 1 /\ call.kind # "create"
     /\ Return(TRUE, got)
  \/ /\ Len(call.trips) = 1 /\ call.kind = "create"
     /\ \E ready \in BOOLEAN : /\ got[1].b = 0 => ready = chip_ok
                               /\ Return(ready, got)

FailTrip ==
  \/ Head(call.trips).must /\ Return(FALSE, <<>>)
  \/ ~Head(call.trips).must /\ EndTrip(<<>>)

\* bulk_write: a packet is accepted once the device's FIFO has room for it.
WritePacket ==
  /\ call # NoCall /\ call.tx # <<>>
  /\ LET p == Take(call.tx, PACKET)
     IN  /\ Len(rx_ff) + Len(p) <= RXFIFO
         /\ rx_ff' = rx_ff \o p
         /\ \/ /\ Len(p) = Len(call.tx) /\ Head(call.trips).replies = 0
               /\ EndTrip(<<>>)
            \/ /\ Len(p) < Len(call.tx) \/ Head(call.trips).replies > 0
               /\ call' = [call EXCEPT !.tx = Drop(@, PACKET)]
               /\ UNCHANGED <<wrapper, conn, ret, frames>>
  /\ UNCHANGED <<tx_ff, ep_in, firmware, chip_ok, opens>>

\* bulk_read: one packet; one longer than what is left to read is an overflow,
\* and lost.
ReadPacket ==
  /\ call # NoCall /\ call.tx = <<>> /\ ep_in # <<>>
  /\ ep_in' = <<>>
  /\ LET got  == call.got \o ep_in
         want == Head(call.trips).replies
     IN  \/ Len(got) > want /\ FailTrip
         \/ Len(got) = want /\ EndTrip(got)
         \/ /\ Len(got) < want
            /\ call' = [call EXCEPT !.got = got]
            /\ UNCHANGED <<wrapper, conn, ret, frames>>
  /\ UNCHANGED <<rx_ff, tx_ff, firmware, chip_ok, opens>>

\* bulk_timeout_ms have passed: what was not transferred never will be.
Timeout ==
  /\ Wrapper \in Faulty /\ call # NoCall
  /\ FailTrip
  /\ UNCHANGED <<usb, firmware, chip_ok, opens>>
-----------------------------------------------------------------------------
(* TinyUSB and the firmware. *)

ArmPacket_noFlush ==
  /\ ep_in = <<>> /\ Len(tx_ff) >= PACKET
  /\ ep_in' = Take(tx_ff, PACKET) /\ tx_ff' = Drop(tx_ff, PACKET)
  /\ UNCHANGED <<wrapper, conn, call, ret, rx_ff, firmware, chip_ok, frames, opens>>

ArmPacket ==
  /\ ep_in = <<>> /\ tx_ff # <<>>
  /\ ep_in' = Take(tx_ff, PACKET) /\ tx_ff' = Drop(tx_ff, PACKET)
  /\ UNCHANGED <<wrapper, conn, call, ret, rx_ff, firmware, chip_ok, frames, opens>>

\* The bytes usb_read_blocking is called for: a header, or a chunk of the body.
Batch == Least(fw.left, IF fw.mode = "X" THEN XCHUNK ELSE MCHUNK)
Need  == CASE fw.mode = "hdr" -> 5
           [] fw.mode = "X"   -> 2 * Batch
           [] fw.mode = "M"   -> 3 * Batch

FwRead_greedy ==
  /\ pend = <<>> /\ Len(fw.buf) < Need /\ rx_ff # <<>>
  /\ fw' = [fw EXCEPT !.buf = @ \o rx_ff] /\ rx_ff' = <<>>
  /\ UNCHANGED <<wrapper, conn, call, ret, tx_ff, ep_in, pend, chip_ok, frames, opens>>

FwRead ==
  /\ pend = <<>> /\ Len(fw.buf) < Need /\ rx_ff # <<>>
  /\ LET n == Least(Need - Len(fw.buf), Len(rx_ff))
     IN  /\ fw' = [fw EXCEPT !.buf = @ \o Take(rx_ff, n)]
         /\ rx_ff' = Drop(rx_ff, n)
  /\ UNCHANGED <<wrapper, conn, call, ret, tx_ff, ep_in, pend, chip_ok, frames, opens>>

\* An unknown mode, 'a' and 'd' have no body and no reply.
FwHeader ==
  /\ fw.mode = "hdr" /\ Len(fw.buf) = Need
  /\ LET n == fw.buf[2].v + 256 * (fw.buf[3].v + 256 * (fw.buf[4].v + 256 * fw.buf[5].v))
     IN  fw' = [mode |-> IF n = 0 THEN "hdr"
                         ELSE CASE fw.buf[1].v = MODE_X -> "X"
                                [] fw.buf[1].v = MODE_M -> "M"
                                [] OTHER                -> "hdr",
                buf |-> <<>>, left |-> n]
  /\ UNCHANGED <<wrapper, conn, call, ret, usb, pend, chip_ok, frames, opens>>

\* The replies to the n items of a chunk: one for each cycle, four for each tile that ends a run.
ReplyTo(x, b) == [f |-> x.f, i |-> x.i, b |-> b]
Replies(mode, buf, n) ==
  FlattenSeq([j \in 1 .. n |->
    IF mode = "X" THEN <<ReplyTo(buf[2 * j - 1], 0)>>
    ELSE IF (buf[3 * j].v \div 32) % 2 = 1 THEN [b \in 1 .. 4 |-> ReplyTo(buf[3 * j - 2], b)]
    ELSE <<>>])

\* A chunk is complete: drive the chip, and hand its replies to usb_write_blocking.
FwChunk ==
  /\ fw.mode # "hdr" /\ pend = <<>> /\ Len(fw.buf) = Need
  /\ pend' = Replies(fw.mode, fw.buf, Batch)
  /\ fw' = [mode |-> IF fw.left = Batch THEN "hdr" ELSE fw.mode,
            buf |-> <<>>, left |-> fw.left - Batch]
  /\ UNCHANGED <<wrapper, conn, call, ret, usb, chip_ok, frames, opens>>

FwWrite ==
  /\ pend # <<>> /\ Len(tx_ff) < TXFIFO
  /\ tx_ff' = tx_ff \o Take(pend, TXFIFO - Len(tx_ff))
  /\ pend' = Drop(pend, TXFIFO - Len(tx_ff))
  /\ UNCHANGED <<wrapper, conn, call, ret, rx_ff, ep_in, fw, chip_ok, frames, opens>>

Device == ArmPacket \/ FwRead \/ FwHeader \/ FwChunk \/ FwWrite
Link   == WritePacket \/ ReadPacket \/ Timeout

Next == \/ \E w \in Wrapper : \/ Create(w) \/ OpenFails(w) \/ Status(w) \/ Refuse(w) \/ Free(w)
                              \/ \E plan \in Plans : Execute(w, plan)
        \/ Crash
        \/ Link \/ Device

Spec == Init /\ [][Next]_vars

\* The firmware and the bus go on, and a call in progress does.
FairSpec == Spec /\ WF_vars(Device) /\ WF_vars(Link)
-----------------------------------------------------------------------------
(* Properties. *)

\* The bounds of the buffers, and what the state is made of.
TypeOK ==
  /\ \A w \in Wrapper : wrapper[w] \in {"none", "live", "dead"}
  /\ Len(rx_ff) <= RXFIFO /\ Len(tx_ff) <= TXFIFO /\ Len(ep_in) <= PACKET
  /\ fw.mode \in {"hdr", "X", "M"} /\ Len(fw.buf) <= Need
  /\ call # NoCall => call.w \in Wrapper /\ Len(call.trips) > 0

\* execute returning true has filled its outputs from the replies to its own
\* descriptors, in order, and from no other byte of the stream.
OwnReplies == ret.kind = "execute" /\ ret.ok => ret.got = Expected(ret.f, ret.plan)

\* Between calls a live transport and the firmware agree on where a frame
\* starts: no byte is in flight either way and the firmware waits for a header.
Quiet  == rx_ff = <<>> /\ tx_ff = <<>> /\ ep_in = <<>> /\ pend = <<>>
InStep == Quiet /\ fw.mode = "hdr" /\ fw.buf = <<>>
Synced == call = NoCall /\ (\E w \in Wrapper : wrapper[w] = "live") => InStep

\* A call returns.
CallsReturn == call # NoCall ~> call = NoCall

\* With no timeouts a call also succeeds, however its replies and its own
\* bytes compete for the FIFOs.
AllSucceed == Wrapper \notin Faulty /\ ret.kind \in {"execute", "status"} => ret.ok
=============================================================================
