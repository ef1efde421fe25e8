--------------------------- MODULE BitstreamFlash ---------------------------
(***************************************************************************)
(* The stored iCE40 bitstream of the streamer firmware: bitstream_flash.c, *)
(* the 'F' and 'L' modes and the boot of main.c that use it, the loader,   *)
(* and flash-bitstream of the host CLI.  Power may be lost at any step.    *)
(*                                                                         *)
(* Flash is the header page and, behind it, one cell per payload byte.     *)
(* The flash driver erases sector by sector and programs page by page,     *)
(* in ascending order.  A checksum is the bytes it is of.  A frame's       *)
(* header is two symbols here, the mode and the length.  Modes other than  *)
(* 'F' and 'L' are in UsbLink, and change nothing of this.                 *)
(***************************************************************************)
EXTENDS Integers, Sequences

CONSTANTS PAGE, SECTOR, REGION,  \* FLASH_PAGE_SIZE, FLASH_SECTOR_SIZE, BITSTREAM_FLASH_REGION_BYTES
          CHUNK,                 \* size of the 'F' mode's rx buffer
          Images,                \* the files that are uploaded
          Faults,                \* what may go wrong in a behaviour: sets of "cut" (an
                                 \* uploading host dies) and "torn" (power is lost
                                 \* inside an erase or a program)
          MAX_UPLOADS, MAX_LOSSES \* bounds: frames sent, times power is lost

ASSUME FlashAssumption ==
  /\ PAGE \in Nat \ {0} /\ CHUNK \in Nat \ {0}
  /\ SECTOR \in Nat \ {0} /\ SECTOR % PAGE = 0
  /\ REGION \in Nat \ {0} /\ REGION % SECTOR = 0
  /\ Images \subseteq Seq(Nat)
  /\ Faults \subseteq SUBSET {"cut", "torn"}

VARIABLES
  hdr, cells,        \* flash: BitstreamHeader and payload
  g,                 \* g_state
  pc, remaining,     \* main's 'F' mode
  left,              \* bytes append has still to copy
  job,               \* what the flash driver is doing: from, bytes
  ice40,             \* the configuration the iCE40 runs
  stream, reply,     \* bytes to and from the host
  host,              \* the CLI: its upload, and the code it was given
  uploads, losses,
  faults             \* the member of Faults this behaviour is exposed to

flash == <<hdr, cells>>
ram   == <<g, pc, remaining, left, job>>
link  == <<stream, reply, host, uploads>>
vars  == <<flash, ram, ice40, link, losses, faults>>

MAX_BYTES == REGION - PAGE
Erased    == -1
Garbage   == -2
MODE_F    == 70
MODE_L    == 76
MODE_a    == 97
NoConfig  == <<>>
Pending   == -1

Lesser(a, b) == IF a < b THEN a ELSE b
RoundUp(n, unit) == ((n + unit - 1) \div unit) * unit
First(s, n)  == SubSeq(s, 1, Lesser(n, Len(s)))
Rest(s, n)   == SubSeq(s, n + 1, Len(s))

Blank   == [magic |-> FALSE, length |-> 0, crc |-> <<>>]
Present == hdr.magic /\ hdr.length \in 1 .. MAX_BYTES
Payload == [i \in 1 .. hdr.length |-> cells[i - 1]]

\* A flash cell keeps what it has until it is erased: programming clears bits.
Programmed(old, new) == IF old = Erased THEN new
                        ELSE IF new \in {Erased, old} THEN old ELSE Garbage

Ready == [buf |-> <<>>, payload_off |-> 0, expected_len |-> 0, crc |-> <<>>, active |-> FALSE]
NoJob == [from |-> 0, bytes |-> <<>>]
-----------------------------------------------------------------------------
Init ==
  /\ hdr = Blank /\ cells = [i \in 0 .. MAX_BYTES - 1 |-> Erased]
  /\ g = Ready /\ pc = "boot" /\ remaining = 0 /\ left = <<>> /\ job = NoJob
  /\ ice40 = NoConfig
  /\ stream = <<>> /\ reply = <<>>
  /\ host = [image |-> <<>>, code |-> 0] /\ uploads = 0 /\ losses = 0
  /\ faults \in Faults

\* The CLI opens the device, which resets the bus and empties both FIFOs; what
\* the firmware's blocking read has taken already, all or a part of what it
\* waits for, is not in them.  A header arrives in one packet.
Wanted == CASE pc = "mode" -> 2
            [] pc = "body" -> Lesser(remaining, CHUNK)
            [] OTHER       -> 0

Open(frame) ==
  /\ host.code # Pending /\ uploads < MAX_UPLOADS
  /\ \E n \in {0, Lesser(Wanted, Len(stream))} : stream' = First(stream, n) \o frame
  /\ reply' = <<>>
  /\ uploads' = uploads + 1
  /\ UNCHANGED <<flash, ram, ice40, losses, faults>>

\* cmd_flash_bitstream sends header and file in one write, and waits.  A host
\* that dies has sent the first part of it.
Upload(image) ==
  LET frame == <<MODE_F, Len(image)>> \o image
  IN  \/ /\ host' = [image |-> image, code |-> Pending]
         /\ Open(frame)
      \/ /\ "cut" \in faults
         /\ host' = [image |-> image, code |-> 1]
         /\ \E n \in 2 .. Len(frame) - 1 : Open(First(frame, n))

\* The other modes: 'L' asks for a reload, 'a' (as 'd') has no reply.
Command(mode) ==
  /\ host' = [image |-> <<>>, code |-> IF mode = MODE_L THEN Pending ELSE 0]
  /\ Open(<<mode, 0>>)

HostRead ==
  /\ host.code = Pending /\ reply # <<>>
  /\ host' = [host EXCEPT !.code = Head(reply)]
  /\ reply' = Tail(reply)
  /\ UNCHANGED <<flash, ram, ice40, stream, uploads, losses, faults>>
-----------------------------------------------------------------------------
(* The firmware. *)

\* ice40_load_bitstream(bitstream_flash_data(), bitstream_flash_length())
Load == ice40' = Payload

Boot_noLoad ==
  /\ pc = "boot" /\ pc' = "mode"
  /\ UNCHANGED <<flash, g, remaining, left, job, ice40, link, losses, faults>>

Boot ==
  /\ pc = "boot"
  /\ pc' = "mode"
  /\ \/ Present /\ Load
     \/ ~Present /\ UNCHANGED ice40
  /\ UNCHANGED <<flash, g, remaining, left, job, link, losses, faults>>

\* Sectors to erase for a payload of n bytes, the header page included.
EraseSectors_payload(n) == RoundUp(n, SECTOR) \div SECTOR
EraseSectors(n) == RoundUp(PAGE + n, SECTOR) \div SECTOR

\* A rejected upload is answered at once, and its bytes are not read.
Mode ==
  /\ pc = "mode" /\ Len(stream) >= 2
  /\ stream' = Rest(stream, 2)
  /\ LET n == stream[2]
     IN  \/ /\ stream[1] = MODE_F /\ n \in 1 .. MAX_BYTES
            /\ pc' = "erase" /\ remaining' = n
            /\ job' = [from |-> 0, bytes |-> [i \in 1 .. EraseSectors(n) |-> Erased]]
            /\ UNCHANGED <<ice40, reply>>
         \/ /\ stream[1] = MODE_F /\ n \notin 1 .. MAX_BYTES
            /\ reply' = Append(reply, 255)
            /\ UNCHANGED <<pc, remaining, job, ice40>>
         \/ /\ stream[1] = MODE_L
            /\ \/ Present /\ Load /\ reply' = Append(reply, 0)
               \/ ~Present /\ reply' = Append(reply, 1) /\ UNCHANGED ice40
            /\ UNCHANGED <<pc, remaining, job>>
         \/ /\ stream[1] \notin {MODE_F, MODE_L}
            /\ UNCHANGED <<pc, remaining, job, ice40, reply>>
  /\ UNCHANGED <<flash, g, left, host, uploads, losses, faults>>

\* The payload cells of sector s, and of the page at payload offset from.
SectorCells(s)  == {i \in 0 .. MAX_BYTES - 1 : (PAGE + i) \div SECTOR = s}
PageCells(from) == {i \in 0 .. MAX_BYTES - 1 : i \div PAGE = from \div PAGE}

EraseSector_payload ==
  /\ pc = "erase" /\ job.bytes # <<>>
  /\ cells' = [i \in DOMAIN cells |-> IF i \in SectorCells(job.from) THEN Erased ELSE cells[i]]
  /\ job' = [from |-> job.from + 1, bytes |-> Tail(job.bytes)]
  /\ UNCHANGED <<hdr, g, pc, remaining, left, ice40, link, losses, faults>>

\* bitstream_flash_begin: the erase, and then the state of the new upload.
EraseSector ==
  /\ pc = "erase" /\ job.bytes # <<>>
  /\ cells' = [i \in DOMAIN cells |-> IF i \in SectorCells(job.from) THEN Erased ELSE cells[i]]
  /\ hdr' = IF job.from = 0 THEN Blank ELSE hdr
  /\ job' = [from |-> job.from + 1, bytes |-> Tail(job.bytes)]
  /\ UNCHANGED <<g, pc, remaining, left, ice40, link, losses, faults>>

Begin ==
  /\ pc = "erase" /\ job.bytes = <<>>
  /\ g' = [Ready EXCEPT !.expected_len = remaining, !.active = TRUE]
  /\ pc' = "body"
  /\ UNCHANGED <<flash, remaining, left, job, ice40, link, losses, faults>>

\* usb_read_blocking of the next chunk, and the head of bitstream_flash_append.
Chunk ==
  /\ pc = "body" /\ remaining > 0
  /\ LET want     == Lesser(remaining, CHUNK)
         accepted == g.active /\ g.payload_off + Len(g.buf) + want <= g.expected_len
     IN  /\ Len(stream) >= want
         /\ stream' = Rest(stream, want)
         /\ remaining' = remaining - want
         /\ g' = IF accepted THEN [g EXCEPT !.crc = @ \o First(stream, want)]
                             ELSE [g EXCEPT !.active = FALSE]
         /\ left' = IF accepted THEN First(stream, want) ELSE <<>>
         /\ pc' = "append"
  /\ UNCHANGED <<flash, job, ice40, reply, host, uploads, losses, faults>>

\* flash_range_program of the buffer behind what has been written so far
Flush_late(buf) == [from |-> g.payload_off + PAGE, bytes |-> buf]
Flush(buf) == [from |-> g.payload_off, bytes |-> buf]

\* The loop of append: fill the sector buffer, and program it when it is full.
Copy ==
  /\ pc = "append" /\ left # <<>>
  /\ LET copy == Lesser(SECTOR - Len(g.buf), Len(left))
         buf  == g.buf \o First(left, copy)
     IN  /\ left' = Rest(left, copy)
         /\ g' = [g EXCEPT !.buf = buf]
         /\ \/ Len(buf) = SECTOR /\ job' = Flush(buf) /\ pc' = "program"
            \/ Len(buf) < SECTOR /\ UNCHANGED <<job, pc>>
  /\ UNCHANGED <<flash, remaining, ice40, link, losses, faults>>

Appended ==
  /\ pc = "append" /\ left = <<>>
  /\ pc' = "body"
  /\ UNCHANGED <<flash, g, remaining, left, job, ice40, link, losses, faults>>

\* One page of flash_range_program.  A short last page is padded with 0xff,
\* which programs nothing.
ProgramPage ==
  /\ pc \in {"program", "tail"} /\ job.bytes # <<>>
  /\ cells' = [i \in DOMAIN cells |->
                 IF i \in PageCells(job.from) /\ i - job.from < Len(job.bytes)
                 THEN Programmed(cells[i], job.bytes[i - job.from + 1]) ELSE cells[i]]
  /\ job' = [from |-> job.from + PAGE, bytes |-> Rest(job.bytes, PAGE)]
  /\ UNCHANGED <<hdr, g, pc, remaining, left, ice40, link, losses, faults>>

Flushed_keepsBuffer ==
  /\ pc \in {"program", "tail"} /\ job.bytes = <<>>
  /\ g' = [g EXCEPT !.payload_off = @ + Len(g.buf)]
  /\ pc' = IF pc = "tail" THEN "header" ELSE "append"
  /\ UNCHANGED <<flash, remaining, left, job, ice40, link, losses, faults>>

Flushed ==
  /\ pc \in {"program", "tail"} /\ job.bytes = <<>>
  /\ g' = [g EXCEPT !.payload_off = @ + Len(g.buf), !.buf = <<>>]
  /\ pc' = IF pc = "tail" THEN "header" ELSE "append"
  /\ UNCHANGED <<flash, remaining, left, job, ice40, link, losses, faults>>

\* bitstream_flash_end: first the tail of the buffer.
End ==
  /\ pc = "body" /\ remaining = 0
  /\ \/ /\ g.active /\ g.buf # <<>>
        /\ job' = Flush(g.buf) /\ pc' = "tail"
     \/ /\ ~(g.active /\ g.buf # <<>>)
        /\ pc' = "header" /\ UNCHANGED job
  /\ UNCHANGED <<flash, g, remaining, left, ice40, link, losses, faults>>

\* Then the header, the last thing that is written.
EndCode == IF ~g.active THEN 1 ELSE IF g.payload_off # g.expected_len THEN 2 ELSE 0

WriteHeader ==
  /\ pc = "header"
  /\ hdr' = IF EndCode = 0
            THEN [magic |-> TRUE, length |-> g.expected_len, crc |-> g.crc] ELSE hdr
  /\ g' = [g EXCEPT !.active = FALSE]
  /\ pc' = IF EndCode = 0 THEN "verify" ELSE "mode"
  /\ reply' = IF EndCode = 0 THEN reply ELSE Append(reply, EndCode)
  /\ UNCHANGED <<cells, remaining, left, job, ice40, stream, host, uploads, losses, faults>>

Verify_noLoad ==
  /\ pc = "verify" /\ pc' = "mode"
  /\ reply' = Append(reply, 0)
  /\ UNCHANGED <<flash, g, remaining, left, job, ice40, stream, host, uploads, losses, faults>>

Verify_silent ==
  /\ pc = "verify" /\ pc' = "mode"
  /\ ice40' = IF Present THEN Payload ELSE ice40
  /\ UNCHANGED <<flash, g, remaining, left, job, link, losses, faults>>

\* It is read back, and the new bitstream loaded and the host answered.
Verify ==
  /\ pc = "verify" /\ pc' = "mode"
  /\ LET ok == Present /\ hdr.length = g.expected_len
     IN  /\ ice40' = IF ok THEN Payload ELSE ice40
         /\ reply' = Append(reply, IF ok THEN 0 ELSE 3)
  /\ UNCHANGED <<flash, g, remaining, left, job, stream, host, uploads, losses, faults>>
-----------------------------------------------------------------------------
(* Power. *)

\* What an erase of a sector, the program of a page or of the header leaves
\* when it is cut short: any part of it done.
TornFlash ==
  \/ /\ pc = "erase" /\ job.bytes # <<>>
     /\ \E S \in SUBSET SectorCells(job.from) :
          cells' = [i \in DOMAIN cells |-> IF i \in S THEN Erased ELSE cells[i]]
     /\ hdr' \in IF job.from = 0 THEN {hdr, Blank} ELSE {hdr}
  \/ /\ pc \in {"program", "tail"} /\ job.bytes # <<>>
     /\ \E S \in SUBSET {i \in PageCells(job.from) : i - job.from < Len(job.bytes)} :
          cells' = [i \in DOMAIN cells |->
             IF i \in S THEN Programmed(cells[i], job.bytes[i - job.from + 1]) ELSE cells[i]]
     /\ UNCHANGED hdr
  \/ /\ pc = "header" /\ EndCode = 0
     /\ \E n \in g.expected_len .. MAX_BYTES :
          hdr' = [magic |-> TRUE, length |-> n, crc |-> g.crc]
     /\ UNCHANGED cells

PowerLoss ==
  /\ losses < MAX_LOSSES /\ losses' = losses + 1
  /\ \/ UNCHANGED flash
     \/ "torn" \in faults /\ TornFlash
  /\ g' = Ready /\ pc' = "boot" /\ remaining' = 0 /\ left' = <<>> /\ job' = NoJob
  /\ ice40' = NoConfig
  /\ stream' = <<>> /\ reply' = <<>>
  /\ host' = [host EXCEPT !.code = IF @ = Pending THEN 1 ELSE @]
  /\ UNCHANGED <<uploads, faults>>

Firmware == \/ Boot \/ Mode \/ EraseSector \/ Begin \/ Chunk \/ Copy \/ Appended
            \/ ProgramPage \/ Flushed \/ End \/ WriteHeader \/ Verify

Next == \/ \E image \in Images : Upload(image)
        \/ \E mode \in {MODE_L, MODE_a} : Command(mode)
        \/ HostRead \/ Firmware \/ PowerLoss

Spec == Init /\ [][Next]_vars

\* The firmware's loop goes on, and a reply is delivered.
FairSpec == Spec /\ WF_vars(Firmware) /\ WF_vars(HostRead)
-----------------------------------------------------------------------------
(* Properties. *)

\* The state of the flash and of the buffers.
TypeOK ==
  /\ hdr.magic \in BOOLEAN /\ hdr.length \in 0 .. MAX_BYTES
  /\ Len(g.buf) <= SECTOR /\ g.payload_off + Len(g.buf) <= g.expected_len
  /\ remaining \in 0 .. MAX_BYTES /\ job.from \in 0 .. REGION

\* "BITSTREAM_MAGIC if region holds a valid bitstream" (bitstream_flash.h:26):
\* wherever between two flash operations power is lost, and whoever dies while
\* uploading, a header that is accepted at boot stands before as many payload
\* bytes as it says, the very ones its checksum was taken of (nothing compares the
\* checksum later).  A loss inside an operation can break it.
PresentIsWhole == "torn" \notin faults /\ Present => Payload = hdr.crc

\* A bitstream that is present is a file that was uploaded, from its first byte
\* to its last: what "received fewer bytes than promised" (host/cli.py:216) and
\* bitstream_flash.c:97 are to ensure.
StoredIsUploaded == Present => Payload \in Images

\* It is so as long as no host dies inside an upload and power is lost between
\* flash operations only.
Authentic == faults = {} => StoredIsUploaded

\* The driver never programs a cell that still holds something else, after no
\* matter which interrupted upload.
CellsClean == \A i \in DOMAIN cells : cells[i] # Garbage

\* An upload that is answered with "ok" is what is stored and what the iCE40 runs,
\* and stays so, over power losses too, until the next upload.
OkMeansStored ==
  "cut" \notin faults /\ host.code = 0 /\ host.image # <<>> /\ pc = "mode" /\ stream = <<>> =>
    /\ Present /\ Payload = host.image
    /\ ice40 = host.image

\* After a power loss the iCE40 runs what is stored again, once the boot is over.
BootRestores == pc = "mode" /\ Present => ice40 = Payload

\* Every upload is answered, or ends with the power, if no host has died before.
UploadsEnd == "cut" \notin faults /\ host.code = Pending ~> host.code # Pending
=============================================================================
