------------------------ MODULE BitstreamFlash_proofs ------------------------
(***************************************************************************)
(* The stored bitstream's invariants for every geometry of the flash,      *)
(* every size of the rx buffer, every set of files, any number of uploads  *)
(* and of power losses.                                                    *)
(***************************************************************************)
EXTENDS BitstreamFlash, SequenceTheorems, TLAPS

-----------------------------------------------------------------------------
(* Arithmetic of pages and sectors. *)

\* Quotient and remainder.
LEMMA Division ==
  ASSUME NEW a \in Nat, NEW d \in Nat \ {0}
  PROVE  /\ a \div d \in Nat /\ a % d \in 0 .. d - 1
         /\ a = d * (a \div d) + (a % d)
OBVIOUS

\* A number in the q-th interval of length d has quotient q, and no other has.
LEMMA Quotient ==
  ASSUME NEW a \in Nat, NEW d \in Nat \ {0}, NEW q \in Nat
  PROVE  a \div d = q <=> q * d <= a /\ a < (q + 1) * d
<1>. DEFINE p == a \div d
<1>1. p \in Nat /\ p * d <= a /\ a < (p + 1) * d
  BY Division
<1>2. (q + 1) * d = q * d + d /\ (p + 1) * d = p * d + d
  BY <1>1
<1>3. ASSUME q * d <= a, a < (q + 1) * d, p # q PROVE FALSE
  <2>1. CASE p < q
    <3>1. (p + 1) * d <= q * d
      BY <1>1, <2>1
    <3>2. QED
      BY <1>1, <1>3, <3>1
  <2>2. CASE q < p
    <3>1. (q + 1) * d <= p * d
      BY <1>1, <2>2
    <3>2. QED
      BY <1>1, <1>3, <3>1
  <2>3. QED
    BY <1>1, <1>3, <2>1, <2>2
<1>4. QED
  BY <1>1, <1>3

\* The region holds the header page; a sector is at least a page.
LEMMA Geometry ==
  /\ PAGE \in Nat \ {0} /\ SECTOR \in Nat \ {0} /\ REGION \in Nat \ {0} /\ CHUNK \in Nat \ {0}
  /\ PAGE <= SECTOR /\ SECTOR <= REGION /\ MAX_BYTES \in Nat
<1>1. \A a, d \in Nat \ {0} : a % d = 0 => d <= a
  OBVIOUS
<1>2. QED
  BY <1>1, FlashAssumption DEF MAX_BYTES

\* A page starts where it is said to, and is PAGE bytes long.
LEMMA PageOf ==
  ASSUME NEW from \in Nat, from % PAGE = 0, NEW i \in Nat
  PROVE  i \div PAGE = from \div PAGE <=> from <= i /\ i < from + PAGE
<1>. DEFINE q == from \div PAGE
<1>1. q \in Nat /\ from = q * PAGE
  BY Geometry, Division
<1>2. (q + 1) * PAGE = from + PAGE
  BY <1>1, Geometry
<1>3. i \div PAGE = q <=> q * PAGE <= i /\ i < (q + 1) * PAGE
  BY <1>1, Geometry, Quotient
<1>4. QED
  BY <1>1, <1>2, <1>3

\* A multiple leaves no remainder.
LEMMA MultipleMod ==
  ASSUME NEW q \in Nat, NEW d \in Nat \ {0}
  PROVE  (q * d) % d = 0
<1>. DEFINE a == q * d
<1>1. a \in Nat /\ a < (q + 1) * d
  OBVIOUS
<1>2. a \div d = q
  BY <1>1, Quotient
<1>3. a = d * (a \div d) + (a % d)
  BY <1>1, Division
<1>4. a % d \in Nat
  BY <1>1, Division
<1>5. a = d * q + (a % d)
  BY <1>2, <1>3
<1>6. d * q = a
  OBVIOUS
<1>. HIDE DEF a
<1>7. a % d = 0
  BY <1>1, <1>4, <1>5, <1>6
<1>8. QED
  BY <1>7 DEF a

\* The pages of a sector fill it: behind a page the next one starts.
LEMMA NextPage ==
  ASSUME NEW from \in Nat, from % PAGE = 0
  PROVE  (from + PAGE) % PAGE = 0
<1>. DEFINE q == from \div PAGE
<1>1. q \in Nat /\ from = q * PAGE
  BY Geometry, Division
<1>2. from + PAGE = (q + 1) * PAGE
  BY <1>1, Geometry
<1>3. QED
  <2>1. ((q + 1) * PAGE) % PAGE = 0
    <3>1. q + 1 \in Nat
      BY <1>1
    <3>2. QED
      BY ONLY <3>1, Geometry, MultipleMod
  <2>2. QED
    BY <1>2, <2>1

\* Sectors start at the beginning of a page.
LEMMA SectorStartsPage ==
  ASSUME NEW off \in Nat, off % SECTOR = 0
  PROVE  off % PAGE = 0 /\ (off + SECTOR) % SECTOR = 0
<1>. DEFINE q == off \div SECTOR
            k == SECTOR \div PAGE
<1>1. q \in Nat /\ off = q * SECTOR
  BY Geometry, Division
<1>2. k \in Nat /\ SECTOR = k * PAGE
  BY Geometry, Division, FlashAssumption
<1>3. off = (q * k) * PAGE
  BY <1>1, <1>2, Geometry
<1>4. off + SECTOR = (q + 1) * SECTOR
  BY <1>1, Geometry
<1>5. QED
  <2>1. ((q * k) * PAGE) % PAGE = 0
    <3>1. q * k \in Nat
      BY <1>1, <1>2
    <3>2. QED
      BY ONLY <3>1, Geometry, MultipleMod
  <2>2. ((q + 1) * SECTOR) % SECTOR = 0
    <3>1. q + 1 \in Nat
      BY <1>1
    <3>2. QED
      BY ONLY <3>1, Geometry, MultipleMod
  <2>3. QED
    BY <1>3, <1>4, <2>1, <2>2

\* What bitstream_flash_begin erases reaches behind the payload's last byte and
\* stays in the region.
LEMMA EraseReaches ==
  ASSUME NEW n \in 1 .. MAX_BYTES
  PROVE  /\ EraseSectors(n) \in 1 .. REGION
         /\ PAGE + n <= EraseSectors(n) * SECTOR
<1>. DEFINE a == PAGE + n + SECTOR - 1
            q == a \div SECTOR
            k == REGION \div SECTOR
<1>1. a \in Nat /\ q \in Nat /\ q * SECTOR <= a /\ a < (q + 1) * SECTOR
  <2>1. a \in Nat
    BY Geometry
  <2>2. QED
    BY <2>1, Geometry, Quotient, Division
<1>2. (q + 1) * SECTOR = q * SECTOR + SECTOR
  BY <1>1, Geometry
<1>3. (q * SECTOR) \div SECTOR = q
  <2>1. q * SECTOR \in Nat /\ q * SECTOR < (q + 1) * SECTOR
    BY <1>1, <1>2, Geometry
  <2>2. QED
    BY <1>1, <2>1, Geometry, Quotient
<1>4. EraseSectors(n) = q
  BY <1>3 DEF EraseSectors, RoundUp
<1>5. PAGE + n <= q * SECTOR
  BY <1>1, <1>2, Geometry
<1>6. q >= 1
  <2>1. q # 0
    BY <1>5, Geometry
  <2>2. QED
    BY <1>1, <2>1
<1>7. k \in Nat /\ REGION = k * SECTOR
  BY Geometry, Division, FlashAssumption
<1>8. q <= k
  <2>1. SUFFICES ASSUME k + 1 <= q PROVE FALSE
    BY <1>1, <1>7
  <2>2. (k + 1) * SECTOR <= q * SECTOR
    BY <1>1, <1>7, <2>1, Geometry
  <2>3. (k + 1) * SECTOR = REGION + SECTOR
    BY <1>7, Geometry
  <2>4. QED
    BY <1>1, <2>2, <2>3, Geometry DEF MAX_BYTES
<1>9. k <= REGION
  BY <1>7, Geometry
<1>10. QED
  BY <1>1, <1>4, <1>5, <1>6, <1>7, <1>8, <1>9, Geometry

-----------------------------------------------------------------------------
(* Cutting a sequence. *)

\* The first n elements.
LEMMA FirstProperties ==
  ASSUME NEW S, NEW s \in Seq(S), NEW n \in 0 .. Len(s)
  PROVE  /\ First(s, n) \in Seq(S) /\ Len(First(s, n)) = n
         /\ \A i \in 1 .. n : First(s, n)[i] = s[i]
<1>1. First(s, n) = SubSeq(s, 1, n)
  BY DEF First, Lesser
<1>2. \A i \in 1 .. n : s[i] \in S
  BY LenProperties
<1>3. QED
  BY <1>1, <1>2, SubSeqProperties, LenProperties

\* What is behind the first n elements; nothing, if there are not as many.
LEMMA RestProperties ==
  ASSUME NEW S, NEW s \in Seq(S), NEW n \in Nat
  PROVE  /\ Rest(s, n) \in Seq(S)
         /\ Len(Rest(s, n)) = IF n <= Len(s) THEN Len(s) - n ELSE 0
         /\ \A i \in 1 .. Len(s) - n : Rest(s, n)[i] = s[n + i]
<1>1. \A i \in n + 1 .. Len(s) : s[i] \in S
  BY LenProperties
<1>2. Len(s) \in Nat
  BY LenProperties
<1>3. QED
  BY <1>1, <1>2, SubSeqProperties DEF Rest

\* Behind the elements of one sequence come those of the other.
LEMMA JoinProperties ==
  ASSUME NEW S, NEW s \in Seq(S), NEW t \in Seq(S)
  PROVE  /\ s \o t \in Seq(S) /\ Len(s \o t) = Len(s) + Len(t)
         /\ \A i \in 1 .. Len(s) : (s \o t)[i] = s[i]
         /\ \A i \in 1 .. Len(t) : (s \o t)[Len(s) + i] = t[i]
<1>. DEFINE u == s \o t
<1>1. Len(s) \in Nat /\ Len(t) \in Nat
  BY LenProperties
<1>2. /\ u \in Seq(S) /\ Len(u) = Len(s) + Len(t)
      /\ \A i \in 1 .. Len(s) + Len(t) : u[i] = IF i <= Len(s) THEN s[i] ELSE t[i - Len(s)]
  BY ConcatProperties
<1>. HIDE DEF u
<1>3. \A i \in 1 .. Len(s) : u[i] = s[i]
  BY <1>1, <1>2
<1>4. ASSUME NEW i \in 1 .. Len(t) PROVE u[Len(s) + i] = t[i]
  <2>1. Len(s) + i \in 1 .. Len(s) + Len(t) /\ ~(Len(s) + i <= Len(s)) /\ (Len(s) + i) - Len(s) = i
    BY <1>1
  <2>2. QED
    BY <1>2, <2>1
<1>5. QED
  BY <1>2, <1>3, <1>4 DEF u

-----------------------------------------------------------------------------
(* The inductive invariant. *)

Datum == Nat \cup {Erased}

FlashTypes ==
  /\ hdr \in [magic : BOOLEAN, length : 0 .. MAX_BYTES, crc : Seq(Nat)]
  /\ cells \in [0 .. MAX_BYTES - 1 -> Datum]

RamTypes ==
  /\ g \in [buf : Seq(Nat), payload_off : Nat, expected_len : 0 .. MAX_BYTES,
            crc : Seq(Nat), active : BOOLEAN]
  /\ Len(g.buf) <= SECTOR /\ g.payload_off + Len(g.buf) <= g.expected_len
  /\ pc \in {"boot", "mode", "erase", "body", "append", "program", "tail", "header", "verify"}
  /\ remaining \in 0 .. MAX_BYTES
  /\ left \in Seq(Nat)
  /\ job \in [from : 0 .. REGION, bytes : Seq(Datum)]

LinkTypes ==
  /\ stream \in Seq(Nat) /\ reply \in Seq(Nat)
  /\ host \in [image : Seq(Nat), code : Nat \cup {Pending}]
  /\ faults \in Faults

Types == FlashTypes /\ RamTypes /\ LinkTypes

\* While sectors are erased: as many are left as the upload needs, the header
\* went with the first, and the payload cells before the next one are erased.
EraseInv ==
  pc = "erase" =>
    /\ remaining >= 1
    /\ job.from + Len(job.bytes) = EraseSectors(remaining)
    /\ job.from > 0 => hdr = Blank
    /\ \A i \in DOMAIN cells : PAGE + i < job.from * SECTOR => cells[i] = Erased

Writing     == pc \in {"body", "append", "program", "tail", "header"}
Programming == pc \in {"program", "tail"}

Top     == g.payload_off + Len(g.buf)
Written == IF Programming THEN Lesser(job.from, Top) ELSE g.payload_off

\* The bytes that were received (those the checksum is of) are, in this order,
\* what is in flash, what is in the sector buffer, and what append has to copy.
ReceivedInv ==
  Writing =>
    /\ g.active /\ hdr = Blank /\ g.expected_len >= 1
    /\ Len(g.crc) = Top + Len(left)
    /\ Len(g.crc) + remaining = g.expected_len
    /\ \A i \in 1 .. Len(g.buf) : g.crc[g.payload_off + i] = g.buf[i]
    /\ \A i \in 1 .. Len(left) : g.crc[Top + i] = left[i]

\* Where the steps of an upload leave the sector buffer.
BufferInv ==
  /\ pc \in {"body", "append"} => Len(g.buf) < SECTOR
  /\ pc = "program" => Len(g.buf) = SECTOR
  /\ pc \notin {"append", "program"} => left = <<>>
  /\ pc \in {"tail", "header"} => remaining = 0
  /\ pc = "header" => g.buf = <<>>
  /\ Writing /\ pc # "header" => g.payload_off % SECTOR = 0

\* The flash holds the first Written bytes of what was received, and is erased
\* behind them as far as the upload goes.
WrittenInv ==
  Writing =>
    /\ \A i \in DOMAIN cells : i < Written => cells[i] = g.crc[i + 1]
    /\ \A i \in DOMAIN cells : Written <= i /\ i < g.expected_len => cells[i] = Erased

\* The driver has what is behind the pages it has programmed still to do.
JobInv ==
  Programming =>
    /\ job.from % PAGE = 0 /\ job.from >= g.payload_off
    /\ Len(job.bytes) = IF job.from < Top THEN Top - job.from ELSE 0
    /\ \A i \in 1 .. Len(job.bytes) : job.bytes[i] = g.crc[job.from + i]

\* The header just written stands before all of the upload's bytes.
VerifyInv ==
  pc = "verify" => /\ hdr.magic /\ hdr.length = g.expected_len /\ hdr.length >= 1
                   /\ Payload = hdr.crc

DeviceInv == EraseInv /\ ReceivedInv /\ BufferInv /\ WrittenInv /\ JobInv /\ VerifyInv

FlashInv == Types /\ DeviceInv

-----------------------------------------------------------------------------
(* It holds initially, and every step keeps it. *)

LEMMA InitFlashInv == Init => FlashInv
<1>. SUFFICES ASSUME Init PROVE FlashInv
  OBVIOUS
<1>1. Types
  BY Geometry, EmptySeq DEF Init, Types, FlashTypes, RamTypes, LinkTypes, Blank, Ready, NoJob, Datum, Pending
<1>2. DeviceInv
  BY DEF Init, DeviceInv, EraseInv, ReceivedInv, BufferInv, WrittenInv, JobInv, VerifyInv,
         Writing, Programming
<1>3. QED
  BY <1>1, <1>2 DEF FlashInv

\* What does not touch flash and firmware keeps what is said of them.
LEMMA DeviceUnchanged ==
  ASSUME DeviceInv, UNCHANGED <<flash, ram>>
  PROVE  DeviceInv'
BY DEF flash, ram, DeviceInv, EraseInv, ReceivedInv, BufferInv, WrittenInv, JobInv, VerifyInv,
       Writing, Programming, Top, Written, Payload

\* The CLI opening the device leaves a sequence of bytes in the stream.
LEMMA OpenFrame ==
  ASSUME RamTypes, LinkTypes, NEW frame \in Seq(Nat), Open(frame)
  PROVE  /\ stream' \in Seq(Nat) /\ reply' = <<>>
         /\ UNCHANGED <<flash, ram>> /\ UNCHANGED faults
<1>1. Wanted \in Nat
  BY Geometry DEF Wanted, RamTypes, Lesser
<1>2. Len(stream) \in Nat
  BY LenProperties DEF LinkTypes
<1>3. PICK n \in {0, Lesser(Wanted, Len(stream))} : stream' = First(stream, n) \o frame
  BY DEF Open
<1>4. n \in 0 .. Len(stream)
  BY <1>1, <1>2 DEF Lesser
<1>5. First(stream, n) \in Seq(Nat)
  BY <1>4, FirstProperties DEF LinkTypes
<1>6. stream' \in Seq(Nat)
  BY <1>3, <1>5, ConcatProperties
<1>7. QED
  BY <1>6 DEF Open

\* A frame, and the part of it a dying host has sent, are bytes.
LEMMA FrameType ==
  ASSUME NEW image \in Images
  PROVE  LET frame == <<MODE_F, Len(image)>> \o image
         IN  /\ frame \in Seq(Nat) /\ Len(frame) = Len(image) + 2
             /\ \A n \in 2 .. Len(frame) - 1 : First(frame, n) \in Seq(Nat)
<1>. DEFINE frame == <<MODE_F, Len(image)>> \o image
<1>1. image \in Seq(Nat) /\ Len(image) \in Nat
  BY FlashAssumption, LenProperties
<1>2. <<MODE_F, Len(image)>> \in Seq(Nat) /\ Len(<<MODE_F, Len(image)>>) = 2
  BY <1>1 DEF MODE_F
<1>3. frame \in Seq(Nat) /\ Len(frame) = Len(image) + 2
  BY <1>1, <1>2, ConcatProperties
<1>. HIDE DEF frame
<1>4. \A n \in 2 .. Len(frame) - 1 : First(frame, n) \in Seq(Nat)
  BY <1>1, <1>3, FirstProperties
<1>5. QED
  BY <1>3, <1>4 DEF frame

LEMMA UploadFlashInv ==
  ASSUME FlashInv, NEW image \in Images, Upload(image)
  PROVE  FlashInv'
<1>. DEFINE frame == <<MODE_F, Len(image)>> \o image
<1>1. /\ frame \in Seq(Nat)
      /\ \A n \in 2 .. Len(frame) - 1 : First(frame, n) \in Seq(Nat)
  BY FrameType
<1>2. PICK sent \in Seq(Nat) : Open(sent)
  BY <1>1 DEF Upload
<1>3. /\ stream' \in Seq(Nat) /\ reply' = <<>> /\ UNCHANGED <<flash, ram>> /\ UNCHANGED faults
  BY <1>2, OpenFrame DEF FlashInv, Types
<1>4. host' \in [image : Seq(Nat), code : Nat \cup {Pending}]
  BY FlashAssumption DEF Upload
<1>5. Types'
  BY <1>3, <1>4, EmptySeq DEF FlashInv, Types, FlashTypes, RamTypes, LinkTypes, flash, ram
<1>6. QED
  BY <1>3, <1>5, DeviceUnchanged DEF FlashInv

LEMMA CommandFlashInv ==
  ASSUME FlashInv, NEW mode \in {MODE_L, MODE_a}, Command(mode)
  PROVE  FlashInv'
<1>1. <<mode, 0>> \in Seq(Nat)
  BY DEF MODE_L, MODE_a
<1>3. /\ stream' \in Seq(Nat) /\ reply' = <<>> /\ UNCHANGED <<flash, ram>> /\ UNCHANGED faults
  BY <1>1, OpenFrame DEF FlashInv, Types, Command
<1>4. host' \in [image : Seq(Nat), code : Nat \cup {Pending}]
  BY EmptySeq DEF Command
<1>5. Types'
  BY <1>3, <1>4, EmptySeq DEF FlashInv, Types, FlashTypes, RamTypes, LinkTypes, flash, ram
<1>6. QED
  BY <1>3, <1>5, DeviceUnchanged DEF FlashInv

LEMMA HostReadFlashInv ==
  ASSUME FlashInv, HostRead
  PROVE  FlashInv'
<1>1. reply' \in Seq(Nat) /\ Head(reply) \in Nat
  BY HeadTailProperties DEF FlashInv, Types, LinkTypes, HostRead
<1>2. host' \in [image : Seq(Nat), code : Nat \cup {Pending}]
  BY <1>1 DEF FlashInv, Types, LinkTypes, HostRead
<1>3. UNCHANGED <<flash, ram>> /\ UNCHANGED <<stream, faults>>
  BY DEF HostRead
<1>4. Types'
  BY <1>1, <1>2, <1>3 DEF FlashInv, Types, FlashTypes, RamTypes, LinkTypes, flash, ram
<1>5. QED
  BY <1>3, <1>4, DeviceUnchanged DEF FlashInv

LEMMA BootFlashInv ==
  ASSUME FlashInv, Boot
  PROVE  FlashInv'
<1>1. Types'
  BY DEF Boot, FlashInv, Types, FlashTypes, RamTypes, LinkTypes, flash, link
<1>2. DeviceInv'
  BY DEF Boot, FlashInv, DeviceInv, EraseInv, ReceivedInv, BufferInv, WrittenInv, JobInv, VerifyInv,
         Writing, Programming
<1>3. QED
  BY <1>1, <1>2 DEF FlashInv

LEMMA ModeFlashInv ==
  ASSUME FlashInv, Mode
  PROVE  FlashInv'
<1>1. FlashTypes /\ RamTypes /\ LinkTypes /\ DeviceInv
  BY DEF FlashInv, Types
<1>2. pc = "mode" /\ Len(stream) \in Nat /\ Len(stream) >= 2
  BY <1>1, LenProperties DEF Mode, LinkTypes
<1>3. UNCHANGED <<hdr, cells, g, left, host, faults>>
  BY DEF Mode, flash
<1>4. LinkTypes'
  <2>1. stream' \in Seq(Nat)
    <3>1. stream' = Rest(stream, 2)
      BY DEF Mode
    <3>2. QED
      BY <1>1, <3>1, RestProperties DEF LinkTypes
  <2>2. reply' \in Seq(Nat)
    <3>1. /\ reply \in Seq(Nat) /\ Append(reply, 255) \in Seq(Nat)
          /\ Append(reply, 0) \in Seq(Nat) /\ Append(reply, 1) \in Seq(Nat)
      BY <1>1, AppendProperties DEF LinkTypes
    <3>2. reply' \in {reply, Append(reply, 255), Append(reply, 0), Append(reply, 1)}
      BY DEF Mode
    <3>3. QED
      BY <3>1, <3>2, Zenon
  <2>3. QED
    BY <1>1, <1>3, <2>1, <2>2 DEF LinkTypes
<1>5. CASE pc' = "erase" /\ stream[1] = MODE_F /\ stream[2] \in 1 .. MAX_BYTES
  <2>. DEFINE n == stream[2]
  <2>1. /\ remaining' = n
        /\ job' = [from |-> 0, bytes |-> [i \in 1 .. EraseSectors(n) |-> Erased]]
    BY <1>5 DEF Mode, MODE_F, MODE_L
  <2>2. EraseSectors(n) \in 1 .. REGION
    BY <1>5, EraseReaches
  <2>3. job'.bytes \in Seq(Datum) /\ Len(job'.bytes) = EraseSectors(n)
    BY <2>1, <2>2, Geometry DEF Datum
  <2>4. Types'
    <3>1. job' \in [from : 0 .. REGION, bytes : Seq(Datum)]
      BY <2>1, <2>3, Geometry
    <3>2. RamTypes'
      BY <1>1, <1>3, <1>5, <2>1, <3>1, Geometry DEF RamTypes
    <3>3. QED
      BY <1>1, <1>3, <1>4, <3>2 DEF Types, FlashTypes
  <2>5. EraseInv'
    <3>1. job'.from = 0 /\ 0 * SECTOR = 0 /\ DOMAIN cells = 0 .. MAX_BYTES - 1
      BY <1>1, <2>1, Geometry DEF FlashTypes
    <3>2. QED
      BY <1>3, <1>5, <2>1, <2>2, <2>3, <3>1, Geometry DEF EraseInv, EraseSectors, RoundUp
  <2>6. QED
    BY <1>1, <1>2, <1>3, <1>5, <2>4, <2>5 DEF FlashInv, DeviceInv, ReceivedInv, BufferInv, WrittenInv, JobInv,
                            VerifyInv, Writing, Programming
<1>6. CASE UNCHANGED <<pc, remaining, job>>
  <2>1. Types'
    BY <1>1, <1>3, <1>4, <1>6 DEF Types, FlashTypes, RamTypes
  <2>2. QED
    BY <1>1, <1>3, <1>6, <2>1, DeviceUnchanged DEF FlashInv, flash, ram
<1>7. QED
  BY <1>5, <1>6 DEF Mode

LEMMA EraseSectorFlashInv ==
  ASSUME FlashInv, EraseSector
  PROVE  FlashInv'
<1>1. FlashTypes /\ RamTypes /\ LinkTypes /\ EraseInv /\ BufferInv
  BY DEF FlashInv, Types, DeviceInv
<1>2. /\ pc = "erase" /\ job.bytes # <<>>
      /\ UNCHANGED <<g, pc, remaining, left, stream, reply, host, faults>>
  BY DEF EraseSector, link
<1>. DEFINE k == job.from
<1>3. /\ k \in Nat /\ job.bytes \in Seq(Datum)
      /\ remaining \in 1 .. MAX_BYTES /\ k + Len(job.bytes) = EraseSectors(remaining)
  BY <1>1, <1>2 DEF RamTypes, EraseInv
<1>4. EraseSectors(remaining) \in 1 .. REGION
  BY <1>3, EraseReaches
<1>5. /\ Tail(job.bytes) \in Seq(Datum) /\ Len(job.bytes) \in Nat
      /\ Len(Tail(job.bytes)) = Len(job.bytes) - 1 /\ Len(job.bytes) >= 1
  BY <1>2, <1>3, HeadTailProperties, EmptySeq, LenProperties
<1>6. job' = [from |-> k + 1, bytes |-> Tail(job.bytes)]
  BY DEF EraseSector
<1>7. job' \in [from : 0 .. REGION, bytes : Seq(Datum)]
  BY <1>3, <1>4, <1>5, <1>6, Geometry
<1>8. hdr' = Blank
  BY <1>1, <1>2, <1>3 DEF EraseSector, EraseInv
<1>9. cells' = [i \in DOMAIN cells |-> IF i \in SectorCells(k) THEN Erased ELSE cells[i]]
  BY DEF EraseSector
<1>10. Types'
  <2>1. FlashTypes'
    BY <1>1, <1>8, <1>9, Geometry, EmptySeq DEF FlashTypes, Blank, Datum
  <2>2. RamTypes'
    BY <1>1, <1>2, <1>7 DEF RamTypes
  <2>3. QED
    BY <1>1, <1>2, <2>1, <2>2 DEF Types, LinkTypes
<1>11. EraseInv'
  <2>1. ASSUME NEW i \in DOMAIN cells, PAGE + i < (k + 1) * SECTOR
        PROVE  cells'[i] = Erased
    <3>1. i \in 0 .. MAX_BYTES - 1 /\ PAGE + i \in Nat
      BY <1>1, <2>1, Geometry DEF FlashTypes
    <3>2. CASE PAGE + i < k * SECTOR
      BY <1>1, <1>2, <1>9, <2>1, <3>2 DEF EraseInv
    <3>3. CASE ~(PAGE + i < k * SECTOR)
      <4>1. k * SECTOR <= PAGE + i
        BY <1>3, <3>1, <3>3, Geometry
      <4>2. (PAGE + i) \div SECTOR = k
        BY <1>3, <2>1, <3>1, <4>1, Geometry, Quotient
      <4>3. QED
        BY <1>9, <3>1, <4>2 DEF SectorCells
    <3>4. QED
      BY <3>2, <3>3
  <2>2. DOMAIN cells' = DOMAIN cells
    BY <1>9
  <2>3. job'.from + Len(job'.bytes) = EraseSectors(remaining) /\ job'.from = k + 1
    BY <1>3, <1>4, <1>5, <1>6
  <2>4. QED
    BY <1>2, <1>3, <1>8, <2>1, <2>2, <2>3 DEF EraseInv, EraseSectors, RoundUp
<1>12. QED
  BY <1>1, <1>2, <1>10, <1>11 DEF FlashInv, DeviceInv, ReceivedInv, BufferInv, WrittenInv, JobInv,
                            VerifyInv, Writing, Programming

LEMMA BeginFlashInv ==
  ASSUME FlashInv, Begin
  PROVE  FlashInv'
<1>1. FlashTypes /\ RamTypes /\ LinkTypes /\ EraseInv /\ BufferInv
  BY DEF FlashInv, Types, DeviceInv
<1>2. /\ pc = "erase" /\ job.bytes = <<>> /\ pc' = "body"
      /\ UNCHANGED <<hdr, cells, remaining, left, job, stream, reply, host, faults>>
  BY DEF Begin, flash, link
<1>3. g' = [buf |-> <<>>, payload_off |-> 0, expected_len |-> remaining,
            crc |-> <<>>, active |-> TRUE]
  BY DEF Begin, Ready
<1>4. remaining \in 1 .. MAX_BYTES /\ job.from = EraseSectors(remaining)
  BY <1>1, <1>2, EmptySeq DEF RamTypes, EraseInv
<1>5. Types'
  <2>1. RamTypes'
    BY <1>1, <1>2, <1>3, <1>4, Geometry, EmptySeq DEF RamTypes
  <2>2. QED
    BY <1>1, <1>2, <2>1 DEF Types, FlashTypes, LinkTypes
<1>6. EraseSectors(remaining) \in 1 .. REGION /\ PAGE + remaining <= EraseSectors(remaining) * SECTOR
  BY <1>4, EraseReaches
<1>7. hdr = Blank
  BY <1>1, <1>2, <1>4, <1>6 DEF EraseInv
<1>8. ASSUME NEW i \in DOMAIN cells, i < remaining
      PROVE  cells[i] = Erased
  <2>1. i \in 0 .. MAX_BYTES - 1 /\ PAGE + i < PAGE + remaining
    BY <1>1, <1>4, <1>8, Geometry DEF FlashTypes
  <2>2. PAGE + i < job.from * SECTOR
    BY <1>4, <1>6, <2>1, Geometry
  <2>3. QED
    BY <1>1, <1>2, <2>2 DEF EraseInv
<1>9. left = <<>>
  BY <1>1, <1>2 DEF BufferInv
<1>10. ReceivedInv'
  BY <1>2, <1>3, <1>4, <1>7, <1>9, EmptySeq DEF ReceivedInv, Writing, Top
<1>11. BufferInv'
  BY <1>2, <1>3, <1>9, EmptySeq, Geometry DEF BufferInv, Writing
<1>12. WrittenInv'
  <2>1. \A i \in DOMAIN cells : 0 <= i
    BY <1>1 DEF FlashTypes
  <2>2. QED
    BY <1>2, <1>3, <1>8, <2>1 DEF WrittenInv, Writing, Written, Programming
<1>13. QED
  BY <1>2, <1>5, <1>10, <1>11, <1>12 DEF FlashInv, DeviceInv, EraseInv, JobInv, VerifyInv, Programming

\* The chunk that was read is always accepted: no more is read than was announced.
LEMMA ChunkTakes ==
  ASSUME FlashInv, Chunk
  PROVE  LET want == Lesser(remaining, CHUNK)
             new  == First(stream, want)
         IN  /\ want \in 1 .. remaining /\ want \in 0 .. Len(stream)
             /\ g' = [g EXCEPT !.crc = @ \o new] /\ left' = new
<1>1. RamTypes /\ LinkTypes /\ ReceivedInv /\ BufferInv
  BY DEF FlashInv, Types, DeviceInv
<1>2. pc = "body" /\ remaining > 0
  BY DEF Chunk
<1>. DEFINE want == Lesser(remaining, CHUNK)
<1>3. /\ Len(stream) \in Nat /\ Len(g.buf) \in Nat /\ g.payload_off \in Nat
      /\ g.expected_len \in Nat /\ remaining \in Nat
  BY <1>1, LenProperties, Geometry DEF RamTypes, LinkTypes
<1>4. want \in 1 .. remaining /\ want \in 0 .. Len(stream)
  BY <1>2, <1>3, Geometry DEF Chunk, Lesser
<1>5. g.active /\ Len(g.crc) = Top + 0 /\ Len(g.crc) + remaining = g.expected_len
  BY <1>1, <1>2, EmptySeq DEF ReceivedInv, BufferInv, Writing
<1>6. g.active /\ g.payload_off + Len(g.buf) + want <= g.expected_len
  BY <1>3, <1>4, <1>5 DEF Top
<1>7. QED
  BY <1>4, <1>6 DEF Chunk

LEMMA ChunkFlashInv ==
  ASSUME FlashInv, Chunk
  PROVE  FlashInv'
<1>1. /\ FlashTypes /\ RamTypes /\ LinkTypes
      /\ ReceivedInv /\ BufferInv /\ WrittenInv
  BY DEF FlashInv, Types, DeviceInv
<1>2. /\ pc = "body" /\ remaining > 0 /\ pc' = "append"
      /\ UNCHANGED <<hdr, cells, job, reply, host, faults>>
  BY DEF Chunk, flash
<1>. DEFINE want == Lesser(remaining, CHUNK)
            new  == First(stream, want)
<1>3. /\ stream \in Seq(Nat) /\ Len(stream) \in Nat /\ g.buf \in Seq(Nat) /\ Len(g.buf) \in Nat
      /\ g.crc \in Seq(Nat) /\ Len(g.crc) \in Nat /\ g.payload_off \in Nat
      /\ g.expected_len \in 0 .. MAX_BYTES /\ remaining \in 0 .. MAX_BYTES
  BY <1>1, LenProperties DEF RamTypes, LinkTypes
<1>4. want \in 1 .. remaining /\ want \in 0 .. Len(stream)
  BY ChunkTakes
<1>5. /\ g.active /\ hdr = Blank /\ g.expected_len >= 1 /\ left = <<>>
      /\ Len(g.crc) = Top /\ Top + remaining = g.expected_len
  BY <1>1, <1>2, <1>3, EmptySeq DEF ReceivedInv, BufferInv, Writing, Top
<1>6. new \in Seq(Nat) /\ Len(new) = want
  BY <1>3, <1>4, FirstProperties
<1>7. g' = [g EXCEPT !.crc = @ \o new] /\ left' = new
  BY ChunkTakes
<1>8. stream' = Rest(stream, want) /\ remaining' = remaining - want
  BY DEF Chunk
<1>. HIDE DEF new, want
<1>. DEFINE crc == g.crc \o new
<1>9. /\ crc \in Seq(Nat) /\ Len(crc) = Len(g.crc) + Len(new)
      /\ \A i \in 1 .. Len(g.crc) : crc[i] = g.crc[i]
      /\ \A i \in 1 .. Len(new) : crc[Len(g.crc) + i] = new[i]
  <2>1. g.crc \in Seq(Nat) /\ new \in Seq(Nat)
    BY <1>3, <1>6
  <2>2. crc \in Seq(Nat) /\ Len(crc) = Len(g.crc) + Len(new)
    BY ONLY <2>1, JoinProperties
  <2>3. \A i \in 1 .. Len(g.crc) : crc[i] = g.crc[i]
    BY ONLY <2>1, JoinProperties
  <2>4. \A i \in 1 .. Len(new) : crc[Len(g.crc) + i] = new[i]
    BY ONLY <2>1, JoinProperties
  <2>5. QED
    BY <2>2, <2>3, <2>4, Zenon
<1>10. /\ g'.crc = crc /\ g'.buf = g.buf /\ g'.payload_off = g.payload_off
       /\ g'.expected_len = g.expected_len /\ g'.active = g.active
       /\ g' = [g EXCEPT !.crc = crc]
  BY <1>1, <1>7 DEF RamTypes
<1>11. left' = new
  BY <1>7
<1>. HIDE DEF crc
<1>12. Types'
  <2>1. g' \in [buf : Seq(Nat), payload_off : Nat, expected_len : 0 .. MAX_BYTES,
                crc : Seq(Nat), active : BOOLEAN]
    BY <1>1, <1>9, <1>10 DEF RamTypes
  <2>2. remaining' \in 0 .. MAX_BYTES
    BY <1>3, <1>4, <1>8, Geometry
  <2>3. RamTypes'
    BY <1>1, <1>2, <1>6, <1>10, <1>11, <2>1, <2>2 DEF RamTypes
  <2>4. stream' \in Seq(Nat)
    BY <1>3, <1>4, <1>8, RestProperties
  <2>5. QED
    BY <1>1, <1>2, <2>3, <2>4 DEF Types, FlashTypes, LinkTypes
<1>13. ReceivedInv'
  <2>1. Top' = Top /\ Top \in Nat
    BY <1>3, <1>10 DEF Top
  <2>2. Len(g'.crc) = Top' + Len(left') /\ Len(g'.crc) + remaining' = g'.expected_len
    <3>1. Len(g'.crc) = Len(g.crc) + Len(new)
      BY <1>9, <1>10
    <3>2. QED
      BY <1>3, <1>4, <1>5, <1>6, <1>8, <1>11, <2>1, <3>1, <1>10
  <2>3. ASSUME NEW i \in 1 .. Len(g'.buf) PROVE g'.crc[g'.payload_off + i] = g'.buf[i]
    <3>1. i \in 1 .. Len(g.buf)
      BY <1>10
    <3>2. g.payload_off + i \in 1 .. Len(g.crc)
      <4>1. g.payload_off \in Nat /\ Len(g.buf) \in Nat /\ Len(g.crc) = g.payload_off + Len(g.buf)
        BY <1>3, <1>5 DEF Top
      <4>2. QED
        BY ONLY <3>1, <4>1
    <3>3. g.crc[g.payload_off + i] = g.buf[i]
      BY <1>1, <1>2, <3>1 DEF ReceivedInv, Writing
    <3>4. QED
      BY <1>9, <1>10, <3>2, <3>3
  <2>4. \A i \in 1 .. Len(left') : g'.crc[Top' + i] = left'[i]
    BY <1>5, <1>9, <1>10, <1>11, <2>1
  <2>5. QED
    BY <1>2, <1>5, <1>10, <2>1, <2>2, <2>3, <2>4 DEF ReceivedInv, Top
<1>14. BufferInv'
  BY <1>1, <1>2, <1>10 DEF BufferInv, Writing
<1>15. WrittenInv'
  <2>1. Written' = Written /\ Written = g.payload_off /\ g'.expected_len = g.expected_len
    BY <1>2, <1>10 DEF Written, Programming
  <2>2. ASSUME NEW i \in DOMAIN cells, i < g.payload_off
        PROVE  g'.crc[i + 1] = g.crc[i + 1]
    <3>1. i + 1 \in 1 .. Len(g.crc)
      BY <1>1, <1>3, <1>5, <2>2 DEF FlashTypes, Top
    <3>2. QED
      BY <1>9, <1>10, <3>1
  <2>3. QED
    BY <1>1, <1>2, <2>1, <2>2 DEF WrittenInv, Writing
<1>16. QED
  BY <1>2, <1>12, <1>13, <1>14, <1>15 DEF FlashInv, DeviceInv, EraseInv, JobInv, VerifyInv, Programming

\* A sector buffer handed to the flash driver starts a page and is all to do.
LEMMA FlushJob ==
  ASSUME NEW off \in Nat, off % SECTOR = 0, off <= REGION, NEW buf \in Seq(Nat)
  PROVE  LET j == [from |-> off, bytes |-> buf]
         IN  j \in [from : 0 .. REGION, bytes : Seq(Datum)] /\ j.from % PAGE = 0
<1>1. buf \in Seq(Datum)
  BY SeqMonotonic DEF Datum
<1>2. off % PAGE = 0
  BY SectorStartsPage
<1>3. QED
  BY <1>1, <1>2, Geometry

\* What append copies at once is not nothing, and fits the sector buffer.
LEMMA CopyFits ==
  ASSUME NEW used \in Nat, used < SECTOR, NEW n \in Nat, n >= 1
  PROVE  LET copy == Lesser(SECTOR - used, n)
         IN  copy \in Nat /\ copy >= 1 /\ copy <= n /\ used + copy <= SECTOR
BY Geometry DEF Lesser

LEMMA CopyFlashInv ==
  ASSUME FlashInv, Copy
  PROVE  FlashInv'
<1>1. /\ FlashTypes /\ RamTypes /\ LinkTypes
      /\ ReceivedInv /\ BufferInv /\ WrittenInv
  BY DEF FlashInv, Types, DeviceInv
<1>2. /\ pc = "append" /\ left # <<>>
      /\ UNCHANGED <<hdr, cells, remaining, stream, reply, host, faults>>
  BY DEF Copy, flash, link
<1>. DEFINE used == Len(g.buf)
            n    == Len(left)
            all  == Len(g.crc)
            off  == g.payload_off
            len  == g.expected_len
            copy == Lesser(SECTOR - used, n)
            head == First(left, copy)
            buf  == g.buf \o head
            more == Rest(left, copy)
<1>3. g.buf \in Seq(Nat) /\ left \in Seq(Nat)
  BY <1>1 DEF RamTypes
<1>4. /\ used \in Nat /\ n \in Nat /\ n >= 1 /\ all \in Nat
      /\ off \in Nat /\ len \in 0 .. MAX_BYTES /\ remaining \in Nat
  BY <1>1, <1>2, LenProperties, EmptySeq DEF RamTypes
<1>5. all = Top + n /\ all + remaining = len /\ used < SECTOR /\ Top = off + used
  BY <1>1, <1>2 DEF ReceivedInv, BufferInv, Writing, Top
<1>6. off % SECTOR = 0
  BY <1>1, <1>2 DEF BufferInv, Writing
<1>7. /\ left' = more /\ g' = [g EXCEPT !.buf = buf]
      /\ \/ Len(buf) = SECTOR /\ job' = Flush(buf) /\ pc' = "program"
         \/ Len(buf) < SECTOR /\ UNCHANGED <<job, pc>>
  BY DEF Copy
<1>8. copy \in Nat /\ copy >= 1 /\ copy <= n /\ used + copy <= SECTOR
  <2>. HIDE DEF used, n
  <2>1. QED
    BY <1>4, <1>5, CopyFits
<1>. HIDE DEF copy
<1>9. head \in Seq(Nat) /\ Len(head) = copy /\ \A i \in 1 .. copy : head[i] = left[i]
  <2>1. copy \in 0 .. Len(left)
    BY <1>4, <1>8
  <2>2. head \in Seq(Nat) /\ Len(head) = copy
    BY <1>3, <2>1, FirstProperties
  <2>3. \A i \in 1 .. copy : head[i] = left[i]
    BY <1>3, <2>1, FirstProperties
  <2>4. QED
    BY <2>2, <2>3
<1>10. more \in Seq(Nat) /\ Len(more) = n - copy
  BY <1>3, <1>4, <1>8, RestProperties
<1>11. \A i \in 1 .. n - copy : more[i] = left[copy + i]
  BY <1>3, <1>8, RestProperties
<1>. HIDE DEF more, head
<1>12. buf \in Seq(Nat)
  BY <1>3, <1>9, JoinProperties
<1>13. Len(buf) = used + copy
  <2>1. Len(buf) = used + Len(head)
    BY <1>3, <1>9, JoinProperties
  <2>2. QED
    BY <1>9, <2>1
<1>14. \A i \in 1 .. used : buf[i] = g.buf[i]
  BY <1>3, <1>9, JoinProperties
<1>15. \A i \in 1 .. copy : buf[used + i] = left[i]
  <2>1. \A i \in 1 .. Len(head) : buf[used + i] = head[i]
    BY <1>3, <1>9, JoinProperties
  <2>2. QED
    BY <1>9, <2>1
<1>. HIDE DEF buf
<1>16. /\ g'.buf = buf /\ g'.crc = g.crc /\ g'.payload_off = off
       /\ g'.expected_len = len /\ g'.active = g.active
       /\ left' = more
  BY <1>1, <1>7 DEF RamTypes
<1>17. Top' = Top + copy /\ Top' = off + Len(buf)
  <2>1. Top' = off + Len(buf)
    BY <1>16 DEF Top
  <2>. HIDE DEF used, off
  <2>2. QED
    BY <1>4, <1>5, <1>8, <1>13, <2>1
<1>. HIDE DEF used, n, all, off, len
<1>18. \/ Len(buf) = SECTOR /\ job' = Flush(buf) /\ pc' = "program"
       \/ Len(buf) < SECTOR /\ Len(buf) # SECTOR /\ job' = job /\ pc' = "append"
  <2>1. Len(buf) \in Nat
    BY <1>4, <1>8, <1>13
  <2>2. QED
    BY <1>2, <1>7, <2>1, Geometry
<1>19. pc' = "program" => /\ job'.from = off /\ job'.bytes = buf
                          /\ job' \in [from : 0 .. REGION, bytes : Seq(Datum)]
                          /\ job'.from % PAGE = 0
  <2>1. SUFFICES ASSUME pc' = "program" PROVE /\ job'.from = off /\ job'.bytes = buf
                          /\ job' \in [from : 0 .. REGION, bytes : Seq(Datum)]
                          /\ job'.from % PAGE = 0
    OBVIOUS
  <2>2. job' = [from |-> off, bytes |-> buf]
    BY <1>18, <2>1 DEF Flush, off
  <2>3. off <= REGION
    BY <1>4, <1>5, Geometry DEF MAX_BYTES
  <2>4. job' \in [from : 0 .. REGION, bytes : Seq(Datum)] /\ job'.from % PAGE = 0
    BY <1>4, <1>6, <1>12, <2>2, <2>3, FlushJob
  <2>5. QED
    BY <2>2, <2>4
<1>20. Types'
  <2>1. g' \in [buf : Seq(Nat), payload_off : Nat, expected_len : 0 .. MAX_BYTES,
                crc : Seq(Nat), active : BOOLEAN]
    BY <1>1, <1>7, <1>12 DEF RamTypes
  <2>2. off + Len(buf) <= len
    BY <1>4, <1>5, <1>8, <1>13, Geometry
  <2>3. Len(buf) <= SECTOR
    BY <1>8, <1>13
  <2>4. job' \in [from : 0 .. REGION, bytes : Seq(Datum)]
    BY <1>1, <1>18, <1>19 DEF RamTypes
  <2>5. RamTypes'
    BY <1>1, <1>2, <1>10, <1>16, <1>18, <2>1, <2>2, <2>3, <2>4 DEF RamTypes
  <2>6. QED
    BY <1>1, <1>2, <2>5 DEF Types, FlashTypes, LinkTypes
<1>21. ReceivedInv'
  <2>1. all = Top' + Len(more) /\ all + remaining' = len
    BY <1>2, <1>4, <1>5, <1>8, <1>10, <1>17
  <2>2. ASSUME NEW i \in 1 .. Len(buf) PROVE g.crc[off + i] = buf[i]
    <3>1. i \in 1 .. used + copy
      BY <1>13
    <3>2. CASE i \in 1 .. used
      <4>1. g.crc[off + i] = g.buf[i]
        BY <1>1, <1>2, <3>2 DEF ReceivedInv, Writing, used, off
      <4>2. QED
        BY <1>14, <3>2, <4>1
    <3>3. CASE i \notin 1 .. used
      <4>. DEFINE j == i - used
      <4>1. j \in 1 .. copy /\ j \in 1 .. n /\ i = used + j /\ Top + j = off + i
        BY <1>4, <1>5, <1>8, <3>1, <3>3
      <4>. HIDE DEF j
      <4>2. g.crc[Top + j] = left[j]
        BY <1>1, <1>2, <4>1 DEF ReceivedInv, Writing, n
      <4>3. buf[used + j] = left[j]
        BY <1>15, <4>1
      <4>4. QED
        BY <4>1, <4>2, <4>3
    <3>4. QED
      BY <3>2, <3>3
  <2>3. ASSUME NEW i \in 1 .. Len(more) PROVE g.crc[Top' + i] = more[i]
    <3>1. i \in 1 .. n - copy
      BY <1>10
    <3>2. copy + i \in 1 .. n /\ Top' + i = Top + (copy + i)
      BY <1>4, <1>5, <1>8, <1>17, <3>1
    <3>3. g.crc[Top + (copy + i)] = left[copy + i]
      BY <1>1, <1>2, <3>2 DEF ReceivedInv, Writing, n
    <3>4. QED
      BY <1>11, <3>1, <3>2, <3>3
  <2>4. g.active /\ hdr = Blank /\ g.expected_len >= 1
    BY <1>1, <1>2 DEF ReceivedInv, Writing
  <2>5. QED
    BY <1>2, <1>16, <2>1, <2>2, <2>3, <2>4 DEF ReceivedInv, all, len
<1>22. BufferInv'
  BY <1>6, <1>16, <1>18 DEF BufferInv, Writing
<1>23. Written' = off
  <2>1. CASE pc' = "program"
    <3>1. job'.from = off /\ off < Top' /\ off \in Nat
      BY <1>4, <1>5, <1>8, <1>17, <1>19, <2>1
    <3>2. QED
      BY <2>1, <3>1 DEF Written, Programming, Lesser
  <2>2. CASE pc' # "program"
    BY <1>16, <1>18, <2>2 DEF Written, Programming
  <2>3. QED
    BY <2>1, <2>2
<1>24. WrittenInv'
  BY <1>1, <1>2, <1>16, <1>23 DEF WrittenInv, Writing, Written, Programming, off, len
<1>25. JobInv'
  <2>1. SUFFICES ASSUME pc' = "program" PROVE JobInv'
    BY <1>18 DEF JobInv, Programming
  <2>2. off < Top' /\ Len(buf) = Top' - off
    BY <1>4, <1>5, <1>8, <1>13, <1>17
  <2>3. \A i \in 1 .. Len(buf) : buf[i] = g'.crc[off + i]
    BY <1>16, <1>21, <2>1 DEF ReceivedInv, Writing
  <2>4. QED
    BY <1>4, <1>16, <1>19, <2>1, <2>2, <2>3 DEF JobInv
<1>26. QED
  BY <1>18, <1>20, <1>21, <1>22, <1>24, <1>25 DEF FlashInv, DeviceInv, EraseInv, VerifyInv

LEMMA AppendedFlashInv ==
  ASSUME FlashInv, Appended
  PROVE  FlashInv'
<1>1. /\ FlashTypes /\ RamTypes /\ LinkTypes
      /\ ReceivedInv /\ BufferInv /\ WrittenInv
  BY DEF FlashInv, Types, DeviceInv
<1>2. /\ pc = "append" /\ left = <<>> /\ pc' = "body"
      /\ UNCHANGED <<hdr, cells, g, remaining, left, job, stream, reply, host, faults>>
  BY DEF Appended, flash, link
<1>3. Types'
  BY <1>1, <1>2 DEF Types, FlashTypes, RamTypes, LinkTypes
<1>4. ReceivedInv' /\ BufferInv' /\ WrittenInv'
  BY <1>1, <1>2 DEF ReceivedInv, BufferInv, WrittenInv, Writing, Written, Programming, Top
<1>5. QED
  BY <1>2, <1>3, <1>4 DEF FlashInv, DeviceInv, EraseInv, JobInv, VerifyInv, Programming

\* Each cell the driver programs was erased, so it holds its byte afterwards.
LEMMA ProgramPageFlashInv ==
  ASSUME FlashInv, ProgramPage
  PROVE  FlashInv'
<1>1. /\ FlashTypes /\ RamTypes /\ LinkTypes
      /\ ReceivedInv /\ BufferInv /\ WrittenInv /\ JobInv
  BY DEF FlashInv, Types, DeviceInv
<1>2. /\ pc \in {"program", "tail"} /\ job.bytes # <<>>
      /\ UNCHANGED <<hdr, g, pc, remaining, left, stream, reply, host, faults>>
  BY DEF ProgramPage, link
<1>. DEFINE from == job.from
            n    == Len(job.bytes)
            len  == g.expected_len
            off  == g.payload_off
<1>3. /\ from \in Nat /\ n \in Nat /\ n >= 1 /\ job.bytes \in Seq(Datum)
      /\ off \in Nat /\ len \in 0 .. MAX_BYTES /\ Top \in Nat /\ Top <= len
  BY <1>1, <1>2, LenProperties, EmptySeq DEF RamTypes, Top
<1>4. from >= off /\ n = Top - from /\ from < Top
  BY <1>1, <1>2, <1>3 DEF JobInv, Programming
<1>5. from % PAGE = 0
  BY <1>1, <1>2 DEF JobInv, Programming
<1>6. \A i \in 1 .. n : job.bytes[i] = g.crc[from + i]
  BY <1>1, <1>2 DEF JobInv, Programming
<1>. HIDE DEF from, n, len, off
<1>7. Written = from
  BY <1>2, <1>4 DEF Written, Programming, Lesser, from
<1>8. DOMAIN cells = 0 .. MAX_BYTES - 1 /\ g.crc \in Seq(Nat)
  BY <1>1 DEF FlashTypes, RamTypes
<1>9. Len(g.crc) \in Nat /\ Len(g.crc) >= Top
  <2>1. Len(g.crc) = Top + Len(left) /\ Len(left) \in Nat
    BY <1>1, <1>2, LenProperties DEF ReceivedInv, Writing, RamTypes
  <2>2. QED
    BY <1>3, <2>1
<1>10. cells' = [i \in DOMAIN cells |->
                   IF i \in PageCells(from) /\ i - from < n
                   THEN Programmed(cells[i], job.bytes[i - from + 1]) ELSE cells[i]]
  BY DEF ProgramPage, from, n
<1>11. ASSUME NEW i \in DOMAIN cells
       PROVE  i \in PageCells(from) /\ i - from < n <=> from <= i /\ i < from + PAGE /\ i < Top
  <2>1. i \in Nat /\ i \in 0 .. MAX_BYTES - 1
    BY <1>8, Geometry
  <2>2. i \in PageCells(from) <=> from <= i /\ i < from + PAGE
    BY <1>3, <1>5, <2>1, PageOf DEF PageCells
  <2>3. i - from < n <=> i < Top
    BY <1>3, <1>4, <2>1
  <2>4. QED
    BY <2>2, <2>3
<1>12. ASSUME NEW i \in DOMAIN cells, from <= i, i < from + PAGE, i < Top
       PROVE  cells'[i] = g.crc[i + 1] /\ g.crc[i + 1] \in Nat
  <2>1. i \in Nat /\ i - from + 1 \in 1 .. n /\ from + (i - from + 1) = i + 1
    BY <1>3, <1>4, <1>8, <1>12, Geometry
  <2>2. job.bytes[i - from + 1] = g.crc[i + 1]
    BY <1>6, <2>1
  <2>3. cells[i] = Erased
    BY <1>1, <1>2, <1>3, <1>7, <1>12, <2>1 DEF WrittenInv, Writing, len
  <2>4. cells'[i] = Programmed(cells[i], job.bytes[i - from + 1])
    BY <1>10, <1>11, <1>12
  <2>5. i + 1 \in 1 .. Len(g.crc)
    BY <1>3, <1>9, <1>12, <2>1
  <2>6. g.crc[i + 1] \in Nat
    BY <1>8, <2>5, ElementOfSeq
  <2>7. QED
    BY <2>2, <2>3, <2>4, <2>6 DEF Programmed
<1>13. ASSUME NEW i \in DOMAIN cells, ~(from <= i /\ i < from + PAGE /\ i < Top)
       PROVE  cells'[i] = cells[i]
  BY <1>10, <1>11, <1>13
<1>14. job' = [from |-> from + PAGE, bytes |-> Rest(job.bytes, PAGE)]
  BY DEF ProgramPage, from
<1>15. /\ Rest(job.bytes, PAGE) \in Seq(Datum)
       /\ Len(Rest(job.bytes, PAGE)) = IF PAGE <= n THEN n - PAGE ELSE 0
  BY <1>3, Geometry, RestProperties DEF n
<1>16. \A i \in 1 .. n - PAGE : Rest(job.bytes, PAGE)[i] = job.bytes[PAGE + i]
  BY <1>3, Geometry, RestProperties DEF n
<1>. DEFINE bytes == Rest(job.bytes, PAGE)
<1>. HIDE DEF bytes
<1>17. job'.from = from + PAGE /\ job'.bytes = bytes
  BY <1>14 DEF bytes
<1>18. Types'
  <2>1. FlashTypes'
    <3>1. \A i \in DOMAIN cells : cells'[i] \in Datum
      BY <1>1, <1>12, <1>13 DEF FlashTypes, Datum
    <3>2. cells' = [i \in DOMAIN cells |-> cells'[i]]
      BY <1>10
    <3>3. cells' \in [0 .. MAX_BYTES - 1 -> Datum]
      BY <1>8, <3>1, <3>2
    <3>4. QED
      BY <1>1, <1>2, <3>3 DEF FlashTypes
  <2>2. from + PAGE \in 0 .. REGION
    BY <1>3, <1>4, Geometry DEF MAX_BYTES
  <2>3. RamTypes'
    BY <1>1, <1>2, <1>14, <1>15, <2>2 DEF RamTypes
  <2>4. QED
    BY <1>1, <1>2, <2>1, <2>3 DEF Types, LinkTypes
<1>19. ReceivedInv' /\ BufferInv' /\ Top' = Top
  BY <1>1, <1>2 DEF ReceivedInv, BufferInv, Writing, Top
<1>20. Written' = Lesser(from + PAGE, Top)
  BY <1>2, <1>17, <1>19 DEF Written, Programming
<1>21. WrittenInv'
  <2>1. DOMAIN cells' = DOMAIN cells
    BY <1>10
  <2>2. ASSUME NEW i \in DOMAIN cells, i < Written' PROVE cells'[i] = g.crc[i + 1]
    <3>1. i \in Nat /\ i < from + PAGE /\ i < Top
      BY <1>3, <1>8, <1>20, <2>2, Geometry DEF Lesser
    <3>2. CASE from <= i
      BY <1>12, <3>1, <3>2
    <3>3. CASE ~(from <= i)
      <4>1. cells[i] = g.crc[i + 1]
        BY <1>1, <1>2, <1>3, <1>7, <3>1, <3>3 DEF WrittenInv, Writing
      <4>2. QED
        BY <1>13, <3>3, <4>1
    <3>4. QED
      BY <3>2, <3>3
  <2>3. ASSUME NEW i \in DOMAIN cells, Written' <= i, i < len PROVE cells'[i] = Erased
    <3>1. i \in Nat /\ from <= i /\ (from + PAGE <= i \/ Top <= i)
      BY <1>3, <1>4, <1>8, <1>20, <2>3, Geometry DEF Lesser
    <3>2. cells[i] = Erased
      BY <1>1, <1>2, <1>7, <2>3, <3>1 DEF WrittenInv, Writing, len
    <3>3. QED
      BY <1>3, <1>13, <3>1, <3>2, Geometry
  <2>4. QED
    BY <1>2, <2>1, <2>2, <2>3 DEF WrittenInv, Writing, len
<1>22. JobInv'
  <2>1. job'.from % PAGE = 0
    BY <1>3, <1>5, <1>17, NextPage
  <2>2. Len(bytes) = IF PAGE <= n THEN n - PAGE ELSE 0
    BY <1>15 DEF bytes
  <2>3. Len(bytes) = IF from + PAGE < Top THEN Top - (from + PAGE) ELSE 0
    BY <1>3, <1>4, <2>2, Geometry
  <2>4. ASSUME NEW i \in 1 .. Len(bytes) PROVE bytes[i] = g.crc[(from + PAGE) + i]
    <3>1. i \in 1 .. n - PAGE /\ PAGE + i \in 1 .. n /\ from + (PAGE + i) = (from + PAGE) + i
      BY <1>3, <2>2, Geometry
    <3>2. QED
      BY <1>6, <1>16, <3>1 DEF bytes
  <2>5. from + PAGE >= off
    BY <1>3, <1>4, Geometry
  <2>6. QED
    BY <1>2, <1>17, <1>19, <2>1, <2>3, <2>4, <2>5 DEF JobInv, off
<1>23. QED
  BY <1>2, <1>18, <1>19, <1>21, <1>22 DEF FlashInv, DeviceInv, EraseInv, VerifyInv

LEMMA FlushedFlashInv ==
  ASSUME FlashInv, Flushed
  PROVE  FlashInv'
<1>1. /\ FlashTypes /\ RamTypes /\ LinkTypes
      /\ ReceivedInv /\ BufferInv /\ WrittenInv /\ JobInv
  BY DEF FlashInv, Types, DeviceInv
<1>2. /\ pc \in {"program", "tail"} /\ job.bytes = <<>>
      /\ pc' = IF pc = "tail" THEN "header" ELSE "append"
      /\ g' = [g EXCEPT !.payload_off = @ + Len(g.buf), !.buf = <<>>]
      /\ UNCHANGED <<hdr, cells, remaining, left, job, stream, reply, host, faults>>
  BY DEF Flushed, flash, link
<1>3. /\ job.from \in Nat /\ Len(job.bytes) = 0 /\ Top \in Nat
      /\ g.payload_off \in Nat /\ Len(g.buf) \in Nat /\ Top <= g.expected_len
  BY <1>1, <1>2, LenProperties, EmptySeq DEF RamTypes, Top
<1>4. Written = Top
  <2>1. Len(job.bytes) = IF job.from < Top THEN Top - job.from ELSE 0
    BY <1>1, <1>2 DEF JobInv, Programming
  <2>2. ~(job.from < Top)
    BY <1>3, <2>1
  <2>3. QED
    BY <1>2, <2>2 DEF Written, Programming, Lesser
<1>5. /\ g'.buf = <<>> /\ g'.payload_off = Top /\ g'.crc = g.crc
      /\ g'.expected_len = g.expected_len /\ g'.active = g.active
  BY <1>1, <1>2 DEF RamTypes, Top
<1>6. Len(g'.buf) = 0
  BY <1>5, EmptySeq
<1>7. Top' = Top /\ Written' = Top
  BY <1>2, <1>3, <1>5, <1>6 DEF Top, Written, Programming
<1>8. Types'
  <2>1. g' \in [buf : Seq(Nat), payload_off : Nat, expected_len : 0 .. MAX_BYTES,
                crc : Seq(Nat), active : BOOLEAN]
    <3>1. g' = [g EXCEPT !.payload_off = Top, !.buf = <<>>]
      BY <1>1, <1>2 DEF RamTypes, Top
    <3>2. QED
      BY <1>1, <1>3, <3>1, EmptySeq DEF RamTypes
  <2>2. g'.payload_off + Len(g'.buf) <= g'.expected_len /\ Len(g'.buf) <= SECTOR
    BY <1>3, <1>5, <1>6, Geometry
  <2>3. RamTypes'
    BY <1>1, <1>2, <2>1, <2>2 DEF RamTypes
  <2>4. QED
    BY <1>1, <1>2, <2>3 DEF Types, FlashTypes, LinkTypes
<1>9. ReceivedInv'
  <2>1. \A i \in 1 .. Len(g'.buf) : g'.crc[g'.payload_off + i] = g'.buf[i]
    BY <1>6
  <2>2. /\ g.active /\ hdr = Blank /\ g.expected_len >= 1
        /\ Len(g.crc) = Top + Len(left) /\ Len(g.crc) + remaining = g.expected_len
        /\ \A i \in 1 .. Len(left) : g.crc[Top + i] = left[i]
    BY <1>1, <1>2 DEF ReceivedInv, Writing
  <2>3. QED
    BY <1>2, <1>5, <1>7, <2>1, <2>2 DEF ReceivedInv
<1>10. BufferInv'
  <2>1. pc = "program" => Top % SECTOR = 0
    <3>1. SUFFICES ASSUME pc = "program" PROVE Top % SECTOR = 0
      OBVIOUS
    <3>2. g.payload_off % SECTOR = 0 /\ Len(g.buf) = SECTOR
      BY <1>1, <3>1 DEF BufferInv, Writing
    <3>3. (g.payload_off + SECTOR) % SECTOR = 0
      BY <1>3, <3>2, SectorStartsPage
    <3>4. QED
      BY <3>2, <3>3 DEF Top
  <2>2. Len(g'.buf) < SECTOR
    BY <1>6, Geometry
  <2>3. QED
    BY <1>1, <1>2, <1>5, <2>1, <2>2 DEF BufferInv, Writing
<1>11. WrittenInv'
  BY <1>1, <1>2, <1>4, <1>5, <1>7 DEF WrittenInv, Writing
<1>12. QED
  BY <1>2, <1>8, <1>9, <1>10, <1>11 DEF FlashInv, DeviceInv, EraseInv, JobInv, VerifyInv, Programming

LEMMA EndFlashInv ==
  ASSUME FlashInv, End
  PROVE  FlashInv'
<1>1. /\ FlashTypes /\ RamTypes /\ LinkTypes
      /\ ReceivedInv /\ BufferInv /\ WrittenInv
  BY DEF FlashInv, Types, DeviceInv
<1>2. /\ pc = "body" /\ remaining = 0
      /\ UNCHANGED <<hdr, cells, g, remaining, left, stream, reply, host, faults>>
  BY DEF End, flash, link
<1>3. /\ g.payload_off \in Nat /\ g.buf \in Seq(Nat) /\ Len(g.buf) \in Nat
      /\ g.expected_len \in 0 .. MAX_BYTES /\ Top \in Nat /\ Top <= g.expected_len
  BY <1>1, LenProperties DEF RamTypes, Top
<1>4. g.active /\ left = <<>>
  BY <1>1, <1>2 DEF ReceivedInv, BufferInv, Writing
<1>5. g.payload_off % SECTOR = 0
  BY <1>1, <1>2 DEF BufferInv, Writing
<1>6. Written = g.payload_off
  BY <1>2 DEF Written, Programming
<1>7. CASE g.buf # <<>>
  <2>1. job' = [from |-> g.payload_off, bytes |-> g.buf] /\ pc' = "tail"
    BY <1>4, <1>7 DEF End, Flush
  <2>2. g.payload_off <= REGION
    BY <1>3, Geometry DEF MAX_BYTES, Top
  <2>3. job' \in [from : 0 .. REGION, bytes : Seq(Datum)] /\ job'.from % PAGE = 0
    BY <1>3, <1>5, <2>1, <2>2, FlushJob
  <2>4. Types'
    BY <1>1, <1>2, <2>1, <2>3 DEF Types, FlashTypes, RamTypes, LinkTypes
  <2>5. ReceivedInv' /\ BufferInv' /\ Top' = Top
    BY <1>1, <1>2, <2>1 DEF ReceivedInv, BufferInv, Writing, Top
  <2>6. Len(g.buf) >= 1 /\ Len(g.buf) = Top - g.payload_off /\ g.payload_off < Top
    <3>1. Len(g.buf) >= 1
      BY <1>3, <1>7, EmptySeq
    <3>2. QED
      BY <1>3, <3>1 DEF Top
  <2>7. Written' = g.payload_off
    BY <1>2, <2>1, <2>5, <2>6 DEF Written, Programming, Lesser
  <2>8. WrittenInv'
    BY <1>1, <1>2, <1>6, <2>1, <2>7 DEF WrittenInv, Writing
  <2>9. JobInv'
    <3>1. \A i \in 1 .. Len(g.buf) : g.buf[i] = g.crc[g.payload_off + i]
      BY <1>1, <1>2 DEF ReceivedInv, Writing
    <3>2. job'.from = g.payload_off /\ job'.bytes = g.buf /\ job'.from >= g.payload_off
      BY <1>3, <2>1
    <3>3. QED
      BY <1>2, <2>3, <2>5, <2>6, <3>1, <3>2 DEF JobInv
  <2>10. QED
    BY <2>1, <2>4, <2>5, <2>8, <2>9 DEF FlashInv, DeviceInv, EraseInv, VerifyInv
<1>8. CASE g.buf = <<>>
  <2>1. UNCHANGED job /\ pc' = "header"
    BY <1>4, <1>8 DEF End
  <2>2. Types'
    BY <1>1, <1>2, <2>1 DEF Types, FlashTypes, RamTypes, LinkTypes
  <2>3. ReceivedInv' /\ BufferInv'
    BY <1>1, <1>2, <1>8, <2>1 DEF ReceivedInv, BufferInv, Writing, Top
  <2>4. WrittenInv'
    BY <1>1, <1>2, <2>1 DEF WrittenInv, Writing, Written, Programming
  <2>5. QED
    BY <2>1, <2>2, <2>3, <2>4 DEF FlashInv, DeviceInv, EraseInv, JobInv, VerifyInv, Programming
<1>9. QED
  BY <1>7, <1>8

\* When the header is written, all of the upload is in flash.
LEMMA HeaderWhole ==
  ASSUME FlashInv, pc = "header"
  PROVE  /\ EndCode = 0 /\ g.expected_len \in 1 .. MAX_BYTES
         /\ Len(g.crc) = g.expected_len
         /\ [i \in 1 .. g.expected_len |-> cells[i - 1]] = g.crc
<1>1. FlashTypes /\ RamTypes /\ ReceivedInv /\ BufferInv /\ WrittenInv
  BY DEF FlashInv, Types, DeviceInv
<1>2. /\ g.active /\ g.buf = <<>> /\ left = <<>> /\ remaining = 0
      /\ Len(g.crc) = Top + Len(left) /\ Len(g.crc) + remaining = g.expected_len
      /\ g.expected_len \in 1 .. MAX_BYTES
  BY <1>1 DEF ReceivedInv, BufferInv, Writing, RamTypes
<1>3. Len(g.crc) = g.expected_len /\ g.payload_off = g.expected_len
  <2>1. Len(g.buf) = 0 /\ Len(left) = 0 /\ g.payload_off \in Nat
    BY <1>1, <1>2, EmptySeq DEF RamTypes
  <2>2. QED
    BY <1>2, <2>1 DEF Top
<1>4. EndCode = 0
  BY <1>2, <1>3 DEF EndCode
<1>. DEFINE len == g.expected_len
<1>5. ASSUME NEW i \in 1 .. len PROVE cells[i - 1] = g.crc[i]
  <2>1. i - 1 \in DOMAIN cells /\ i - 1 < Written /\ (i - 1) + 1 = i
    BY <1>1, <1>2, <1>3, <1>5, Geometry DEF FlashTypes, Written, Programming
  <2>2. QED
    BY <1>1, <2>1 DEF WrittenInv, Writing
<1>6. g.crc = [i \in 1 .. len |-> g.crc[i]]
  <2>1. g.crc \in [1 .. Len(g.crc) -> Nat]
    BY <1>1, LenProperties DEF RamTypes
  <2>2. QED
    BY <1>3, <2>1
<1>7. [i \in 1 .. len |-> cells[i - 1]] = [i \in 1 .. len |-> g.crc[i]]
  BY <1>5
<1>8. QED
  BY <1>2, <1>3, <1>4, <1>6, <1>7

LEMMA WriteHeaderFlashInv ==
  ASSUME FlashInv, WriteHeader
  PROVE  FlashInv'
<1>1. FlashTypes /\ RamTypes /\ LinkTypes /\ BufferInv
  BY DEF FlashInv, Types, DeviceInv
<1>2. /\ pc = "header" /\ UNCHANGED <<cells, remaining, left, job, stream, host, faults>>
      /\ g' = [g EXCEPT !.active = FALSE]
  BY DEF WriteHeader
<1>3. /\ EndCode = 0 /\ g.expected_len \in 1 .. MAX_BYTES
      /\ Len(g.crc) = g.expected_len
      /\ [i \in 1 .. g.expected_len |-> cells[i - 1]] = g.crc
  BY <1>2, HeaderWhole
<1>4. /\ hdr' = [magic |-> TRUE, length |-> g.expected_len, crc |-> g.crc]
      /\ pc' = "verify" /\ UNCHANGED reply
  BY <1>3 DEF WriteHeader
<1>5. /\ g'.crc = g.crc /\ g'.expected_len = g.expected_len
      /\ g'.buf = g.buf /\ g'.payload_off = g.payload_off
  BY <1>1, <1>2 DEF RamTypes
<1>6. Types'
  <2>1. FlashTypes'
    BY <1>1, <1>2, <1>3, <1>4 DEF FlashTypes, RamTypes
  <2>2. RamTypes'
    BY <1>1, <1>2, <1>4, <1>5 DEF RamTypes
  <2>3. QED
    BY <1>1, <1>2, <1>4, <2>1, <2>2 DEF Types, LinkTypes
<1>7. VerifyInv'
  <2>1. hdr'.magic = TRUE /\ hdr'.length = g.expected_len /\ hdr'.crc = g.crc
    BY <1>4
  <2>2. Payload' = g.crc
    BY <1>2, <1>3, <2>1 DEF Payload
  <2>3. QED
    BY <1>3, <1>5, <2>1, <2>2 DEF VerifyInv
<1>8. BufferInv'
  BY <1>1, <1>2, <1>4 DEF BufferInv, Writing
<1>9. QED
  BY <1>4, <1>6, <1>7, <1>8 DEF FlashInv, DeviceInv, EraseInv, ReceivedInv, WrittenInv, JobInv,
                                Writing, Programming

LEMMA VerifyFlashInv ==
  ASSUME FlashInv, Verify
  PROVE  FlashInv'
<1>1. FlashTypes /\ RamTypes /\ LinkTypes /\ BufferInv
  BY DEF FlashInv, Types, DeviceInv
<1>2. /\ pc = "verify" /\ pc' = "mode"
      /\ UNCHANGED <<hdr, cells, g, remaining, left, job, stream, host, faults>>
  BY DEF Verify, flash
<1>3. reply' \in Seq(Nat)
  <2>1. Append(reply, 0) \in Seq(Nat) /\ Append(reply, 3) \in Seq(Nat)
    BY <1>1, AppendProperties DEF LinkTypes
  <2>2. reply' = Append(reply, 0) \/ reply' = Append(reply, 3)
    BY DEF Verify
  <2>3. QED
    BY <2>1, <2>2, Zenon
<1>4. Types'
  BY <1>1, <1>2, <1>3 DEF Types, FlashTypes, RamTypes, LinkTypes
<1>5. QED
  BY <1>1, <1>2, <1>4 DEF FlashInv, DeviceInv, EraseInv, ReceivedInv, BufferInv, WrittenInv,
                          JobInv, VerifyInv, Writing, Programming

\* Whatever part of an operation was done when power was lost, the flash holds
\* bytes, and nothing is programmed twice.
LEMMA TornFlashTypes ==
  ASSUME FlashInv, TornFlash
  PROVE  FlashTypes'
<1>1. /\ FlashTypes /\ RamTypes /\ LinkTypes
      /\ ReceivedInv /\ BufferInv /\ WrittenInv /\ JobInv
  BY DEF FlashInv, Types, DeviceInv
<1>2. CASE pc = "erase"
  <2>1. PICK S : cells' = [i \in DOMAIN cells |-> IF i \in S THEN Erased ELSE cells[i]]
    BY <1>2 DEF TornFlash
  <2>2. cells' \in [0 .. MAX_BYTES - 1 -> Datum]
    BY <1>1, <2>1 DEF FlashTypes, Datum
  <2>3. hdr' = hdr \/ hdr' = Blank
    BY <1>2 DEF TornFlash
  <2>4. Blank \in [magic : BOOLEAN, length : 0 .. MAX_BYTES, crc : Seq(Nat)]
    BY Geometry, EmptySeq DEF Blank
  <2>5. QED
    BY <1>1, <2>2, <2>3, <2>4 DEF FlashTypes
<1>3. CASE pc \in {"program", "tail"}
  <2>1. UNCHANGED hdr
    BY <1>3 DEF TornFlash
  <2>2. PICK S \in SUBSET {i \in PageCells(job.from) : i - job.from < Len(job.bytes)} :
          cells' = [i \in DOMAIN cells |->
             IF i \in S THEN Programmed(cells[i], job.bytes[i - job.from + 1]) ELSE cells[i]]
    BY <1>3 DEF TornFlash
  <2>3. ASSUME NEW i \in DOMAIN cells, i \in S
        PROVE  Programmed(cells[i], job.bytes[i - job.from + 1]) \in Datum
    <3>. DEFINE from == job.from
                n    == Len(job.bytes)
    <3>1. from \in Nat /\ n \in Nat /\ job.bytes \in Seq(Datum) /\ i \in Nat
      BY <1>1, LenProperties, Geometry DEF RamTypes, FlashTypes
    <3>2. i \in PageCells(from) /\ i - from < n /\ from % PAGE = 0
      BY <1>1, <1>3, <2>3 DEF JobInv, Programming
    <3>3. from <= i
      BY <3>1, <3>2, PageOf DEF PageCells
    <3>4. job.bytes[i - from + 1] \in Datum
      <4>1. i - from + 1 \in 1 .. n
        <5>. HIDE DEF from, n
        <5>1. QED
          BY <3>1, <3>2, <3>3
      <4>2. QED
        BY <3>1, <4>1, ElementOfSeq
    <3>5. cells[i] = Erased
      <4>1. /\ n = IF from < Top THEN Top - from ELSE 0
            /\ Top \in Nat /\ Top <= g.expected_len /\ g.expected_len \in Nat
        BY <1>1, <1>3, LenProperties, Geometry DEF JobInv, Programming, RamTypes, Top
      <4>. HIDE DEF from, n
      <4>2. from < Top /\ i < Top /\ i < g.expected_len
        BY <3>1, <3>2, <3>3, <4>1
      <4>3. Written <= i
        BY <1>3, <3>3, <4>2 DEF Written, Programming, Lesser, from
      <4>4. QED
        BY <1>1, <1>3, <4>2, <4>3 DEF WrittenInv, Writing
    <3>6. QED
      BY <3>4, <3>5 DEF Programmed
  <2>4. cells' \in [0 .. MAX_BYTES - 1 -> Datum]
    BY <1>1, <2>2, <2>3 DEF FlashTypes
  <2>5. QED
    BY <1>1, <2>1, <2>4 DEF FlashTypes
<1>4. CASE pc = "header"
  <2>1. PICK n \in g.expected_len .. MAX_BYTES :
          hdr' = [magic |-> TRUE, length |-> n, crc |-> g.crc]
    BY <1>4 DEF TornFlash
  <2>2. UNCHANGED cells
    BY <1>4 DEF TornFlash
  <2>3. n \in 0 .. MAX_BYTES
    BY <1>1, Geometry DEF RamTypes
  <2>4. QED
    BY <1>1, <2>1, <2>2, <2>3 DEF FlashTypes, RamTypes
<1>5. QED
  BY <1>2, <1>3, <1>4 DEF TornFlash

LEMMA PowerLossFlashInv ==
  ASSUME FlashInv, PowerLoss
  PROVE  FlashInv'
<1>1. FlashTypes /\ LinkTypes
  BY DEF FlashInv, Types
<1>2. FlashTypes'
  BY <1>1, TornFlashTypes DEF PowerLoss, flash, FlashTypes
<1>3. /\ g' = Ready /\ pc' = "boot" /\ remaining' = 0 /\ left' = <<>> /\ job' = NoJob
      /\ stream' = <<>> /\ reply' = <<>> /\ UNCHANGED faults
      /\ host' = [host EXCEPT !.code = IF @ = Pending THEN 1 ELSE @]
  BY DEF PowerLoss
<1>4. RamTypes'
  BY <1>3, Geometry, EmptySeq DEF RamTypes, Ready, NoJob, Datum
<1>5. LinkTypes'
  BY <1>1, <1>3, EmptySeq DEF LinkTypes, Pending
<1>6. DeviceInv'
  BY <1>3 DEF DeviceInv, EraseInv, ReceivedInv, BufferInv, WrittenInv, JobInv, VerifyInv,
              Writing, Programming
<1>7. QED
  BY <1>2, <1>4, <1>5, <1>6 DEF FlashInv, Types

\* The invariant is inductive.
LEMMA StepFlashInv ==
  ASSUME FlashInv, [Next]_vars
  PROVE  FlashInv'
<1>1. CASE UNCHANGED vars
  <2>1. Types'
    BY <1>1 DEF FlashInv, Types, FlashTypes, RamTypes, LinkTypes, vars, flash, ram, link
  <2>2. QED
    BY <1>1, <2>1, DeviceUnchanged DEF FlashInv, vars
<1>2. ASSUME NEW image \in Images, Upload(image) PROVE FlashInv'
  BY <1>2, UploadFlashInv
<1>3. ASSUME NEW mode \in {MODE_L, MODE_a}, Command(mode) PROVE FlashInv'
  BY <1>3, CommandFlashInv
<1>4. CASE HostRead
  BY <1>4, HostReadFlashInv
<1>5. CASE Firmware
  BY <1>5, BootFlashInv, ModeFlashInv, EraseSectorFlashInv, BeginFlashInv, ChunkFlashInv,
     CopyFlashInv, AppendedFlashInv, ProgramPageFlashInv, FlushedFlashInv, EndFlashInv,
     WriteHeaderFlashInv, VerifyFlashInv DEF Firmware
<1>6. CASE PowerLoss
  BY <1>6, PowerLossFlashInv
<1>7. QED
  BY <1>1, <1>2, <1>3, <1>4, <1>5, <1>6 DEF Next

LEMMA SpecFlashInv == Spec => []FlashInv
BY InitFlashInv, StepFlashInv, PTL DEF Spec

-----------------------------------------------------------------------------
(* What follows for every behaviour. *)

\* Buffers, offsets and the header's length stay in their ranges: the sector
\* buffer of bitstream_flash_append never overflows, never runs past the length
\* that was announced, and the flash driver stays in the region.
THEOREM TypeCorrect == Spec => []TypeOK
<1>1. FlashInv => TypeOK
  BY DEF FlashInv, Types, FlashTypes, RamTypes, TypeOK
<1>2. QED
  BY <1>1, SpecFlashInv, PTL

\* After any interrupted uploads, torn flash operations included, no cell is ever
\* programmed that was not erased before: bitstream_flash_begin erases all that
\* append and end program.
THEOREM NeverOverwrites == Spec => []CellsClean
<1>1. FlashInv => CellsClean
  BY DEF FlashInv, Types, FlashTypes, Datum, CellsClean, Erased, Garbage
<1>2. QED
  BY <1>1, SpecFlashInv, PTL

\* The ways the flash changes: the header is erased or stays so, it is written
\* behind a whole upload, or power is lost inside an operation.
LEMMA FlashSteps ==
  ASSUME FlashInv, [Next]_vars
  PROVE  /\ UNCHANGED faults
         /\ \/ UNCHANGED flash
            \/ hdr' = Blank
            \/ pc = "header" /\ WriteHeader
            \/ PowerLoss /\ "torn" \in faults
<1>1. EraseInv /\ ReceivedInv /\ RamTypes
  BY DEF FlashInv, DeviceInv, Types
<1>2. CASE UNCHANGED vars
  BY <1>2 DEF vars
<1>3. ASSUME NEW image \in Images, Upload(image) PROVE UNCHANGED flash /\ UNCHANGED faults
  BY <1>3 DEF Upload, Open
<1>4. ASSUME NEW mode \in {MODE_L, MODE_a}, Command(mode) PROVE UNCHANGED flash /\ UNCHANGED faults
  BY <1>4 DEF Command, Open
<1>5. CASE HostRead
  BY <1>5 DEF HostRead
<1>6. CASE EraseSector
  BY <1>1, <1>6 DEF EraseSector, EraseInv, RamTypes
<1>7. CASE ProgramPage
  BY <1>1, <1>7 DEF ProgramPage, ReceivedInv, Writing
<1>8. CASE WriteHeader
  BY <1>8 DEF WriteHeader
<1>9. CASE Boot \/ Mode \/ Begin \/ Chunk \/ Copy \/ Appended \/ Flushed \/ End \/ Verify
  BY <1>9 DEF Boot, Mode, Begin, Chunk, Copy, Appended, Flushed, End, Verify
<1>10. CASE PowerLoss
  BY <1>10 DEF PowerLoss
<1>11. QED
  BY <1>2, <1>3, <1>4, <1>5, <1>6, <1>7, <1>8, <1>9, <1>10 DEF Next, Firmware

\* After the header is written it stands before the bytes it was made of.
LEMMA AfterHeader ==
  ASSUME FlashInv, FlashInv', pc = "header", WriteHeader
  PROVE  hdr'.crc = g.crc /\ Payload' = hdr'.crc /\ pc' = "verify" /\ hdr'.length = g.expected_len
<1>1. EndCode = 0
  BY HeaderWhole
<1>2. pc' = "verify" /\ hdr' = [magic |-> TRUE, length |-> g.expected_len, crc |-> g.crc]
  BY <1>1 DEF WriteHeader
<1>3. QED
  BY <1>2 DEF FlashInv, DeviceInv, VerifyInv

LEMMA BlankAbsent ==
  ASSUME hdr' = Blank
  PROVE  ~Present'
BY DEF Present, Blank

\* If power is lost between flash operations only, a header that is accepted
\* stands before the very bytes its checksum was taken of, whoever died while
\* uploading: the header goes first when a sector is erased and is written last.
THEOREM AcceptedIsWhole == Spec => []PresentIsWhole
<1>1. Init => PresentIsWhole
  BY DEF Init, PresentIsWhole, Present, Blank
<1>2. ASSUME FlashInv, FlashInv', PresentIsWhole, [Next]_vars PROVE PresentIsWhole'
  <2>1. SUFFICES ASSUME "torn" \notin faults', Present' PROVE Payload' = hdr'.crc
    BY DEF PresentIsWhole
  <2>2. "torn" \notin faults /\ (UNCHANGED flash \/ (pc = "header" /\ WriteHeader))
    BY <1>2, <2>1, FlashSteps, BlankAbsent
  <2>3. CASE UNCHANGED flash
    BY <1>2, <2>1, <2>2, <2>3 DEF PresentIsWhole, Present, Payload, flash
  <2>4. CASE pc = "header" /\ WriteHeader
    BY <1>2, <2>4, AfterHeader
  <2>5. QED
    BY <2>2, <2>3, <2>4
<1>3. QED
  BY <1>1, <1>2, SpecFlashInv, PTL DEF Spec

\* Whenever the firmware waits for a command the iCE40 runs what is stored: after
\* the boot, after a reload and after an upload, power losses notwithstanding.
THEOREM RunsWhatIsStored == Spec => []BootRestores
<1>1. Init => BootRestores
  BY DEF Init, BootRestores
<1>2. ASSUME FlashInv, FlashInv', BootRestores, [Next]_vars PROVE BootRestores'
  <2>1. SUFFICES ASSUME pc' = "mode", Present' PROVE ice40' = Payload'
    BY DEF BootRestores
  <2>2. CASE pc = "mode" /\ UNCHANGED <<hdr, cells, ice40>>
    BY <1>2, <2>1, <2>2 DEF BootRestores, Present, Payload
  <2>3. CASE Boot
    BY <2>1, <2>3 DEF Boot, Load, Present, Payload, flash
  <2>4. CASE Mode
    <3>1. UNCHANGED <<hdr, cells>> /\ pc = "mode" /\ (UNCHANGED ice40 \/ ice40' = Payload)
      BY <2>4 DEF Mode, flash, Load
    <3>2. QED
      BY <2>2, <3>1 DEF Payload
  <2>5. CASE Verify
    <3>1. hdr.length = g.expected_len
      BY <1>2, <2>5 DEF Verify, FlashInv, DeviceInv, VerifyInv
    <3>2. QED
      BY <2>1, <2>5, <3>1 DEF Verify, flash, Present, Payload
  <2>6. ~WriteHeader
    <3>1. WriteHeader => pc = "header"
      BY DEF WriteHeader
    <3>2. QED
      BY <1>2, <2>1, <3>1, AfterHeader
  <2>7. ~(EraseSector \/ Begin \/ Chunk \/ Copy \/ Appended \/ ProgramPage \/ Flushed \/ End \/ PowerLoss)
    BY <2>1 DEF EraseSector, Begin, Chunk, Copy, Appended, ProgramPage, Flushed, End, PowerLoss
  <2>8. ASSUME NEW image \in Images, Upload(image) PROVE pc = "mode" /\ UNCHANGED <<hdr, cells, ice40>>
    BY <2>1, <2>8 DEF Upload, Open, flash, ram
  <2>9. ASSUME NEW mode \in {MODE_L, MODE_a}, Command(mode)
        PROVE  pc = "mode" /\ UNCHANGED <<hdr, cells, ice40>>
    BY <2>1, <2>9 DEF Command, Open, flash, ram
  <2>10. HostRead \/ UNCHANGED vars => pc = "mode" /\ UNCHANGED <<hdr, cells, ice40>>
    BY <2>1 DEF HostRead, flash, ram, vars
  <2>11. QED
    BY <1>2, <2>2, <2>3, <2>4, <2>5, <2>6, <2>7, <2>8, <2>9, <2>10 DEF Next, Firmware
<1>3. QED
  BY <1>1, <1>2, SpecFlashInv, PTL DEF Spec

-----------------------------------------------------------------------------
(* What an upload's bytes do, if no host dies inside one. *)

\* The files fit the region: flash-bitstream does not compare a file's size with
\* it, and the body of a refused upload would be read as modes.
FilesFit == \A im \in Images : Len(im) <= MAX_BYTES

NoReply      == <<MODE_a, 0>>
Reload       == <<MODE_L, 0>>
Frame(image) == <<MODE_F, Len(image)>> \o image

\* What the stream can hold while nobody waits for an answer.
Quiet == stream \in {<<>>, NoReply, NoReply \o NoReply}

\* The host's request, perhaps behind a command that has no answer.
Asks(f) == \/ host.image \in Images /\ f = Frame(host.image)
           \/ host.image = <<>> /\ f = Reload
Request == \E f \in {Frame(host.image), Reload} : Asks(f) /\ stream \in {f, NoReply \o f}

Stored == host.image # <<>> => Present /\ Payload = host.image

Waiting == host.code = Pending /\ reply = <<>>

\* The answer "ok" is on its way, or was given, for what is stored.
IdleInv ==
  pc \in {"boot", "mode"} =>
    /\ host.code # Pending => Quiet /\ (host.code = 0 => Stored)
    /\ host.code = Pending => \/ reply = <<>> /\ Request
                              \/ stream = <<>> /\ Len(reply) = 1 /\ (reply[1] = 0 => Stored)

\* What was received and what is in the stream make up the host's file.
FileInv ==
  /\ Len(g.crc) + Len(stream) = Len(host.image)
  /\ \A i \in 1 .. Len(g.crc) : g.crc[i] = host.image[i]
  /\ \A i \in 1 .. Len(stream) : stream[i] = host.image[Len(g.crc) + i]

UploadInv ==
  /\ pc = "erase" => Waiting /\ stream = host.image /\ remaining = Len(host.image)
  /\ Writing => Waiting /\ FileInv /\ g.expected_len = Len(host.image)
  /\ pc = "verify" => Waiting /\ stream = <<>> /\ hdr.crc = host.image
  /\ pc \notin {"boot", "mode"} => host.image \in Images

HostInv == "cut" \notin faults => IdleInv /\ UploadInv

\* The checksum of a header that is accepted is of an uploaded file.
OriginInv == faults = {} => (Present => hdr.crc \in Images)
-----------------------------------------------------------------------------
(* Its proof. *)

\* A stream starts with its header, and the rest is behind it.
LEMMA HeaderCut ==
  ASSUME NEW a \in Nat, NEW b \in Nat, NEW s \in Seq(Nat)
  PROVE  LET t == <<a, b>> \o s
         IN  /\ t \in Seq(Nat) /\ Len(t) = Len(s) + 2 /\ t[1] = a /\ t[2] = b
             /\ First(t, 2) = <<a, b>> /\ Rest(t, 2) = s
<1>. DEFINE h == <<a, b>>
            t == h \o s
<1>1. h \in Seq(Nat) /\ Len(h) = 2 /\ h[1] = a /\ h[2] = b /\ Len(s) \in Nat
  BY LenProperties
<1>. HIDE DEF h
<1>2. h \in Seq(Nat) /\ s \in Seq(Nat)
  BY <1>1
<1>3. t \in Seq(Nat) /\ Len(t) = Len(h) + Len(s)
  BY ONLY <1>2, JoinProperties
<1>4. \A i \in 1 .. Len(h) : t[i] = h[i]
  BY ONLY <1>2, JoinProperties
<1>5. \A i \in 1 .. Len(s) : t[Len(h) + i] = s[i]
  BY ONLY <1>2, JoinProperties
<1>. HIDE DEF t
<1>6. Len(t) = Len(s) + 2 /\ t[1] = a /\ t[2] = b /\ t \in Seq(Nat)
  BY <1>1, <1>3, <1>4
<1>7. First(t, 2) = h
  <2>1. 2 \in 0 .. Len(t) /\ t \in Seq(Nat)
    BY <1>1, <1>6
  <2>2. First(t, 2) \in Seq(Nat) /\ Len(First(t, 2)) = 2
    BY ONLY <2>1, FirstProperties
  <2>3. \A i \in 1 .. 2 : First(t, 2)[i] = t[i]
    BY ONLY <2>1, FirstProperties
  <2>4. \A i \in 1 .. Len(First(t, 2)) : First(t, 2)[i] = h[i]
    BY <1>1, <1>4, <2>2, <2>3
  <2>5. QED
    BY <1>1, <2>2, <2>4, SeqEqual
<1>8. Rest(t, 2) = s
  <2>. DEFINE r == Rest(t, 2)
  <2>1. t \in Seq(Nat) /\ 2 \in Nat /\ 2 <= Len(t) /\ Len(s) = Len(t) - 2
    BY <1>1, <1>6
  <2>2. r \in Seq(Nat)
    BY ONLY <2>1, RestProperties
  <2>3. Len(r) = Len(t) - 2
    BY ONLY <2>1, RestProperties
  <2>4. \A i \in 1 .. Len(t) - 2 : r[i] = t[2 + i]
    BY ONLY <2>1, RestProperties
  <2>. HIDE DEF r
  <2>5. \A i \in 1 .. Len(r) : r[i] = s[i]
    BY <1>1, <1>5, <2>1, <2>3, <2>4
  <2>6. r = s
    BY <1>2, <2>1, <2>2, <2>3, <2>5, SeqEqual
  <2>7. QED
    BY <2>6 DEF r
<1>9. QED
  BY <1>6, <1>7, <1>8 DEF t, h

\* The same of a header with nothing behind it.
LEMMA BareHeader ==
  ASSUME NEW a \in Nat, NEW b \in Nat
  PROVE  /\ <<a, b>> \in Seq(Nat) /\ Len(<<a, b>>) = 2
         /\ First(<<a, b>>, 2) = <<a, b>> /\ Rest(<<a, b>>, 2) = <<>>
<1>1. <<a, b>> \in Seq(Nat) /\ Len(<<a, b>>) = 2
  OBVIOUS
<1>2. <<>> \in Seq(Nat) /\ <<a, b>> \o <<>> = <<a, b>>
  BY <1>1, EmptySeq, ConcatEmptySeq
<1>. DEFINE t == <<a, b>> \o <<>>
<1>3. First(t, 2) = <<a, b>> /\ Rest(t, 2) = <<>>
  BY <1>2, HeaderCut, Zenon
<1>4. QED
  BY <1>1, <1>2, <1>3, Zenon

LEMMA NoReplyType == NoReply \in Seq(Nat) /\ Len(NoReply) = 2 /\ NoReply[1] = MODE_a
BY BareHeader DEF NoReply, MODE_a

\* What is behind a command that has no answer.
LEMMA BehindNoReply ==
  ASSUME NEW f \in Seq(Nat)
  PROVE  LET t == NoReply \o f
         IN  /\ t \in Seq(Nat) /\ Len(t) = Len(f) + 2 /\ t[1] = MODE_a
             /\ First(t, 2) = NoReply /\ Rest(t, 2) = f
<1>. DEFINE t == <<MODE_a, 0>> \o f
<1>1. MODE_a \in Nat /\ 0 \in Nat /\ f \in Seq(Nat)
  BY DEF MODE_a
<1>2. t \in Seq(Nat) /\ Len(t) = Len(f) + 2
  BY ONLY <1>1, HeaderCut
<1>3. t[1] = MODE_a
  BY ONLY <1>1, HeaderCut
<1>4. First(t, 2) = <<MODE_a, 0>> /\ Rest(t, 2) = f
  BY ONLY <1>1, HeaderCut, Zenon
<1>5. QED
  BY <1>2, <1>3, <1>4, Zenon DEF NoReply

\* The frame of an upload.
LEMMA FrameCut ==
  ASSUME NEW image \in Images
  PROVE  LET f == Frame(image)
         IN  /\ f \in Seq(Nat) /\ Len(f) = Len(image) + 2 /\ f[1] = MODE_F
             /\ f[2] = Len(image) /\ Rest(f, 2) = image
<1>. DEFINE f == <<MODE_F, Len(image)>> \o image
<1>1. MODE_F \in Nat /\ Len(image) \in Nat /\ image \in Seq(Nat)
  BY FlashAssumption, LenProperties DEF MODE_F
<1>2. f \in Seq(Nat) /\ Len(f) = Len(image) + 2
  BY ONLY <1>1, HeaderCut
<1>3. f[1] = MODE_F
  BY ONLY <1>1, HeaderCut
<1>4. f[2] = Len(image)
  BY ONLY <1>1, HeaderCut
<1>5. Rest(f, 2) = image
  BY ONLY <1>1, HeaderCut, Zenon
<1>6. QED
  BY <1>2, <1>3, <1>4, <1>5, Zenon DEF Frame

\* A quiet stream is empty or starts with a command that has no answer.
LEMMA QuietCut ==
  ASSUME Quiet
  PROVE  /\ stream \in Seq(Nat)
         /\ stream = <<>> \/ (/\ stream[1] = MODE_a /\ Len(stream) >= 2
                              /\ First(stream, 2) = NoReply
                              /\ Rest(stream, 2) \in {<<>>, NoReply})
<1>1. CASE stream = <<>>
  BY <1>1, EmptySeq
<1>2. CASE stream = NoReply
  <2>1. First(NoReply, 2) = NoReply /\ Rest(NoReply, 2) = <<>>
    BY BareHeader DEF NoReply, MODE_a
  <2>2. QED
    BY <1>2, <2>1, NoReplyType
<1>3. CASE stream = NoReply \o NoReply
  <2>1. stream[1] = MODE_a /\ Len(stream) = Len(NoReply) + 2
    BY <1>3, NoReplyType, BehindNoReply
  <2>2. stream \in Seq(Nat) /\ First(stream, 2) = NoReply /\ Rest(stream, 2) = NoReply
    BY <1>3, NoReplyType, BehindNoReply, Zenon
  <2>3. QED
    BY <2>1, <2>2, NoReplyType
<1>4. QED
  BY <1>1, <1>2, <1>3 DEF Quiet

\* Nobody sends while an upload is under way, so a request finds the stream empty
\* or behind one command that the firmware is reading already.
LEMMA OpenQuiet ==
  ASSUME FlashInv, IdleInv, UploadInv, NEW frame \in Seq(Nat), Open(frame)
  PROVE  /\ pc \in {"boot", "mode"} /\ pc' = pc /\ reply' = <<>>
         /\ stream' \in {frame, NoReply \o frame}
         /\ UNCHANGED flash
<1>1. pc \in {"boot", "mode"}
  BY DEF Open, UploadInv, Waiting, Writing, FlashInv, Types, RamTypes
<1>2. Quiet
  BY <1>1 DEF Open, IdleInv
<1>3. PICK n \in {0, Lesser(Wanted, Len(stream))} : stream' = First(stream, n) \o frame
  BY DEF Open
<1>4. /\ stream \in Seq(Nat)
      /\ stream = <<>> \/ (Len(stream) >= 2 /\ First(stream, 2) = NoReply)
  BY <1>2, QuietCut
<1>5. Len(stream) \in Nat /\ (stream = <<>> => Len(stream) = 0)
  BY <1>4, LenProperties, EmptySeq
<1>6. n = 0 \/ (n = 2 /\ stream # <<>>)
  <2>1. Wanted \in {0, 2}
    BY <1>1 DEF Wanted
  <2>2. QED
    BY <1>4, <1>5, <2>1 DEF Lesser
<1>7. First(stream, 0) = <<>>
  BY <1>4, <1>5, FirstProperties, EmptySeq
<1>8. <<>> \o frame = frame
  BY ConcatEmptySeq
<1>9. stream' \in {frame, NoReply \o frame}
  BY <1>3, <1>4, <1>6, <1>7, <1>8
<1>10. QED
  BY <1>1, <1>9 DEF Open, ram

LEMMA UploadHostInv ==
  ASSUME FlashInv, IdleInv, UploadInv, "cut" \notin faults,
         NEW image \in Images, Upload(image)
  PROVE  IdleInv' /\ UploadInv'
<1>1. host' = [image |-> image, code |-> Pending] /\ Open(Frame(image))
  BY DEF Upload, Frame
<1>2. Frame(image) \in Seq(Nat)
  BY FrameCut
<1>3. /\ pc' \in {"boot", "mode"} /\ reply' = <<>>
      /\ stream' \in {Frame(image), NoReply \o Frame(image)}
  BY <1>1, <1>2, OpenQuiet
<1>4. host'.image = image /\ host'.code = Pending
  BY <1>1
<1>5. Request'
  BY <1>3, <1>4 DEF Request, Asks
<1>6. QED
  BY <1>3, <1>4, <1>5 DEF IdleInv, UploadInv, Writing

LEMMA CommandHostInv ==
  ASSUME FlashInv, IdleInv, UploadInv, NEW mode \in {MODE_L, MODE_a}, Command(mode)
  PROVE  IdleInv' /\ UploadInv'
<1>1. <<mode, 0>> \in Seq(Nat)
  BY DEF MODE_L, MODE_a
<1>2. Open(<<mode, 0>>)
  BY DEF Command
<1>3. /\ pc' \in {"boot", "mode"} /\ reply' = <<>>
      /\ stream' \in {<<mode, 0>>, NoReply \o <<mode, 0>>}
  BY <1>1, <1>2, OpenQuiet
<1>4. host'.image = <<>> /\ host'.code = IF mode = MODE_L THEN Pending ELSE 0
  BY DEF Command
<1>5. CASE mode = MODE_L
  <2>1. Request'
    BY <1>3, <1>4, <1>5 DEF Request, Asks, Reload
  <2>2. QED
    BY <1>3, <1>4, <1>5, <2>1 DEF IdleInv, UploadInv, Writing
<1>6. CASE mode = MODE_a
  <2>1. Quiet'
    BY <1>3, <1>6 DEF Quiet, NoReply
  <2>2. host'.code = 0 /\ Stored'
    BY <1>4, <1>6 DEF Stored, MODE_a, MODE_L
  <2>3. QED
    BY <1>3, <2>1, <2>2 DEF IdleInv, UploadInv, Writing, Pending
<1>7. QED
  BY <1>5, <1>6

LEMMA HostReadHostInv ==
  ASSUME FlashInv, IdleInv, UploadInv, HostRead
  PROVE  IdleInv' /\ UploadInv'
<1>1. /\ host.code = Pending /\ reply # <<>> /\ host' = [host EXCEPT !.code = Head(reply)]
      /\ UNCHANGED <<hdr, cells, pc, stream>>
  BY DEF HostRead, flash, ram
<1>2. reply \in Seq(Nat) /\ host \in [image : Seq(Nat), code : Nat \cup {Pending}]
  BY DEF FlashInv, Types, LinkTypes
<1>3. pc \in {"boot", "mode"}
  BY <1>1 DEF UploadInv, Waiting, Writing, FlashInv, Types, RamTypes
<1>4. stream = <<>> /\ (reply[1] = 0 => Stored)
  BY <1>1, <1>3 DEF IdleInv
<1>5. Head(reply) = reply[1] /\ Head(reply) \in Nat
  BY <1>1, <1>2, HeadTailProperties
<1>6. host'.image = host.image /\ host'.code = reply[1] /\ host'.code # Pending
  BY <1>1, <1>2, <1>5 DEF Pending
<1>7. Stored' <=> Stored
  BY <1>1, <1>6 DEF Stored, Present, Payload
<1>8. QED
  BY <1>1, <1>3, <1>4, <1>6, <1>7 DEF IdleInv, UploadInv, Writing, Quiet

LEMMA ModeHostInv ==
  ASSUME FilesFit, FlashInv, IdleInv, UploadInv, Mode
  PROVE  IdleInv' /\ UploadInv'
<1>1. /\ pc = "mode" /\ stream' = Rest(stream, 2) /\ UNCHANGED <<hdr, cells, host>>
      /\ stream # <<>>
  BY EmptySeq DEF Mode, flash
<1>2. Stored' <=> Stored
  BY <1>1 DEF Stored, Present, Payload
<1>3. stream[1] \notin {MODE_F, MODE_L} => UNCHANGED <<pc, reply>>
  BY DEF Mode
<1>4. CASE host.code # Pending
  <2>1. Quiet /\ (host.code = 0 => Stored)
    BY <1>1, <1>4 DEF IdleInv
  <2>2. stream[1] = MODE_a /\ stream' \in {<<>>, NoReply}
    BY <1>1, <2>1, QuietCut
  <2>3. UNCHANGED <<pc, reply>> /\ Quiet'
    BY <1>3, <2>2 DEF Quiet, MODE_a, MODE_F, MODE_L
  <2>4. QED
    BY <1>1, <1>2, <1>4, <2>1, <2>3 DEF IdleInv, UploadInv, Writing
<1>5. CASE host.code = Pending
  <2>1. reply = <<>> /\ Request
    BY <1>1, <1>5 DEF IdleInv
  <2>2. PICK f : Asks(f) /\ stream \in {f, NoReply \o f}
    BY <2>1 DEF Request
  <2>3. f \in Seq(Nat)
    BY <2>2, FrameCut, BareHeader DEF Asks, Reload, MODE_L
  <2>4. CASE stream = NoReply \o f
    <3>1. stream[1] = MODE_a
      BY <2>3, <2>4, BehindNoReply
    <3>2. stream' = f
      BY <1>1, <2>3, <2>4, BehindNoReply, Zenon
    <3>3. UNCHANGED <<pc, reply>>
      BY <1>3, <3>1 DEF MODE_a, MODE_F, MODE_L
    <3>4. Request'
      BY <1>1, <2>2, <3>2 DEF Request, Asks
    <3>5. QED
      BY <1>1, <1>5, <2>1, <3>3, <3>4 DEF IdleInv, UploadInv, Writing
  <2>5. CASE stream = f /\ host.image \in Images /\ f = Frame(host.image)
    <3>1. stream[1] = MODE_F /\ stream[2] = Len(host.image)
      BY <2>5, FrameCut
    <3>2. stream' = host.image
      BY <1>1, <2>5, FrameCut, Zenon
    <3>3. Len(host.image) \in Nat /\ (Len(host.image) = 0 <=> host.image = <<>>)
          /\ Len(host.image) <= MAX_BYTES
      BY <2>5, FlashAssumption, LenProperties, EmptySeq DEF FilesFit
    <3>4. CASE Len(host.image) = 0
      <4>1. UNCHANGED pc /\ reply' = Append(<<>>, 255)
        BY <2>1, <3>1, <3>4 DEF Mode, MODE_F, MODE_L
      <4>2. Len(reply') = 1 /\ reply'[1] # 0 /\ stream' = <<>>
        BY <3>2, <3>3, <3>4, <4>1
      <4>3. QED
        BY <1>1, <1>5, <4>1, <4>2 DEF IdleInv, UploadInv, Writing
    <3>5. CASE Len(host.image) # 0
      <4>1. stream[2] \in 1 .. MAX_BYTES
        BY <3>1, <3>3, <3>5, Geometry
      <4>2. pc' = "erase" /\ remaining' = stream[2] /\ UNCHANGED reply
        BY <3>1, <4>1 DEF Mode, MODE_F, MODE_L
      <4>3. QED
        BY <1>1, <1>5, <2>1, <2>5, <3>1, <3>2, <4>2 DEF IdleInv, UploadInv, Writing, Waiting
    <3>6. QED
      BY <3>4, <3>5
  <2>6. CASE stream = f /\ host.image = <<>> /\ f = Reload
    <3>1. stream[1] = MODE_L /\ stream' = <<>>
      BY <1>1, <2>6, BareHeader DEF Reload, MODE_L
    <3>2. UNCHANGED pc /\ (reply' = Append(<<>>, 0) \/ reply' = Append(<<>>, 1))
      BY <2>1, <3>1 DEF Mode, MODE_F, MODE_L
    <3>3. Len(reply') = 1 /\ Stored'
      BY <1>1, <2>6, <3>2 DEF Stored
    <3>4. QED
      BY <1>1, <1>5, <3>1, <3>2, <3>3 DEF IdleInv, UploadInv, Writing
  <2>7. QED
    BY <2>2, <2>4, <2>5, <2>6 DEF Asks
<1>6. QED
  BY <1>4, <1>5

LEMMA BeginHostInv ==
  ASSUME FlashInv, IdleInv, UploadInv, Begin
  PROVE  IdleInv' /\ UploadInv'
<1>1. /\ pc = "erase" /\ pc' = "body" /\ UNCHANGED <<host, stream, reply>>
      /\ g'.crc = <<>> /\ g'.expected_len = remaining
  BY DEF Begin, Ready, link
<1>2. Waiting /\ stream = host.image /\ remaining = Len(host.image) /\ host.image \in Images
  BY <1>1 DEF UploadInv
<1>3. FileInv'
  <2>1. Len(g'.crc) = 0 /\ Len(stream) \in Nat
    BY <1>1, EmptySeq, LenProperties DEF FlashInv, Types, LinkTypes
  <2>2. QED
    BY <1>1, <1>2, <2>1 DEF FileInv
<1>4. QED
  BY <1>1, <1>2, <1>3 DEF IdleInv, UploadInv, Writing, Waiting

\* The bytes of a chunk move from the stream to what was received.
LEMMA ChunkHostInv ==
  ASSUME FlashInv, IdleInv, UploadInv, Chunk
  PROVE  IdleInv' /\ UploadInv'
<1>. DEFINE want == Lesser(remaining, CHUNK)
            new  == First(stream, want)
            rest == Rest(stream, want)
            n    == Len(g.crc)
            m    == Len(stream)
<1>1. pc = "body" /\ pc' = "append" /\ UNCHANGED <<host, reply>> /\ stream' = rest
  BY DEF Chunk
<1>2. want \in 0 .. m /\ g' = [g EXCEPT !.crc = @ \o new]
  BY ChunkTakes
<1>3. g.crc \in Seq(Nat) /\ stream \in Seq(Nat) /\ n \in Nat /\ m \in Nat /\ want \in Nat
  BY <1>2, LenProperties DEF FlashInv, Types, RamTypes, LinkTypes
<1>4. g'.expected_len = g.expected_len /\ g'.crc = g.crc \o new
  BY <1>2 DEF FlashInv, Types, RamTypes
<1>5. Waiting /\ FileInv /\ g.expected_len = Len(host.image) /\ host.image \in Images
  BY <1>1 DEF UploadInv, Writing
<1>. HIDE DEF want
<1>6. new \in Seq(Nat) /\ Len(new) = want
  BY <1>2, <1>3, FirstProperties
<1>7. \A i \in 1 .. want : new[i] = stream[i]
  BY <1>2, <1>3, FirstProperties
<1>8. Len(rest) = m - want
  BY <1>2, <1>3, RestProperties
<1>9. \A i \in 1 .. m - want : rest[i] = stream[want + i]
  BY <1>2, <1>3, RestProperties
<1>. HIDE DEF new, rest
<1>. DEFINE crc == g.crc \o new
<1>10. g.crc \in Seq(Nat) /\ new \in Seq(Nat)
  BY <1>3, <1>6
<1>11. Len(crc) = n + Len(new)
  BY ONLY <1>10, JoinProperties
<1>12. \A i \in 1 .. n : crc[i] = g.crc[i]
  BY ONLY <1>10, JoinProperties
<1>13. \A i \in 1 .. Len(new) : crc[n + i] = new[i]
  BY ONLY <1>10, JoinProperties
<1>14. g'.crc = crc
  BY <1>4
<1>15. want <= m /\ want \in Nat /\ n \in Nat /\ m \in Nat
  BY <1>2, <1>3
<1>16. /\ n + m = Len(host.image)
       /\ \A i \in 1 .. n : g.crc[i] = host.image[i]
       /\ \A i \in 1 .. m : stream[i] = host.image[n + i]
  BY <1>5 DEF FileInv
<1>. HIDE DEF crc, n, m
<1>17. Len(crc) = n + want
  BY <1>6, <1>11
<1>18. ASSUME NEW i \in 1 .. Len(crc) PROVE crc[i] = host.image[i]
  <2>1. CASE i \in 1 .. n
    BY <1>12, <1>16, <2>1
  <2>2. CASE i \notin 1 .. n
    <3>. DEFINE j == i - n
    <3>1. j \in 1 .. want /\ j \in 1 .. m /\ i = n + j
      BY <1>15, <1>17, <2>2
    <3>. HIDE DEF j
    <3>2. crc[n + j] = new[j] /\ new[j] = stream[j] /\ stream[j] = host.image[n + j]
      BY <1>6, <1>7, <1>13, <1>16, <3>1
    <3>3. QED
      BY <3>1, <3>2
  <2>3. QED
    BY <2>1, <2>2
<1>19. ASSUME NEW i \in 1 .. Len(rest) PROVE rest[i] = host.image[Len(crc) + i]
  <2>1. i \in 1 .. m - want /\ want + i \in 1 .. m /\ n + (want + i) = Len(crc) + i
    BY <1>8, <1>15, <1>17
  <2>2. rest[i] = stream[want + i] /\ stream[want + i] = host.image[n + (want + i)]
    BY <1>9, <1>16, <2>1
  <2>3. QED
    BY <2>1, <2>2
<1>20. Len(crc) + Len(rest) = Len(host.image)
  BY <1>8, <1>15, <1>16, <1>17
<1>21. FileInv'
  BY <1>1, <1>14, <1>18, <1>19, <1>20 DEF FileInv
<1>22. QED
  BY <1>1, <1>4, <1>5, <1>21 DEF IdleInv, UploadInv, Writing, Waiting

\* Copying and programming touch none of it.
LEMMA WriteHostInv ==
  ASSUME FlashInv, IdleInv, UploadInv,
         Copy \/ Appended \/ ProgramPage \/ Flushed \/ End
  PROVE  IdleInv' /\ UploadInv'
<1>1. RamTypes
  BY DEF FlashInv, Types
<1>2. /\ Writing /\ Writing' /\ UNCHANGED <<host, reply, stream>>
      /\ g'.crc = g.crc /\ g'.expected_len = g.expected_len
  <2>1. CASE Copy
    BY <1>1, <2>1 DEF Copy, Writing, link, RamTypes
  <2>2. CASE Appended \/ ProgramPage \/ End
    BY <2>2 DEF Appended, ProgramPage, End, Writing, link
  <2>3. CASE Flushed
    BY <1>1, <2>3 DEF Flushed, Writing, link, RamTypes
  <2>4. QED
    BY <2>1, <2>2, <2>3
<1>3. pc' \notin {"boot", "mode", "erase", "verify"} /\ pc \notin {"boot", "mode"}
  BY <1>2 DEF Writing
<1>4. QED
  BY <1>2, <1>3 DEF IdleInv, UploadInv, Waiting, FileInv

\* The header is written when all of the host's file was received.
LEMMA HeaderIsFile ==
  ASSUME FlashInv, UploadInv, pc = "header"
  PROVE  stream = <<>> /\ g.crc = host.image /\ host.image \in Images
<1>1. FileInv /\ g.expected_len = Len(host.image) /\ host.image \in Images
  BY DEF UploadInv, Writing
<1>2. g.crc \in Seq(Nat) /\ stream \in Seq(Nat) /\ host.image \in Seq(Nat)
  BY DEF FlashInv, Types, RamTypes, LinkTypes
<1>3. Len(g.crc) = Len(host.image)
  BY <1>1, HeaderWhole
<1>4. Len(stream) = 0
  <2>1. Len(g.crc) \in Nat /\ Len(stream) \in Nat /\ Len(g.crc) + Len(stream) = Len(g.crc)
    BY <1>1, <1>2, <1>3, LenProperties DEF FileInv
  <2>2. QED
    BY <2>1
<1>5. stream = <<>>
  BY <1>2, <1>4, EmptySeq
<1>6. g.crc = host.image
  BY <1>1, <1>2, <1>3, SeqEqual DEF FileInv
<1>7. QED
  BY <1>1, <1>5, <1>6

LEMMA WriteHeaderHostInv ==
  ASSUME FlashInv, FlashInv', IdleInv, UploadInv, WriteHeader
  PROVE  IdleInv' /\ UploadInv'
<1>1. pc = "header" /\ UNCHANGED <<host, stream>>
  BY DEF WriteHeader
<1>2. hdr'.crc = g.crc /\ pc' = "verify"
  BY <1>1, AfterHeader
<1>3. stream = <<>> /\ g.crc = host.image /\ host.image \in Images
  BY <1>1, HeaderIsFile
<1>4. Waiting
  BY <1>1 DEF UploadInv, Writing
<1>5. UNCHANGED reply
  BY <1>1, HeaderWhole DEF WriteHeader
<1>6. QED
  BY <1>1, <1>2, <1>3, <1>4, <1>5 DEF IdleInv, UploadInv, Writing, Waiting

\* The answer "ok" to an upload is sent when it is stored.
LEMMA VerifyHostInv ==
  ASSUME FlashInv, IdleInv, UploadInv, Verify
  PROVE  IdleInv' /\ UploadInv'
<1>1. pc = "verify" /\ pc' = "mode" /\ UNCHANGED <<hdr, cells, host, stream>>
  BY DEF Verify, flash
<1>2. Waiting /\ stream = <<>> /\ hdr.crc = host.image
  BY <1>1 DEF UploadInv
<1>3. reply' = Append(<<>>, 0) \/ reply' = Append(<<>>, 3)
  BY <1>2 DEF Verify, Waiting
<1>4. Stored'
  <2>1. hdr.magic /\ hdr.length \in 1 .. MAX_BYTES /\ Payload = hdr.crc
    BY <1>1 DEF FlashInv, DeviceInv, VerifyInv, Types, FlashTypes
  <2>2. QED
    BY <1>1, <1>2, <2>1 DEF Stored, Present, Payload
<1>5. Len(reply') = 1
  BY <1>3
<1>6. QED
  BY <1>1, <1>2, <1>4, <1>5 DEF IdleInv, UploadInv, Writing, Waiting

\* Power lost after an answer finds no flash operation to interrupt.
LEMMA PowerLossHostInv ==
  ASSUME FlashInv, IdleInv, UploadInv, PowerLoss
  PROVE  IdleInv' /\ UploadInv'
<1>1. /\ pc' = "boot" /\ stream' = <<>>
      /\ host' = [host EXCEPT !.code = IF @ = Pending THEN 1 ELSE @]
  BY DEF PowerLoss
<1>2. /\ host'.image = host.image
      /\ host'.code = IF host.code = Pending THEN 1 ELSE host.code
  BY <1>1 DEF FlashInv, Types, LinkTypes
<1>3. host'.code # Pending /\ (host'.code = 0 => host.code = 0)
  BY <1>2 DEF Pending
<1>4. ASSUME host'.code = 0 PROVE Stored'
  <2>1. host.code = 0 /\ host.code # Pending
    BY <1>3, <1>4 DEF Pending
  <2>2. pc \in {"boot", "mode"}
    BY <2>1 DEF UploadInv, Waiting, Writing, FlashInv, Types, RamTypes
  <2>3. Stored
    BY <2>1, <2>2 DEF IdleInv
  <2>4. UNCHANGED <<hdr, cells>>
    BY <2>2 DEF PowerLoss, TornFlash, flash
  <2>5. QED
    BY <1>2, <2>3, <2>4 DEF Stored, Present, Payload
<1>5. QED
  BY <1>1, <1>3, <1>4 DEF IdleInv, UploadInv, Writing, Quiet

LEMMA StepHostInv ==
  ASSUME FilesFit, FlashInv, FlashInv', HostInv, [Next]_vars
  PROVE  HostInv'
<1>1. SUFFICES ASSUME "cut" \notin faults' PROVE IdleInv' /\ UploadInv'
  BY DEF HostInv
<1>2. "cut" \notin faults /\ IdleInv /\ UploadInv
  BY <1>1, FlashSteps DEF HostInv
<1>3. CASE UNCHANGED vars
  <2>1. UNCHANGED <<hdr, cells, g, pc, remaining, stream, reply, host>>
    BY <1>3 DEF vars, flash, ram, link
  <2>2. UploadInv'
    BY <1>2, <2>1 DEF UploadInv, Writing, Waiting, FileInv
  <2>3. IdleInv'
    BY <1>2, <2>1 DEF IdleInv, Quiet, Request, Asks, Stored, Present, Payload
  <2>4. QED
    BY <2>2, <2>3
<1>4. ASSUME NEW image \in Images, Upload(image) PROVE IdleInv' /\ UploadInv'
  BY <1>2, <1>4, UploadHostInv
<1>5. ASSUME NEW mode \in {MODE_L, MODE_a}, Command(mode) PROVE IdleInv' /\ UploadInv'
  BY <1>2, <1>5, CommandHostInv
<1>6. CASE HostRead
  BY <1>2, <1>6, HostReadHostInv
<1>7. CASE Boot
  <2>1. /\ pc = "boot" /\ pc' = "mode"
        /\ UNCHANGED <<hdr, cells, stream, reply, host>>
    BY <1>7 DEF Boot, flash, link
  <2>2. IdleInv'
    BY <1>2, <2>1 DEF IdleInv, Quiet, Request, Asks, Stored, Present, Payload
  <2>3. QED
    BY <2>1, <2>2 DEF UploadInv, Writing
<1>8. CASE EraseSector
  <2>1. pc = "erase" /\ UNCHANGED <<pc, remaining, stream, reply, host>>
    BY <1>8 DEF EraseSector, link
  <2>2. QED
    BY <1>2, <2>1 DEF IdleInv, UploadInv, Writing, Waiting
<1>9. CASE Firmware /\ ~Boot /\ ~EraseSector
  BY <1>2, <1>9, ModeHostInv, BeginHostInv, ChunkHostInv, WriteHostInv, WriteHeaderHostInv,
     VerifyHostInv DEF Firmware
<1>10. CASE PowerLoss
  BY <1>2, <1>10, PowerLossHostInv
<1>11. QED
  BY <1>3, <1>4, <1>5, <1>6, <1>7, <1>8, <1>9, <1>10 DEF Next

LEMMA SpecHostInv ==
  ASSUME FilesFit
  PROVE  Spec => []HostInv
<1>1. Init => HostInv
  BY DEF Init, HostInv, IdleInv, UploadInv, Writing, Quiet, Stored, Pending
<1>2. QED
  BY <1>1, StepHostInv, SpecFlashInv, PTL DEF Spec

\* If no host dies inside an upload, an upload that is answered with "ok" is what
\* is stored and, once the firmware waits for commands, what the iCE40 runs; it
\* stays so over power losses, inside flash operations too, until the next upload.
\* The files have to fit the region, which flash-bitstream does not check.
THEOREM OkIsStored ==
  ASSUME FilesFit
  PROVE  Spec => []OkMeansStored
<1>1. HostInv /\ BootRestores => OkMeansStored
  BY DEF HostInv, BootRestores, IdleInv, Stored, OkMeansStored, Pending
<1>2. QED
  BY <1>1, SpecHostInv, RunsWhatIsStored, PTL

\* If no host dies inside an upload and power is lost between flash operations
\* only, a bitstream that is present is one of the uploaded files.
THEOREM StoredIsAuthentic ==
  ASSUME FilesFit
  PROVE  Spec => []Authentic
<1>1. Init => OriginInv
  BY DEF Init, OriginInv, Present, Blank
<1>2. ASSUME FlashInv, FlashInv', HostInv, OriginInv, [Next]_vars PROVE OriginInv'
  <2>1. SUFFICES ASSUME faults' = {}, Present' PROVE hdr'.crc \in Images
    BY DEF OriginInv
  <2>2. faults = {} /\ (UNCHANGED flash \/ (pc = "header" /\ WriteHeader))
    BY <1>2, <2>1, FlashSteps, BlankAbsent
  <2>3. CASE UNCHANGED flash
    BY <1>2, <2>1, <2>2, <2>3 DEF OriginInv, Present, flash
  <2>4. CASE pc = "header" /\ WriteHeader
    <3>1. UploadInv
      BY <1>2, <2>2 DEF HostInv
    <3>2. QED
      BY <1>2, <2>4, <3>1, AfterHeader, HeaderIsFile
  <2>5. QED
    BY <2>2, <2>3, <2>4
<1>3. OriginInv /\ PresentIsWhole => Authentic
  BY DEF OriginInv, PresentIsWhole, Authentic, StoredIsUploaded
<1>4. QED
  BY <1>1, <1>2, <1>3, SpecFlashInv, SpecHostInv, AcceptedIsWhole, PTL DEF Spec
=============================================================================
