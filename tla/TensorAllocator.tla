-------------------------- MODULE TensorAllocator --------------------------
(***************************************************************************)
(* The board daemon's tensor allocator (board/memory/allocator.py): free   *)
(* lists over slabs of DDR, tensors of one extent where one slab can hold  *)
(* them and of several otherwise; SlabRanges resolves ranges of a tensor.  *)
(* The runtime's lock makes every operation atomic.                        *)
(*                                                                         *)
(* Slabs and list positions count from 1, offsets from 0.                  *)
(***************************************************************************)
EXTENDS SlabRanges

CONSTANTS SlabSize,     \* the sizes of the slabs, a sequence
          Requests,     \* sizes that are asked for
          Alignments,   \* alignments that are asked for
          LINE,         \* CACHELINE
          MAX_HANDLES   \* bound: tensors ever allocated

ASSUME AllocatorAssumption ==
  /\ SlabSize # <<>> /\ SlabSize \in Seq(Nat \ {0})
  /\ Alignments \subseteq Nat \ {0} /\ Requests \subseteq Nat
  /\ LINE \in Nat \ {0}

VARIABLES free,         \* _free: per slab, blocks in ascending order
          records,      \* _records: handle to TensorRecord
          next_handle,
          last          \* how the last operation ended

vars == <<free, records, next_handle, last>>

Slab == DOMAIN SlabSize
Live == DOMAIN records

AlignUp_none(v, alignment) == v
AlignUp(v, alignment) == ((v + alignment - 1) \div alignment) * alignment

Block(off, size) == [off |-> off, size |-> size]
EndOf(b)         == b.off + b.size

\* blocks with its k-th element replaced by the blocks of new
Splice(blocks, k, new) ==
  SubSeq(blocks, 1, k - 1) \o new \o SubSeq(blocks, k + 1, Len(blocks))

Remainder_dropsHead(b, off, nbytes) ==
  IF off + nbytes < EndOf(b) THEN <<Block(off + nbytes, EndOf(b) - (off + nbytes))>> ELSE <<>>

\* What is left of block b around [off, off + nbytes)
Remainder(b, off, nbytes) ==
     (IF off > b.off THEN <<Block(b.off, off - b.off)>> ELSE <<>>)
  \o (IF off + nbytes < EndOf(b) THEN <<Block(off + nbytes, EndOf(b) - (off + nbytes))>>
                                 ELSE <<>>)

\* _take: the first block that covers the range
Take(blocks, off, nbytes) ==
  LET k == SelectInSeq(blocks, LAMBDA b : b.off <= off /\ off + nbytes <= EndOf(b))
  IN  Splice(blocks, k, Remainder(blocks[k], off, nbytes))

Merge_overlapOnly(merged, b) ==
  IF merged # <<>> /\ b.off < EndOf(Last(merged))
  THEN Append(Front(merged), Block(Last(merged).off,
                                   Greater(EndOf(Last(merged)), EndOf(b)) - Last(merged).off))
  ELSE Append(merged, b)

Merge(merged, b) ==
  IF merged # <<>> /\ b.off <= EndOf(Last(merged))
  THEN Append(Front(merged), Block(Last(merged).off,
                                   Greater(EndOf(Last(merged)), EndOf(b)) - Last(merged).off))
  ELSE Append(merged, b)

Merged(blocks) ==
  LET upto[k \in 0 .. Len(blocks)] == IF k = 0 THEN <<>> ELSE Merge(upto[k - 1], blocks[k])
  IN  upto[Len(blocks)]

\* blocks, which are in order, with b at its end and sorted: b comes to stand
\* before the first block behind it.
SortIn(blocks, b) ==
  LET k == SelectInSeq(blocks, LAMBDA x : x.off > b.off)
  IN  IF k = 0 THEN Append(blocks, b) ELSE InsertAt(blocks, k, b)

\* _release: sorted in, then merged with what it touches
Release(blocks, off, nbytes) == Merged(SortIn(blocks, Block(off, nbytes)))

ReleaseExtents(fr, extents) ==
  LET upto[k \in 0 .. Len(extents)] ==
        IF k = 0 THEN fr
        ELSE [upto[k - 1] EXCEPT ![extents[k].slab] = Release(@, extents[k].off, extents[k].nbytes)]
  IN  upto[Len(extents)]
-----------------------------------------------------------------------------
(* Placement: the free lists after it and the extents, no extents for None. *)

None(fr) == [free |-> fr, extents |-> <<>>]

Fits(b, nbytes, alignment) == AlignUp(b.off, alignment) + nbytes <= EndOf(b)

\* _place_single: the first block of the first slab that holds all of it
PlaceSingle(fr, nbytes, alignment) ==
  LET hit == {s \in Slab : \E k \in DOMAIN fr[s] : Fits(fr[s][k], nbytes, alignment)}
      s   == CHOOSE x \in hit : \A y \in hit : x <= y
      b   == fr[s][SelectInSeq(fr[s], LAMBDA x : Fits(x, nbytes, alignment))]
      off == AlignUp(b.off, alignment)
  IN  IF hit = {} THEN None(fr)
      ELSE [free    |-> [fr EXCEPT ![s] = Take(@, off, nbytes)],
            extents |-> <<Extent(s, off, nbytes)>>]

\* What a block has to offer behind its alignment padding
Available_unpadded(b, alignment) == b.size
Available(b, alignment) == EndOf(b) - AlignUp(b.off, alignment)

\* One turn of _place_multi's loops: _take_largest in the current slab, or the
\* next slab when it has nothing to offer.
FillStep(st, alignment) ==
  LET blocks == st.free[st.slab]
      k      == SelectInSeq(blocks, LAMBDA b : Available(b, alignment) > 0)
      off    == AlignUp(blocks[k].off, alignment)
      count  == Lesser(st.remaining, Available(blocks[k], alignment))
  IN  IF st.remaining = 0 \/ st.slab > Len(SlabSize) THEN st
      ELSE IF k = 0 THEN [st EXCEPT !.slab = @ + 1]
      ELSE [st EXCEPT !.free[st.slab] = Splice(blocks, k, Remainder(blocks[k], off, count)),
                      !.extents = Append(@, Extent(st.slab, off, count)),
                      !.remaining = @ - count]

Rollback_none(st) == st.free
Rollback(st) == ReleaseExtents(st.free, st.extents)

PlaceMulti(fr, nbytes, alignment) ==
  LET turns[s \in 0 .. Len(SlabSize)] == IF s = 0 THEN 0 ELSE turns[s - 1] + Len(fr[s]) + 1
      filled[i \in 0 .. turns[Len(SlabSize)]] ==
        IF i = 0 THEN [free |-> fr, extents |-> <<>>, remaining |-> nbytes, slab |-> 1]
        ELSE FillStep(filled[i - 1], alignment)
      end   == filled[turns[Len(SlabSize)]]
  IN  IF end.remaining # 0 THEN None(Rollback(end))
      ELSE [free |-> end.free, extents |-> end.extents]

Place(fr, nbytes, alignment) ==
  LET single == PlaceSingle(fr, nbytes, alignment)
  IN  IF nbytes = 0 THEN None(fr)
      ELSE IF single.extents # <<>> THEN single
      ELSE PlaceMulti(fr, nbytes, alignment)
-----------------------------------------------------------------------------
Init ==
  /\ free = [s \in Slab |-> <<Block(0, SlabSize[s])>>]
  /\ records = <<>>
  /\ next_handle = 1
  /\ last = [code |-> "ok"]

Allocate(nbytes, alignment) ==
  /\ next_handle <= MAX_HANDLES
  /\ \E p \in {Place(free, nbytes, alignment)} :
       /\ free' = p.free
       /\ \/ /\ nbytes = 0 \/ p.extents # <<>>
             /\ records' = [h \in Live \cup {next_handle} |->
                              IF h = next_handle THEN [nbytes |-> nbytes, extents |-> p.extents]
                              ELSE records[h]]
             /\ next_handle' = next_handle + 1
             /\ last' = [code |-> "ok"]
          \/ /\ nbytes # 0 /\ p.extents = <<>>
             /\ last' = [code |-> "out_of_memory", nbytes |-> nbytes, alignment |-> alignment]
             /\ UNCHANGED <<records, next_handle>>

Free(handle) ==
  \/ /\ handle \in Live
     /\ free' = ReleaseExtents(free, records[handle].extents)
     /\ records' = [h \in Live \ {handle} |-> records[h]]
     /\ last' = [code |-> "ok"]
     /\ UNCHANGED next_handle
  \/ /\ handle \notin Live
     /\ last' = [code |-> "unknown_tensor"]
     /\ UNCHANGED <<free, records, next_handle>>

Next == \/ \E n \in Requests, a \in Alignments : Allocate(n, a)
        \/ \E h \in 1 .. MAX_HANDLES : Free(h)

Spec == Init /\ [][Next]_vars
-----------------------------------------------------------------------------
(* Properties. *)

\* Lists of blocks inside their slabs, extents inside theirs.
TypeOK ==
  /\ \A s \in Slab : \A k \in DOMAIN free[s] :
       free[s][k].off >= 0 /\ free[s][k].size > 0 /\ EndOf(free[s][k]) <= SlabSize[s]
  /\ \A h \in Live : \A i \in DOMAIN records[h].extents :
       LET e == records[h].extents[i]
       IN  e.slab \in Slab /\ e.off >= 0 /\ e.nbytes > 0 /\ e.off + e.nbytes <= SlabSize[e.slab]

\* "sorted by offset and kept coalesced" (allocator.py:71), through every
\* allocation, release and rolled back attempt: no two blocks touch.
Coalesced ==
  \A s \in Slab : \A k \in 1 .. Len(free[s]) - 1 : EndOf(free[s][k]) < free[s][k + 1].off

\* Every byte of every slab is in exactly one free block or one live tensor, once:
\* nothing leaks, nothing is handed out twice.
Partition ==
  \A s \in Slab : \A x \in 0 .. SlabSize[s] - 1 :
    LET inFree == {k \in DOMAIN free[s] : free[s][k].off <= x /\ x < EndOf(free[s][k])}
        inLive == {hi \in UNION {{h} \X DOMAIN records[h].extents : h \in Live} :
                     LET e == records[hi[1]].extents[hi[2]]
                     IN  e.slab = s /\ e.off <= x /\ x < e.off + e.nbytes}
    IN  Cardinality(inFree) + Cardinality(inLive) = 1

\* No two tensors have bytes in one cache line, which a flush or an invalidation
\* of either rounds out to (slabs.py:92), as long as alignments are whole lines.
LinesPrivate ==
  \A g, h \in Live : g # h =>
    \A i \in DOMAIN records[g].extents, j \in DOMAIN records[h].extents :
      LET e == records[g].extents[i]
          f == records[h].extents[j]
      IN  e.slab = f.slab => \/ (e.off + e.nbytes - 1) \div LINE < f.off \div LINE
                             \/ (f.off + f.nbytes - 1) \div LINE < e.off \div LINE

\* Any range of a tensor reads and writes exactly its own bytes, in order, and
\* slab_view finds the one place of a range where it has one and says so where it
\* has not.
RangesExact ==
  \A h \in Live : \A offset \in 0 .. records[h].nbytes :
    \A size \in 0 .. records[h].nbytes - offset :
      LET rec   == records[h]
          bytes == SubSeq(BytesOf(rec.extents), offset + 1, offset + size)
          walk  == Walk(rec, offset, size)
      IN  /\ Len(BytesOf(rec.extents)) = rec.nbytes
          /\ BytesOf(walk) = bytes
          /\ size > 0 => SlabView(rec, offset, size) =
                           IF Len(walk) = 1 THEN walk[1] ELSE Failed("multi_extent")

\* An attempt that fails leaves the free lists exactly as they were, and it fails
\* only when all the free blocks together, each behind its padding, are too small.
FailsOnlyWhenFull ==
  [][last'.code = "out_of_memory" =>
       /\ UNCHANGED free
       /\ last'.nbytes > FoldLeft(LAMBDA n, x : n + x, 0, FlattenSeq(
            [s \in Slab |-> [k \in DOMAIN free[s] |->
               Greater(0, Available(free[s][k], last'.alignment))]]))]_vars
=============================================================================
