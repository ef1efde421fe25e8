----------------------------- MODULE SlabRanges -----------------------------
(***************************************************************************)
(* How the allocator resolves a range of a tensor to the slabs it lies in  *)
(* (board/memory/allocator.py: _walk, slab_view).  A tensor record has its *)
(* size and its extents in order; offsets count from 0.                    *)
(***************************************************************************)
EXTENDS Integers, SequencesExt

Lesser(a, b)  == IF a < b THEN a ELSE b
Greater(a, b) == IF a > b THEN a ELSE b

Extent(slab, off, nbytes) == [slab |-> slab, off |-> off, nbytes |-> nbytes]

\* _walk: the pieces of [offset, offset + size), extent by extent.
WalkStep(st, e) ==
  LET local == Greater(0, st.offset - st.cursor)
      count == Lesser(st.remaining, e.nbytes - local)
  IN  IF st.offset >= st.cursor + e.nbytes \/ count <= 0
      THEN [st EXCEPT !.cursor = @ + e.nbytes]
      ELSE [cursor    |-> st.cursor + e.nbytes,
            offset    |-> st.offset + count,
            remaining |-> st.remaining - count,
            pieces    |-> Append(st.pieces, Extent(e.slab, e.off + local, count))]

Walk(rec, offset, size) ==
  LET upto[k \in 0 .. Len(rec.extents)] ==
        IF k = 0 THEN [cursor |-> 0, offset |-> offset, remaining |-> size, pieces |-> <<>>]
        ELSE WalkStep(upto[k - 1], rec.extents[k])
  IN  upto[Len(rec.extents)].pieces

\* slab_view: the one piece, or the reason there is none.
Failed(code) == [code |-> code]

ViewStep_touching(st, e) ==
  IF st.found # <<>> THEN st
  ELSE IF st.offset > st.cursor + e.nbytes THEN [st EXCEPT !.cursor = @ + e.nbytes]
  ELSE [st EXCEPT !.found = <<IF st.offset - st.cursor + st.size > e.nbytes THEN Failed("multi_extent")
                              ELSE Extent(e.slab, e.off + (st.offset - st.cursor), st.size)>>]

ViewStep(st, e) ==
  IF st.found # <<>> THEN st
  ELSE IF st.offset >= st.cursor + e.nbytes THEN [st EXCEPT !.cursor = @ + e.nbytes]
  ELSE [st EXCEPT !.found = <<IF st.offset - st.cursor + st.size > e.nbytes THEN Failed("multi_extent")
                              ELSE Extent(e.slab, e.off + (st.offset - st.cursor), st.size)>>]

SlabView(rec, offset, size) ==
  LET upto[k \in 0 .. Len(rec.extents)] ==
        IF k = 0 THEN [cursor |-> 0, offset |-> offset, size |-> size, found |-> <<>>]
        ELSE ViewStep(upto[k - 1], rec.extents[k])
      end == upto[Len(rec.extents)]
  IN  IF offset + size > rec.nbytes THEN Failed("out_of_bounds")
      ELSE IF end.found = <<>> THEN Failed("internal_error") ELSE end.found[1]

\* The bytes of a list of extents or pieces, in order, as <<slab, offset>>.
BytesOf(extents) ==
  FlattenSeq([i \in DOMAIN extents |->
    [j \in 1 .. extents[i].nbytes |-> <<extents[i].slab, extents[i].off + j - 1>>]])
=============================================================================
