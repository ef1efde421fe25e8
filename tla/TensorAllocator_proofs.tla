----------------------- MODULE TensorAllocator_proofs -----------------------
(***************************************************************************)
(* The free lists and the tensors of board/memory/allocator.py share the   *)
(* slabs without gaps or overlaps, and ranges of a tensor resolve to its   *)
(* bytes, for any slabs, sizes and alignments.                             *)
(***************************************************************************)
EXTENDS TensorAllocator, SetInduction, FiniteSetTheorems

-----------------------------------------------------------------------------
(* Lists of blocks and the bytes they cover. *)

BlockSet == [off : Nat, size : Nat \ {0}]

Span(off, n)    == {x \in Nat : off <= x /\ x < off + n}
Bytes(blocks)   == {x \in Nat : \E k \in DOMAIN blocks : blocks[k].off <= x /\ x < EndOf(blocks[k])}
InOrder(blocks) == \A i, j \in DOMAIN blocks : i < j => EndOf(blocks[i]) < blocks[j].off
FreeList(blocks) == blocks \in Seq(BlockSet) /\ InOrder(blocks)

LEMMA BlockFacts ==
  ASSUME NEW b \in BlockSet
  PROVE  b.off \in Nat /\ b.size \in Nat /\ b.size > 0 /\ EndOf(b) \in Nat /\ b.off < EndOf(b)
         /\ EndOf(b) = b.off + b.size
BY DEF BlockSet, EndOf

LEMMA MadeBlock ==
  ASSUME NEW off \in Nat, NEW n \in Nat, n > 0
  PROVE  /\ Block(off, n) \in BlockSet /\ Block(off, n).off = off /\ Block(off, n).size = n
         /\ EndOf(Block(off, n)) = off + n
BY DEF Block, BlockSet, EndOf

LEMMA ConcatElements ==
  ASSUME NEW T, NEW s \in Seq(T), NEW t \in Seq(T)
  PROVE  /\ s \o t \in Seq(T) /\ Len(s \o t) = Len(s) + Len(t)
         /\ \A i \in 1 .. Len(s) : (s \o t)[i] = s[i]
         /\ \A i \in 1 .. Len(t) : (s \o t)[Len(s) + i] = t[i]
OBVIOUS

\* The elements of a list whose k-th block has given way to the blocks of new.
LEMMA SpliceElements ==
  ASSUME NEW blocks \in Seq(BlockSet), NEW k \in 1 .. Len(blocks), NEW new \in Seq(BlockSet)
  PROVE  LET r == Splice(blocks, k, new)
             n == Len(new)
         IN
         /\ r \in Seq(BlockSet) /\ Len(r) = (Len(blocks) - 1) + n /\ n \in Nat
         /\ \A i \in 1 .. k - 1 : r[i] = blocks[i]
         /\ \A i \in 1 .. n : r[(k - 1) + i] = new[i]
         /\ \A i \in k + 1 .. Len(blocks) : r[(i - 1) + n] = blocks[i]
<1>. DEFINE r == Splice(blocks, k, new)
            n == Len(new)
            a == SubSeq(blocks, 1, k - 1)
            c == SubSeq(blocks, k + 1, Len(blocks))
<1>1. a \in Seq(BlockSet) /\ Len(a) = k - 1 /\ \A i \in 1 .. k - 1 : a[i] = blocks[i]
  OBVIOUS
<1>2. c \in Seq(BlockSet) /\ Len(c) = Len(blocks) - k
      /\ \A i \in 1 .. Len(blocks) - k : c[i] = blocks[k + i]
  OBVIOUS
<1>3. r = (a \o new) \o c
  BY DEF Splice
<1>0. n \in Nat
  OBVIOUS
<1>. HIDE DEF a, c, r
<1>4. /\ a \o new \in Seq(BlockSet) /\ Len(a \o new) = (k - 1) + n
      /\ \A i \in 1 .. k - 1 : (a \o new)[i] = a[i]
      /\ \A i \in 1 .. n : (a \o new)[(k - 1) + i] = new[i]
  <2>1. /\ a \o new \in Seq(BlockSet) /\ Len(a \o new) = Len(a) + n
        /\ \A i \in 1 .. Len(a) : (a \o new)[i] = a[i]
        /\ \A i \in 1 .. n : (a \o new)[Len(a) + i] = new[i]
    <3>1. a \in Seq(BlockSet)
      BY <1>1
    <3>2. new \in Seq(BlockSet)
      OBVIOUS
    <3>3. QED
      BY ONLY <3>1, <3>2, ConcatElements
  <2>2. QED
    BY ONLY <1>1, <2>1
<1>. DEFINE d == a \o new
<1>5. d \in Seq(BlockSet) /\ Len(d) = (k - 1) + n /\ r = d \o c
  BY <1>3, <1>4
<1>6. /\ r \in Seq(BlockSet) /\ Len(r) = ((k - 1) + n) + (Len(blocks) - k)
      /\ \A i \in 1 .. (k - 1) + n : r[i] = d[i]
      /\ \A i \in 1 .. Len(blocks) - k : r[((k - 1) + n) + i] = c[i]
  <2>. HIDE DEF d
  <2>1. /\ d \o c \in Seq(BlockSet) /\ Len(d \o c) = Len(d) + Len(c)
        /\ \A i \in 1 .. Len(d) : (d \o c)[i] = d[i]
        /\ \A i \in 1 .. Len(c) : (d \o c)[Len(d) + i] = c[i]
    <3>1. d \in Seq(BlockSet)
      BY <1>5
    <3>2. c \in Seq(BlockSet)
      BY <1>2
    <3>3. QED
      BY ONLY <3>1, <3>2, ConcatElements
  <2>2. QED
    BY ONLY <1>2, <1>5, <2>1
<1>7. n \in Nat
  BY <1>0
<1>8. ASSUME NEW i \in 1 .. k - 1 PROVE r[i] = blocks[i]
  <2>1. i \in 1 .. (k - 1) + n
    BY <1>7
  <2>2. QED
    BY <1>1, <1>4, <1>6, <2>1
<1>9. ASSUME NEW i \in 1 .. n PROVE r[(k - 1) + i] = new[i]
  <2>1. (k - 1) + i \in 1 .. (k - 1) + n
    BY <1>7
  <2>2. QED
    BY <1>4, <1>6, <2>1
<1>10. ASSUME NEW i \in k + 1 .. Len(blocks) PROVE r[(i - 1) + n] = blocks[i]
  <2>1. i - k \in 1 .. Len(blocks) - k /\ ((k - 1) + n) + (i - k) = (i - 1) + n /\ k + (i - k) = i
    BY <1>7
  <2>2. QED
    BY <1>2, <1>6, <2>1
<1>11. Len(r) = (Len(blocks) - 1) + n
  BY <1>6, <1>7
<1>12. QED
  BY <1>6, <1>7, <1>8, <1>9, <1>10, <1>11 DEF r

\* Which of the three parts of a spliced list an element is in.
LEMMA SplicePlaces ==
  ASSUME NEW k \in Nat, NEW n \in Nat, NEW l \in Nat, k \in 1 .. l, NEW j \in 1 .. (l - 1) + n
  PROVE  \/ j \in 1 .. k - 1
         \/ j - (k - 1) \in 1 .. n /\ (k - 1) + (j - (k - 1)) = j
         \/ (j + 1) - n \in k + 1 .. l /\ (((j + 1) - n) - 1) + n = j
OBVIOUS

\* Replacing a block by parts of it keeps the list in order, and takes away the
\* bytes that are in none of the parts.
LEMMA SpliceKeeps ==
  ASSUME NEW blocks, FreeList(blocks), NEW k \in 1 .. Len(blocks), NEW new, FreeList(new),
         \A i \in 1 .. Len(new) : blocks[k].off <= new[i].off /\ EndOf(new[i]) <= EndOf(blocks[k])
  PROVE  /\ FreeList(Splice(blocks, k, new))
         /\ Bytes(Splice(blocks, k, new)) = (Bytes(blocks) \ Bytes(<<blocks[k]>>)) \cup Bytes(new)
<1>. DEFINE r == Splice(blocks, k, new)
            n == Len(new)
            l == Len(blocks)
<1>1. blocks \in Seq(BlockSet) /\ new \in Seq(BlockSet) /\ l \in Nat /\ k \in Nat /\ k \in 1 .. l
  BY DEF FreeList
<1>2. /\ r \in Seq(BlockSet) /\ Len(r) = (l - 1) + n /\ n \in Nat
      /\ \A i \in 1 .. k - 1 : r[i] = blocks[i]
      /\ \A i \in 1 .. n : r[(k - 1) + i] = new[i]
      /\ \A i \in k + 1 .. l : r[(i - 1) + n] = blocks[i]
  BY <1>1, SpliceElements
<1>3. /\ DOMAIN blocks = 1 .. l /\ DOMAIN new = 1 .. n /\ DOMAIN r = 1 .. (l - 1) + n
      /\ \A i \in 1 .. l : blocks[i] \in BlockSet
      /\ \A i \in 1 .. n : new[i] \in BlockSet
  BY <1>1, <1>2
<1>4. \A i \in 1 .. l : /\ blocks[i].off \in Nat /\ EndOf(blocks[i]) \in Nat
                        /\ blocks[i].off < EndOf(blocks[i])
  BY <1>3, BlockFacts
<1>5. \A i \in 1 .. n : new[i].off \in Nat /\ EndOf(new[i]) \in Nat /\ new[i].off < EndOf(new[i])
  BY <1>3, BlockFacts
<1>6. \A i, j \in 1 .. l : i < j => EndOf(blocks[i]) < blocks[j].off
  BY <1>3 DEF FreeList, InOrder
<1>7. \A i, j \in 1 .. n : i < j => EndOf(new[i]) < new[j].off
  BY <1>3 DEF FreeList, InOrder
<1>. DEFINE Kind(j, b) ==
              \/ j \in 1 .. k - 1 /\ b = blocks[j]
              \/ \E i \in 1 .. n : j = (k - 1) + i /\ b = new[i]
              \/ \E i \in k + 1 .. l : j = (i - 1) + n /\ b = blocks[i]
<1>. HIDE DEF r, n, l
<1>8. \A j \in 1 .. (l - 1) + n : Kind(j, r[j])
  <2>1. SUFFICES ASSUME NEW j \in 1 .. (l - 1) + n PROVE Kind(j, r[j])
    OBVIOUS
  <2>2. CASE j \in 1 .. k - 1
    BY <1>2, <2>2
  <2>3. CASE j - (k - 1) \in 1 .. n /\ (k - 1) + (j - (k - 1)) = j
    BY <1>2, <2>3
  <2>4. CASE (j + 1) - n \in k + 1 .. l /\ (((j + 1) - n) - 1) + n = j
    BY <1>2, <2>4
  <2>5. QED
    BY <1>1, <1>2, <2>2, <2>3, <2>4, SplicePlaces
<1>9. ASSUME NEW i \in 1 .. (l - 1) + n, NEW j \in 1 .. (l - 1) + n, i < j
      PROVE  EndOf(r[i]) < r[j].off
  <2>1. Kind(i, r[i]) /\ Kind(j, r[j])
    BY <1>8
  <2>2. CASE i \in 1 .. k - 1 /\ r[i] = blocks[i]
    <3>1. CASE j \in 1 .. k - 1 /\ r[j] = blocks[j]
      BY <1>1, <1>6, <1>9, <2>2, <3>1
    <3>2. CASE \E y \in 1 .. n : j = (k - 1) + y /\ r[j] = new[y]
      <4>1. PICK y \in 1 .. n : r[j] = new[y]
        BY <3>2
      <4>2. EndOf(blocks[i]) < blocks[k].off
        BY <1>1, <1>6, <2>2
      <4>3. blocks[k].off <= new[y].off
        BY <4>1 DEF n
      <4>4. EndOf(blocks[i]) \in Nat /\ blocks[k].off \in Nat /\ new[y].off \in Nat
        BY <1>1, <1>4, <1>5, <2>2, <4>1
      <4>5. QED
        BY <2>2, <4>1, <4>2, <4>3, <4>4
    <3>3. CASE \E y \in k + 1 .. l : j = (y - 1) + n /\ r[j] = blocks[y]
      BY <1>1, <1>6, <2>2, <3>3
    <3>4. QED
      BY <2>1, <3>1, <3>2, <3>3
  <2>3. CASE \E x \in 1 .. n : i = (k - 1) + x /\ r[i] = new[x]
    <3>0. PICK x \in 1 .. n : i = (k - 1) + x /\ r[i] = new[x]
      BY <2>3
    <3>1. ~(j \in 1 .. k - 1)
      BY <1>1, <1>2, <1>9, <3>0
    <3>2. CASE \E y \in 1 .. n : j = (k - 1) + y /\ r[j] = new[y]
      BY <1>1, <1>2, <1>7, <1>9, <3>0, <3>2
    <3>3. CASE \E y \in k + 1 .. l : j = (y - 1) + n /\ r[j] = blocks[y]
      <4>1. PICK y \in k + 1 .. l : r[j] = blocks[y]
        BY <3>3
      <4>2. EndOf(blocks[k]) < blocks[y].off /\ EndOf(new[x]) <= EndOf(blocks[k])
        <5>1. y \in 1 .. l /\ k < y
          BY ONLY <1>1, y \in k + 1 .. l
        <5>2. EndOf(blocks[k]) < blocks[y].off
          BY <1>1, <1>6, <5>1
        <5>3. EndOf(new[x]) <= EndOf(blocks[k])
          BY DEF n
        <5>4. QED
          BY <5>2, <5>3
      <4>3. QED
        <5>1. EndOf(new[x]) \in Nat /\ EndOf(blocks[k]) \in Nat /\ blocks[y].off \in Nat
          BY <1>1, <1>4, <1>5, <4>1
        <5>2. QED
          BY <3>0, <4>1, <4>2, <5>1
    <3>4. QED
      BY <2>1, <3>1, <3>2, <3>3
  <2>4. CASE \E x \in k + 1 .. l : i = (x - 1) + n /\ r[i] = blocks[x]
    <3>0. PICK x \in k + 1 .. l : i = (x - 1) + n /\ r[i] = blocks[x]
      BY <2>4
    <3>1. PICK y \in k + 1 .. l : j = (y - 1) + n /\ r[j] = blocks[y]
      <4>1. ~(j \in 1 .. k - 1) /\ \A y \in 1 .. n : j # (k - 1) + y
        <5>1. n \in Nat /\ i = (x - 1) + n
          BY <1>2, <3>0
        <5>2. QED
          BY ONLY <1>1, <5>1, i < j, x \in k + 1 .. l, j \in 1 .. (l - 1) + n
      <4>2. QED
        BY <2>1, <4>1
    <3>2. x < y /\ x \in 1 .. l /\ y \in 1 .. l
      BY <1>1, <1>2, <1>9, <3>0, <3>1
    <3>3. QED
      BY <1>6, <3>0, <3>1, <3>2
  <2>5. QED
    BY <2>1, <2>2, <2>3, <2>4
<1>10. FreeList(r)
  BY <1>2, <1>3, <1>9 DEF FreeList, InOrder
<1>11. ASSUME NEW x \in Nat
       PROVE  x \in Bytes(r) <=> \/ \E i \in 1 .. l : i # k /\ blocks[i].off <= x /\ x < EndOf(blocks[i])
                                 \/ x \in Bytes(new)
  <2>1. ASSUME x \in Bytes(r)
        PROVE  \/ \E i \in 1 .. l : i # k /\ blocks[i].off <= x /\ x < EndOf(blocks[i])
               \/ x \in Bytes(new)
    <3>1. PICK j \in 1 .. (l - 1) + n : r[j].off <= x /\ x < EndOf(r[j])
      BY <1>3, <2>1 DEF Bytes
    <3>2. Kind(j, r[j])
      BY <1>8
    <3>3. \/ \E i \in 1 .. l : i # k /\ r[j] = blocks[i]
          \/ \E i \in 1 .. n : r[j] = new[i]
      <4>1. /\ \A i \in 1 .. k - 1 : i \in 1 .. l /\ i # k
            /\ \A i \in k + 1 .. l : i \in 1 .. l /\ i # k
        BY ONLY <1>1
      <4>2. QED
        BY ONLY <3>2, <4>1
    <3>4. QED
      BY <1>3, <3>1, <3>3 DEF Bytes
  <2>2. ASSUME NEW i \in 1 .. l, i # k, blocks[i].off <= x, x < EndOf(blocks[i])
        PROVE  x \in Bytes(r)
    <3>1. \E j \in 1 .. (l - 1) + n : r[j] = blocks[i]
      <4>1. CASE i < k
        BY <1>1, <1>2, <4>1
      <4>2. CASE i > k
        <5>1. i \in k + 1 .. l /\ (i - 1) + n \in 1 .. (l - 1) + n
          BY <1>1, <1>2, <4>2
        <5>2. QED
          BY <1>2, <5>1
      <4>3. QED
        BY <1>1, <2>2, <4>1, <4>2
    <3>2. QED
      BY <1>3, <2>2, <3>1 DEF Bytes
  <2>3. ASSUME x \in Bytes(new) PROVE x \in Bytes(r)
    <3>1. PICK i \in 1 .. n : new[i].off <= x /\ x < EndOf(new[i])
      BY <1>3, <2>3 DEF Bytes
    <3>2. (k - 1) + i \in 1 .. (l - 1) + n /\ r[(k - 1) + i] = new[i]
      BY <1>1, <1>2
    <3>3. QED
      BY <1>3, <3>1, <3>2 DEF Bytes
  <2>4. QED
    BY <2>1, <2>2, <2>3
<1>12. \A x \in Nat : x \in Bytes(blocks) \ Bytes(<<blocks[k]>>)
                        <=> \E i \in 1 .. l : i # k /\ blocks[i].off <= x /\ x < EndOf(blocks[i])
  <2>1. k \in 1 .. l
    BY DEF l
  <2>2. SUFFICES ASSUME NEW x \in Nat
                 PROVE  x \in Bytes(blocks) \ Bytes(<<blocks[k]>>)
                        <=> \E i \in 1 .. l : i # k /\ blocks[i].off <= x /\ x < EndOf(blocks[i])
    OBVIOUS
  <2>3. x \in Bytes(<<blocks[k]>>) <=> blocks[k].off <= x /\ x < EndOf(blocks[k])
    BY DEF Bytes
  <2>4. x \in Bytes(blocks) <=> \E i \in 1 .. l : blocks[i].off <= x /\ x < EndOf(blocks[i])
    BY <1>3 DEF Bytes
  <2>5. ASSUME NEW i \in 1 .. l, i # k, blocks[i].off <= x, x < EndOf(blocks[i])
        PROVE  ~(blocks[k].off <= x /\ x < EndOf(blocks[k]))
    <3>1. i < k \/ k < i
      BY <1>1, <2>1, <2>5
    <3>2. QED
      BY <1>4, <1>6, <2>1, <2>5, <3>1
  <2>6. QED
    BY <2>1, <2>3, <2>4, <2>5
<1>13. \A x \in Bytes(r) \cup Bytes(blocks) \cup Bytes(new) : x \in Nat
  BY DEF Bytes
<1>14. Bytes(r) = (Bytes(blocks) \ Bytes(<<blocks[k]>>)) \cup Bytes(new)
  BY <1>11, <1>12, <1>13
<1>15. QED
  BY <1>10, <1>14 DEF r

\* What _take leaves of a block around the range taken.
LEMMA RemainderKeeps ==
  ASSUME NEW b \in BlockSet, NEW off \in Nat, NEW n \in Nat, n > 0,
         b.off <= off, off + n <= EndOf(b)
  PROVE  LET r == Remainder(b, off, n)
         IN  /\ FreeList(r) /\ Bytes(r) = Bytes(<<b>>) \ Span(off, n)
             /\ \A i \in 1 .. Len(r) : b.off <= r[i].off /\ EndOf(r[i]) <= EndOf(b)
<1>. DEFINE r == Remainder(b, off, n)
            h == Block(b.off, off - b.off)
            t == Block(off + n, EndOf(b) - (off + n))
<1>1. /\ b.off \in Nat /\ EndOf(b) \in Nat /\ b.off < EndOf(b)
      /\ \A x \in Nat : x \in Bytes(<<b>>) <=> b.off <= x /\ x < EndOf(b)
  BY BlockFacts DEF Bytes
<1>2. off > b.off => h \in BlockSet /\ h.off = b.off /\ EndOf(h) = off
  <2>1. SUFFICES ASSUME off > b.off PROVE h \in BlockSet /\ h.off = b.off /\ EndOf(h) = off
    OBVIOUS
  <2>2. off - b.off \in Nat /\ off - b.off > 0 /\ b.off + (off - b.off) = off
    BY <1>1, <2>1
  <2>3. QED
    BY <1>1, <2>2, MadeBlock
<1>3. off + n < EndOf(b) => t \in BlockSet /\ t.off = off + n /\ EndOf(t) = EndOf(b)
  <2>1. SUFFICES ASSUME off + n < EndOf(b)
                 PROVE  t \in BlockSet /\ t.off = off + n /\ EndOf(t) = EndOf(b)
    OBVIOUS
  <2>2. /\ EndOf(b) - (off + n) \in Nat /\ EndOf(b) - (off + n) > 0 /\ off + n \in Nat
        /\ (off + n) + (EndOf(b) - (off + n)) = EndOf(b)
    BY <1>1, <2>1
  <2>3. QED
    BY <2>2, MadeBlock
<1>4. r = (IF off > b.off THEN <<h>> ELSE <<>>) \o (IF off + n < EndOf(b) THEN <<t>> ELSE <<>>)
  BY DEF Remainder
<1>5. \A x \in Bytes(r) \cup Bytes(<<b>>) : x \in Nat
  BY DEF Bytes
<1>. HIDE DEF h, t, r
<1>6. CASE off > b.off /\ off + n < EndOf(b)
  <2>0. r = <<h>> \o <<t>>
    BY <1>4, <1>6, Zenon
  <2>1. Len(r) = 2 /\ DOMAIN r = 1 .. 2 /\ r[1] = h /\ r[2] = t
    BY ONLY <2>0
  <2>a. h \in BlockSet /\ t \in BlockSet
    BY <1>2, <1>3, <1>6
  <2>b. r \in Seq(BlockSet)
    BY ONLY <2>0, <2>a
  <2>2. r \in Seq(BlockSet) /\ Len(r) = 2 /\ DOMAIN r = 1 .. 2 /\ r[1] = h /\ r[2] = t
    BY <2>1, <2>b
  <2>3. FreeList(r)
    BY <1>1, <1>2, <1>3, <1>6, <2>2 DEF FreeList, InOrder
  <2>4. \A x \in Nat : x \in Bytes(r) <=> (h.off <= x /\ x < EndOf(h)) \/ (t.off <= x /\ x < EndOf(t))
    BY <2>2 DEF Bytes
  <2>5. Bytes(r) = Bytes(<<b>>) \ Span(off, n)
    BY <1>1, <1>2, <1>3, <1>5, <1>6, <2>4 DEF Span
  <2>6. \A i \in 1 .. Len(r) : b.off <= r[i].off /\ EndOf(r[i]) <= EndOf(b)
    BY <1>1, <1>2, <1>3, <1>6, <2>2
  <2>7. QED
    BY <2>3, <2>5, <2>6 DEF r
<1>7. CASE off > b.off /\ ~(off + n < EndOf(b))
  <2>1. r = <<h>>
    BY <1>4, <1>7
  <2>2. r \in Seq(BlockSet) /\ Len(r) = 1 /\ DOMAIN r = 1 .. 1 /\ r[1] = h
    BY <1>2, <1>7, <2>1
  <2>3. FreeList(r)
    BY <2>2 DEF FreeList, InOrder
  <2>4. \A x \in Nat : x \in Bytes(r) <=> (h.off <= x /\ x < EndOf(h))
    BY <2>2 DEF Bytes
  <2>5. Bytes(r) = Bytes(<<b>>) \ Span(off, n)
    BY <1>1, <1>2, <1>5, <1>7, <2>4 DEF Span
  <2>6. \A i \in 1 .. Len(r) : b.off <= r[i].off /\ EndOf(r[i]) <= EndOf(b)
    BY <1>1, <1>2, <1>7, <2>2
  <2>7. QED
    BY <2>3, <2>5, <2>6 DEF r
<1>8. CASE ~(off > b.off) /\ off + n < EndOf(b)
  <2>0. r = <<>> \o <<t>>
    BY <1>4, <1>8, Zenon
  <2>1. r = <<t>>
    BY ONLY <2>0
  <2>2. r \in Seq(BlockSet) /\ Len(r) = 1 /\ DOMAIN r = 1 .. 1 /\ r[1] = t
    BY <1>3, <1>8, <2>1
  <2>3. FreeList(r)
    BY <2>2 DEF FreeList, InOrder
  <2>4. \A x \in Nat : x \in Bytes(r) <=> (t.off <= x /\ x < EndOf(t))
    BY <2>2 DEF Bytes
  <2>5. Bytes(r) = Bytes(<<b>>) \ Span(off, n)
    BY <1>1, <1>3, <1>5, <1>8, <2>4 DEF Span
  <2>6. \A i \in 1 .. Len(r) : b.off <= r[i].off /\ EndOf(r[i]) <= EndOf(b)
    BY <1>1, <1>3, <1>8, <2>2
  <2>7. QED
    BY <2>3, <2>5, <2>6 DEF r
<1>9. CASE ~(off > b.off) /\ ~(off + n < EndOf(b))
  <2>1. r = <<>>
    BY <1>4, <1>9
  <2>2. r \in Seq(BlockSet) /\ Len(r) = 0 /\ DOMAIN r = {}
    BY <2>1
  <2>3. FreeList(r)
    BY <2>2 DEF FreeList, InOrder
  <2>4. \A x \in Nat : x \notin Bytes(r)
    BY <2>2 DEF Bytes
  <2>5. Bytes(r) = Bytes(<<b>>) \ Span(off, n)
    BY <1>1, <1>5, <1>9, <2>4 DEF Span
  <2>6. QED
    BY <2>2, <2>3, <2>5 DEF r
<1>10. QED
  BY <1>6, <1>7, <1>8, <1>9

\* A range of the k-th block is taken: the list stays a free list, without it.
LEMMA CutOut ==
  ASSUME NEW blocks, FreeList(blocks), NEW k \in 1 .. Len(blocks), NEW off \in Nat, NEW n \in Nat,
         n > 0, blocks[k].off <= off, off + n <= EndOf(blocks[k])
  PROVE  LET r == Splice(blocks, k, Remainder(blocks[k], off, n))
         IN  /\ FreeList(r) /\ Bytes(r) = Bytes(blocks) \ Span(off, n)
             /\ Span(off, n) \subseteq Bytes(blocks)
<1>. DEFINE b == blocks[k]
            rest == Remainder(b, off, n)
            r == Splice(blocks, k, rest)
<1>1. b \in BlockSet /\ DOMAIN blocks = 1 .. Len(blocks)
  BY DEF FreeList
<1>2. /\ FreeList(rest) /\ Bytes(rest) = Bytes(<<b>>) \ Span(off, n)
      /\ \A i \in 1 .. Len(rest) : b.off <= rest[i].off /\ EndOf(rest[i]) <= EndOf(b)
  <2>. HIDE DEF b
  <2>1. b.off <= off /\ off + n <= EndOf(b)
    BY DEF b
  <2>2. QED
    BY <1>1, <2>1, RemainderKeeps
<1>3. FreeList(r) /\ Bytes(r) = (Bytes(blocks) \ Bytes(<<b>>)) \cup Bytes(rest)
  <2>. HIDE DEF rest
  <2>1. QED
    BY <1>2, SpliceKeeps
<1>4. Span(off, n) \subseteq Bytes(<<b>>)
  <2>1. b.off \in Nat /\ EndOf(b) \in Nat
    BY <1>1, BlockFacts
  <2>2. b.off <= off /\ off + n <= EndOf(b)
    OBVIOUS
  <2>. HIDE DEF b
  <2>3. \A x \in Nat : x \in Bytes(<<b>>) <=> b.off <= x /\ x < EndOf(b)
    BY DEF Bytes
  <2>4. QED
    BY <2>1, <2>2, <2>3 DEF Span
<1>5. Bytes(<<b>>) \subseteq Bytes(blocks)
  <2>. HIDE DEF b
  <2>1. \A x \in Bytes(<<b>>) : x \in Nat /\ b.off <= x /\ x < EndOf(b)
    BY DEF Bytes
  <2>2. QED
    BY <1>1, <2>1 DEF Bytes, b
<1>. HIDE DEF b, rest, r
<1>6. Bytes(r) = Bytes(blocks) \ Span(off, n)
  BY <1>2, <1>3, <1>4, <1>5
<1>7. QED
  BY <1>3, <1>4, <1>5, <1>6 DEF r, rest, b

-----------------------------------------------------------------------------
(* _release: the block is sorted in and the list merged. *)

\* No block begins before the ones to its left end.
Ascending(t) == \A i, j \in DOMAIN t : i < j => EndOf(t[i]) <= t[j].off

\* A block at place p of a list.
LEMMA InsertElements ==
  ASSUME NEW blocks \in Seq(BlockSet), NEW b \in BlockSet, NEW p \in 1 .. Len(blocks) + 1, NEW t,
         \/ t = InsertAt(blocks, p, b)
         \/ p = Len(blocks) + 1 /\ t = Append(blocks, b)
  PROVE  /\ t \in Seq(BlockSet) /\ Len(t) = Len(blocks) + 1 /\ t[p] = b
         /\ \A i \in 1 .. p - 1 : t[i] = blocks[i]
         /\ \A i \in p .. Len(blocks) : t[i + 1] = blocks[i]
<1>1. CASE p = Len(blocks) + 1 /\ t = Append(blocks, b)
  BY <1>1
<1>2. CASE t = InsertAt(blocks, p, b)
  <2>. DEFINE a == SubSeq(blocks, 1, p - 1)
              c == SubSeq(blocks, p, Len(blocks))
              d == a \o <<b>>
  <2>1. a \in Seq(BlockSet) /\ Len(a) = p - 1 /\ \A i \in 1 .. p - 1 : a[i] = blocks[i]
    OBVIOUS
  <2>2. /\ c \in Seq(BlockSet) /\ Len(c) = (Len(blocks) - p) + 1
        /\ \A i \in 1 .. (Len(blocks) - p) + 1 : c[i] = blocks[(p + i) - 1]
    OBVIOUS
  <2>3. t = d \o c
    BY <1>2 DEF InsertAt
  <2>. HIDE DEF a, c
  <2>4. a \in Seq(BlockSet) /\ <<b>> \in Seq(BlockSet) /\ Len(<<b>>) = 1 /\ <<b>>[1] = b
    BY <2>1
  <2>5. /\ d \in Seq(BlockSet) /\ Len(d) = Len(a) + 1
        /\ \A i \in 1 .. Len(a) : d[i] = a[i]
        /\ d[Len(a) + 1] = b
    BY ONLY <2>4, ConcatElements
  <2>. HIDE DEF d
  <2>6. d \in Seq(BlockSet)
    BY <2>5
  <2>7. c \in Seq(BlockSet)
    BY <2>2
  <2>8. /\ d \o c \in Seq(BlockSet) /\ Len(d \o c) = Len(d) + Len(c)
        /\ \A i \in 1 .. Len(d) : (d \o c)[i] = d[i]
        /\ \A i \in 1 .. Len(c) : (d \o c)[Len(d) + i] = c[i]
    BY ONLY <2>6, <2>7, ConcatElements
  <2>9. Len(d) = p /\ p \in Nat /\ Len(blocks) \in Nat
    BY <2>1, <2>5
  <2>10. t \in Seq(BlockSet) /\ Len(t) = Len(blocks) + 1
    BY <2>2, <2>3, <2>8, <2>9
  <2>11. t[p] = b
    <3>1. p \in 1 .. Len(d) /\ p = Len(a) + 1
      BY <2>1, <2>9
    <3>2. QED
      BY <2>3, <2>5, <2>8, <3>1
  <2>12. ASSUME NEW i \in 1 .. p - 1 PROVE t[i] = blocks[i]
    <3>1. i \in 1 .. Len(d) /\ i \in 1 .. Len(a)
      BY <2>1, <2>9
    <3>2. QED
      BY <2>1, <2>3, <2>5, <2>8, <3>1
  <2>13. ASSUME NEW i \in p .. Len(blocks) PROVE t[i + 1] = blocks[i]
    <3>. DEFINE y == (i - p) + 1
    <3>1. /\ y \in 1 .. Len(c) /\ Len(d) + y = i + 1
          /\ y \in 1 .. (Len(blocks) - p) + 1 /\ (p + y) - 1 = i
      BY <2>2, <2>9
    <3>. HIDE DEF y
    <3>2. t[i + 1] = c[y]
      BY <2>3, <2>8, <3>1
    <3>3. c[y] = blocks[(p + y) - 1]
      BY <2>2, <3>1
    <3>4. QED
      BY <3>1, <3>2, <3>3
  <2>14. QED
    BY <2>10, <2>11, <2>12, <2>13
<1>3. QED
  BY <1>1, <1>2

\* The list with one more block, apart from the others, in its place.
LEMMA SortedIn ==
  ASSUME NEW blocks, FreeList(blocks), NEW b \in BlockSet,
         Span(b.off, b.size) \cap Bytes(blocks) = {}
  PROVE  LET t == SortIn(blocks, b)
         IN  /\ t \in Seq(BlockSet) /\ Ascending(t)
             /\ Bytes(t) = Bytes(blocks) \cup Span(b.off, b.size)
<1>. DEFINE t == SortIn(blocks, b)
            l == Len(blocks)
            I == {i \in 1 .. l : blocks[i].off > b.off}
            k == SelectInSeq(blocks, LAMBDA x : x.off > b.off)
<1>1. blocks \in Seq(BlockSet) /\ l \in Nat /\ DOMAIN blocks = 1 .. l
  BY DEF FreeList
<1>2. \A i \in 1 .. l : /\ blocks[i].off \in Nat /\ EndOf(blocks[i]) \in Nat
                        /\ blocks[i].off < EndOf(blocks[i])
  BY <1>1, BlockFacts
<1>3. /\ b.off \in Nat /\ EndOf(b) \in Nat /\ b.off < EndOf(b)
      /\ \A x \in Nat : x \in Span(b.off, b.size) <=> b.off <= x /\ x < EndOf(b)
  BY BlockFacts DEF Span
<1>4. \A i, j \in 1 .. l : i < j => EndOf(blocks[i]) < blocks[j].off
  BY <1>1 DEF FreeList, InOrder
<1>5. k = IF I # {} THEN CHOOSE x \in I : \A y \in I : x =< y ELSE 0
  BY DEF SelectInSeq, Min
<1>6. I \subseteq Nat
  BY <1>1
<1>7. I # {} => k \in I /\ \A y \in I : k <= y
  <2>. HIDE DEF I, k
  <2>1. QED
    BY <1>5, <1>6, LeastIsChosen
<1>8. t = IF k = 0 THEN Append(blocks, b) ELSE InsertAt(blocks, k, b)
  BY DEF SortIn
<1>. HIDE DEF t, k, l
<1>9. PICK p \in 1 .. l + 1 :
        /\ \/ t = InsertAt(blocks, p, b)
           \/ p = l + 1 /\ t = Append(blocks, b)
        /\ \A i \in 1 .. p - 1 : blocks[i].off <= b.off
        /\ \A i \in p .. l : b.off < blocks[i].off
  <2>1. CASE I = {}
    <3>1. t = Append(blocks, b)
      BY <1>5, <1>8, <2>1, Zenon
    <3>2. \A i \in 1 .. l : blocks[i].off <= b.off
      BY <1>2, <1>3, <2>1
    <3>3. l + 1 \in 1 .. l + 1
      BY <1>1
    <3>4. QED
      BY <1>1, <3>1, <3>2, <3>3
  <2>2. CASE I # {}
    <3>1. k \in 1 .. l /\ blocks[k].off > b.off /\ k # 0 /\ k \in 1 .. l + 1
      BY <1>1, <1>7, <2>2
    <3>2. ASSUME NEW i \in 1 .. k - 1 PROVE blocks[i].off <= b.off
      <4>1. i \in 1 .. l /\ ~(k <= i)
        BY <1>1, <3>1
      <4>2. i \notin I
        BY <1>7, <2>2, <4>1
      <4>3. QED
        BY <1>2, <1>3, <4>1, <4>2
    <3>3. ASSUME NEW i \in k .. l PROVE b.off < blocks[i].off
      <4>1. i \in 1 .. l /\ (i = k \/ k < i)
        BY <1>1, <3>1
      <4>2. i = k \/ EndOf(blocks[k]) < blocks[i].off
        BY <1>4, <3>1, <4>1
      <4>3. QED
        BY <1>2, <1>3, <3>1, <4>1, <4>2
    <3>4. t = InsertAt(blocks, k, b)
      BY <1>8, <3>1
    <3>5. QED
      BY <3>1, <3>2, <3>3, <3>4
  <2>3. QED
    BY <2>1, <2>2
<1>10. /\ t \in Seq(BlockSet) /\ Len(t) = l + 1 /\ t[p] = b
       /\ \A i \in 1 .. p - 1 : t[i] = blocks[i]
       /\ \A i \in p .. l : t[i + 1] = blocks[i]
  BY <1>1, <1>9, InsertElements DEF l
<1>11. \A i \in 1 .. p - 1 : EndOf(blocks[i]) <= b.off
  <2>1. SUFFICES ASSUME NEW i \in 1 .. p - 1, ~(EndOf(blocks[i]) <= b.off) PROVE FALSE
    OBVIOUS
  <2>2. i \in 1 .. l /\ blocks[i].off <= b.off
    BY <1>1, <1>9
  <2>a. b.off < EndOf(blocks[i]) /\ b.off \in Nat
    BY <1>2, <1>3, <2>1, <2>2
  <2>3. b.off \in Bytes(blocks) /\ b.off \in Span(b.off, b.size)
    <3>1. b.off \in Bytes(blocks)
      BY <1>1, <2>2, <2>a DEF Bytes
    <3>2. b.off <= b.off
      BY <2>a
    <3>3. QED
      BY <1>3, <3>1, <3>2
  <2>4. QED
    BY <2>3
<1>12. \A i \in p .. l : EndOf(b) <= blocks[i].off
  <2>1. SUFFICES ASSUME NEW i \in p .. l, ~(EndOf(b) <= blocks[i].off) PROVE FALSE
    OBVIOUS
  <2>2. i \in 1 .. l /\ b.off < blocks[i].off
    BY <1>1, <1>9
  <2>a. /\ blocks[i].off < EndOf(b) /\ blocks[i].off \in Nat /\ b.off <= blocks[i].off
        /\ blocks[i].off < EndOf(blocks[i]) /\ blocks[i].off <= blocks[i].off
    BY <1>2, <1>3, <2>1, <2>2
  <2>3. blocks[i].off \in Bytes(blocks) /\ blocks[i].off \in Span(b.off, b.size)
    <3>1. blocks[i].off \in Bytes(blocks)
      BY <1>1, <2>2, <2>a DEF Bytes
    <3>2. QED
      BY <1>3, <2>a, <3>1
  <2>4. QED
    BY <2>3
<1>13. DOMAIN t = 1 .. l + 1 /\ p \in Nat
  BY <1>10
<1>14. \A j \in 1 .. l + 1 :
         \/ j \in 1 .. p - 1 /\ t[j] = blocks[j]
         \/ j = p /\ t[j] = b
         \/ j - 1 \in p .. l /\ t[j] = blocks[j - 1]
  <2>1. SUFFICES ASSUME NEW j \in 1 .. l + 1, j > p PROVE j - 1 \in p .. l /\ t[j] = blocks[j - 1]
    BY <1>1, <1>10, <1>13
  <2>2. j - 1 \in p .. l /\ (j - 1) + 1 = j
    BY <1>1, <1>13, <2>1
  <2>3. QED
    BY <1>10, <2>2
<1>15. ASSUME NEW i \in 1 .. l + 1, NEW j \in 1 .. l + 1, i < j PROVE EndOf(t[i]) <= t[j].off
  <2>1. CASE i \in 1 .. p - 1 /\ t[i] = blocks[i]
    <3>1. CASE j \in 1 .. p - 1 /\ t[j] = blocks[j]
      <4>1. i \in 1 .. l /\ j \in 1 .. l
        BY <1>1, <1>13, <2>1, <3>1
      <4>2. EndOf(blocks[i]) < blocks[j].off
        BY <1>4, <1>15, <4>1
      <4>3. QED
        BY <1>2, <2>1, <3>1, <4>1, <4>2
    <3>2. CASE j = p /\ t[j] = b
      BY <1>11, <2>1, <3>2
    <3>3. CASE j - 1 \in p .. l /\ t[j] = blocks[j - 1]
      <4>1. i \in 1 .. l /\ j - 1 \in 1 .. l /\ i < j - 1
        BY <1>1, <1>13, <2>1, <3>3
      <4>2. EndOf(blocks[i]) < blocks[j - 1].off
        BY <1>4, <4>1
      <4>3. QED
        BY <1>2, <2>1, <3>3, <4>1, <4>2
    <3>4. QED
      BY <1>14, <3>1, <3>2, <3>3
  <2>2. CASE i = p /\ t[i] = b
    <3>1. j - 1 \in p .. l /\ t[j] = blocks[j - 1]
      BY <1>1, <1>13, <1>14, <1>15, <2>2
    <3>2. QED
      BY <1>12, <2>2, <3>1
  <2>3. CASE i - 1 \in p .. l /\ t[i] = blocks[i - 1]
    <3>1. j - 1 \in p .. l /\ t[j] = blocks[j - 1]
      BY <1>1, <1>13, <1>14, <1>15, <2>3
    <3>2. i - 1 \in 1 .. l /\ j - 1 \in 1 .. l /\ i - 1 < j - 1
      BY <1>1, <1>13, <1>15, <2>3, <3>1
    <3>3. EndOf(blocks[i - 1]) < blocks[j - 1].off
      BY <1>4, <3>2
    <3>4. QED
      BY <1>2, <2>3, <3>1, <3>2, <3>3
  <2>4. QED
    BY <1>14, <2>1, <2>2, <2>3
<1>16. Ascending(t)
  BY <1>13, <1>15 DEF Ascending
<1>17. ASSUME NEW x \in Nat PROVE x \in Bytes(t) <=> x \in Bytes(blocks) \/ x \in Span(b.off, b.size)
  <2>1. ASSUME x \in Bytes(t) PROVE x \in Bytes(blocks) \/ x \in Span(b.off, b.size)
    <3>1. PICK j \in 1 .. l + 1 : t[j].off <= x /\ x < EndOf(t[j])
      BY <1>13, <2>1 DEF Bytes
    <3>2. t[j] = b \/ \E i \in 1 .. l : t[j] = blocks[i]
      <4>1. \A i : i \in 1 .. p - 1 \/ i \in p .. l => i \in 1 .. l
        BY <1>1, <1>13
      <4>2. QED
        BY <1>14, <4>1
    <3>3. QED
      BY <1>1, <1>3, <3>1, <3>2 DEF Bytes
  <2>2. ASSUME x \in Bytes(blocks) PROVE x \in Bytes(t)
    <3>1. PICK i \in 1 .. l : blocks[i].off <= x /\ x < EndOf(blocks[i])
      BY <1>1, <2>2 DEF Bytes
    <3>2. \E j \in 1 .. l + 1 : t[j] = blocks[i]
      <4>1. CASE i < p
        BY <1>1, <1>10, <1>13, <4>1
      <4>2. CASE i >= p
        <5>1. i \in p .. l /\ i + 1 \in 1 .. l + 1
          BY <1>1, <1>13, <4>2
        <5>2. QED
          BY <1>10, <5>1
      <4>3. QED
        BY <1>1, <1>13, <4>1, <4>2
    <3>3. QED
      BY <1>13, <3>1, <3>2 DEF Bytes
  <2>3. ASSUME x \in Span(b.off, b.size) PROVE x \in Bytes(t)
    BY <1>3, <1>10, <1>13, <2>3 DEF Bytes
  <2>4. QED
    BY <2>1, <2>2, <2>3
<1>18. \A x \in Bytes(t) \cup Bytes(blocks) \cup Span(b.off, b.size) : x \in Nat
  BY DEF Bytes, Span
<1>19. Bytes(t) = Bytes(blocks) \cup Span(b.off, b.size)
  BY <1>17, <1>18
<1>20. QED
  BY <1>10, <1>16, <1>19 DEF t

\* The bytes of the first k blocks, and the lists that k turns of the merging
\* loop may leave.
Covered(t, k) == {x \in Nat : \E i \in 1 .. k : t[i].off <= x /\ x < EndOf(t[i])}
MergedTo(t, k) ==
  {m \in Seq(BlockSet) : /\ InOrder(m) /\ Bytes(m) = Covered(t, k)
                         /\ k = 0 => m = <<>>
                         /\ k > 0 => m # <<>> /\ EndOf(m[Len(m)]) = EndOf(t[k])}

\* The last block of a list grows, or a block is put behind it.
LEMMA LastReplaced ==
  ASSUME NEW m, FreeList(m), m # <<>>, NEW c \in BlockSet, c.off = m[Len(m)].off,
         EndOf(m[Len(m)]) <= EndOf(c), NEW r, r = Append(Front(m), c)
  PROVE  /\ FreeList(r) /\ r # <<>> /\ r[Len(r)] = c
         /\ Bytes(r) = Bytes(m) \cup {x \in Nat : c.off <= x /\ x < EndOf(c)}
<1>. DEFINE l == Len(m)
            f == Front(m)
<1>1. m \in Seq(BlockSet) /\ l \in Nat /\ l > 0 /\ DOMAIN m = 1 .. l
  BY DEF FreeList
<1>2. \A i \in 1 .. l : m[i].off \in Nat /\ EndOf(m[i]) \in Nat
  BY <1>1, BlockFacts
<1>3. c.off \in Nat /\ EndOf(c) \in Nat
  BY BlockFacts
<1>4. f \in Seq(BlockSet) /\ Len(f) = l - 1 /\ \A i \in 1 .. l - 1 : f[i] = m[i]
  BY <1>1 DEF Front
<1>. HIDE DEF f
<1>5. f \in Seq(BlockSet)
  BY <1>4
<1>6. r = Append(f, c)
  BY DEF f
<1>7. /\ r \in Seq(BlockSet) /\ Len(r) = Len(f) + 1 /\ r[Len(f) + 1] = c
      /\ \A i \in 1 .. Len(f) : r[i] = f[i]
  BY ONLY <1>5, <1>6, c \in BlockSet
<1>8. /\ r \in Seq(BlockSet) /\ Len(r) = l /\ r[l] = c /\ DOMAIN r = 1 .. l
      /\ \A i \in 1 .. l - 1 : r[i] = m[i]
  <2>1. Len(f) = l - 1 /\ Len(f) + 1 = l
    BY <1>1, <1>4
  <2>2. \A i \in 1 .. l - 1 : r[i] = m[i]
    BY <1>4, <1>7, <2>1
  <2>3. r \in Seq(BlockSet)
    BY <1>7
  <2>4. DOMAIN r = 1 .. Len(r)
    BY ONLY <2>3
  <2>5. QED
    BY <1>7, <2>1, <2>2, <2>4
<1>9. \A i, j \in 1 .. l : i < j => EndOf(m[i]) < m[j].off
  BY <1>1 DEF FreeList, InOrder
<1>10. c.off = m[l].off /\ EndOf(m[l]) <= EndOf(c)
  OBVIOUS
<1>. HIDE DEF l
<1>11. ASSUME NEW i \in 1 .. l, NEW j \in 1 .. l, i < j PROVE EndOf(r[i]) < r[j].off
  <2>1. i \in 1 .. l - 1 /\ (j = l \/ j \in 1 .. l - 1)
    BY <1>1, <1>11
  <2>2. r[i] = m[i] /\ r[j].off = m[j].off
    BY <1>8, <1>10, <2>1
  <2>3. QED
    BY <1>9, <1>11, <2>2
<1>12. FreeList(r)
  BY <1>8, <1>11 DEF FreeList, InOrder
<1>13. ASSUME NEW x \in Nat
       PROVE  x \in Bytes(r) <=> x \in Bytes(m) \/ (c.off <= x /\ x < EndOf(c))
  <2>1. x \in Bytes(r) <=> \E i \in 1 .. l : r[i].off <= x /\ x < EndOf(r[i])
    BY <1>8 DEF Bytes
  <2>2. x \in Bytes(m) <=> \E i \in 1 .. l : m[i].off <= x /\ x < EndOf(m[i])
    BY <1>1 DEF Bytes
  <2>3. l \in 1 .. l /\ \A i \in 1 .. l : i = l \/ i \in 1 .. l - 1
    BY <1>1
  <2>4. m[l].off <= x /\ x < EndOf(m[l]) => c.off <= x /\ x < EndOf(c)
    BY <1>2, <1>3, <1>10, <2>3
  <2>5. \A i \in 1 .. l - 1 : i \in 1 .. l /\ r[i] = m[i]
    BY <1>1, <1>8
  <2>6. QED
    BY <1>8, <2>1, <2>2, <2>3, <2>4, <2>5
<1>14. \A x \in Bytes(r) \cup Bytes(m) : x \in Nat
  BY DEF Bytes
<1>15. Bytes(r) = Bytes(m) \cup {x \in Nat : c.off <= x /\ x < EndOf(c)}
  BY <1>13, <1>14
<1>16. r # <<>>
  BY <1>1, <1>8
<1>17. QED
  BY <1>8, <1>12, <1>15, <1>16

LEMMA LastAdded ==
  ASSUME NEW m, FreeList(m), NEW c \in BlockSet, m # <<>> => EndOf(m[Len(m)]) < c.off,
         NEW r, r = Append(m, c)
  PROVE  /\ FreeList(r) /\ r # <<>> /\ r[Len(r)] = c
         /\ Bytes(r) = Bytes(m) \cup {x \in Nat : c.off <= x /\ x < EndOf(c)}
<1>. DEFINE l == Len(m)
<1>1. m \in Seq(BlockSet) /\ l \in Nat /\ DOMAIN m = 1 .. l /\ (l > 0 => m # <<>>)
  BY DEF FreeList
<1>2. \A i \in 1 .. l : m[i].off \in Nat /\ EndOf(m[i]) \in Nat /\ m[i].off < EndOf(m[i])
  BY <1>1, BlockFacts
<1>3. c.off \in Nat /\ EndOf(c) \in Nat
  BY BlockFacts
<1>4. m \in Seq(BlockSet)
  BY <1>1
<1>5. /\ r \in Seq(BlockSet) /\ Len(r) = l + 1 /\ r[l + 1] = c /\ DOMAIN r = 1 .. l + 1
      /\ \A i \in 1 .. l : r[i] = m[i]
  BY ONLY <1>4, c \in BlockSet, r = Append(m, c)
<1>6. \A i, j \in 1 .. l : i < j => EndOf(m[i]) < m[j].off
  BY <1>1 DEF FreeList, InOrder
<1>7. l > 0 => EndOf(m[l]) < c.off
  BY <1>1
<1>. HIDE DEF l
<1>8. \A i \in 1 .. l : EndOf(m[i]) < c.off
  <2>1. SUFFICES ASSUME NEW i \in 1 .. l PROVE EndOf(m[i]) < c.off
    OBVIOUS
  <2>2. l > 0 /\ l \in 1 .. l /\ (i = l \/ i < l)
    BY <1>1
  <2>3. i = l \/ EndOf(m[i]) < m[l].off
    BY <1>6, <2>2
  <2>4. QED
    BY <1>2, <1>3, <1>7, <2>2, <2>3
<1>9. ASSUME NEW i \in 1 .. l + 1, NEW j \in 1 .. l + 1, i < j PROVE EndOf(r[i]) < r[j].off
  <2>1. i \in 1 .. l /\ (j = l + 1 \/ j \in 1 .. l)
    BY <1>1, <1>9
  <2>2. QED
    BY <1>5, <1>6, <1>8, <1>9, <2>1
<1>10. FreeList(r)
  BY <1>5, <1>9 DEF FreeList, InOrder
<1>11. ASSUME NEW x \in Nat
       PROVE  x \in Bytes(r) <=> x \in Bytes(m) \/ (c.off <= x /\ x < EndOf(c))
  <2>1. x \in Bytes(r) <=> \E i \in 1 .. l + 1 : r[i].off <= x /\ x < EndOf(r[i])
    BY <1>5 DEF Bytes
  <2>2. x \in Bytes(m) <=> \E i \in 1 .. l : m[i].off <= x /\ x < EndOf(m[i])
    BY <1>1 DEF Bytes
  <2>3. /\ l + 1 \in 1 .. l + 1 /\ \A i \in 1 .. l + 1 : i = l + 1 \/ i \in 1 .. l
        /\ \A i \in 1 .. l : i \in 1 .. l + 1
    BY <1>1
  <2>4. QED
    BY <1>5, <2>1, <2>2, <2>3
<1>12. \A x \in Bytes(r) \cup Bytes(m) : x \in Nat
  BY DEF Bytes
<1>13. Bytes(r) = Bytes(m) \cup {x \in Nat : c.off <= x /\ x < EndOf(c)}
  BY <1>11, <1>12
<1>14. r # <<>> /\ Len(r) = l + 1
  BY <1>1, <1>5
<1>15. QED
  BY <1>5, <1>10, <1>13, <1>14

LEMMA MergeStep ==
  ASSUME NEW t \in Seq(BlockSet), Ascending(t), NEW k \in 1 .. Len(t), NEW m \in MergedTo(t, k - 1)
  PROVE  Merge(m, t[k]) \in MergedTo(t, k)
<1>. DEFINE b == t[k]
            e == m[Len(m)]
            c == Block(e.off, Greater(EndOf(e), EndOf(b)) - e.off)
<1>1. k \in Nat /\ k > 0 /\ k - 1 \in Nat /\ b \in BlockSet
  OBVIOUS
<1>2. b.off \in Nat /\ EndOf(b) \in Nat /\ b.off < EndOf(b)
  BY <1>1, BlockFacts
<1>3. /\ FreeList(m) /\ Bytes(m) = Covered(t, k - 1) /\ (k - 1 = 0 => m = <<>>)
      /\ k - 1 > 0 => m # <<>> /\ EndOf(e) = EndOf(t[k - 1])
  BY DEF MergedTo, FreeList
<1>4. Covered(t, k) = Covered(t, k - 1) \cup {x \in Nat : b.off <= x /\ x < EndOf(b)}
  <2>1. \A i : i \in 1 .. k <=> i \in 1 .. k - 1 \/ i = k
    BY <1>1
  <2>. HIDE DEF b
  <2>2. \A x \in Nat : x \in Covered(t, k) <=>
                         x \in Covered(t, k - 1) \/ (b.off <= x /\ x < EndOf(b))
    BY <2>1 DEF Covered, b
  <2>3. \A x \in Covered(t, k) \cup Covered(t, k - 1) : x \in Nat
    BY DEF Covered
  <2>4. QED
    BY <2>2, <2>3
<1>5. m # <<>> => /\ e \in BlockSet /\ e.off \in Nat /\ EndOf(e) \in Nat /\ e.off < EndOf(e)
                  /\ EndOf(e) <= b.off
  <2>1. SUFFICES ASSUME m # <<>>
                 PROVE  /\ e \in BlockSet /\ e.off \in Nat /\ EndOf(e) \in Nat /\ e.off < EndOf(e)
                        /\ EndOf(e) <= b.off
    OBVIOUS
  <2>2. m \in Seq(BlockSet) /\ Len(m) \in 1 .. Len(m)
    BY <1>3, <2>1 DEF FreeList
  <2>3. e \in BlockSet
    BY <2>2
  <2>4. k - 1 > 0 /\ k - 1 \in DOMAIN t /\ k \in DOMAIN t /\ k - 1 < k
    BY <1>1, <1>3, <2>1
  <2>5. EndOf(t[k - 1]) <= t[k].off
    BY <2>4 DEF Ascending
  <2>6. QED
    BY <1>3, <2>3, <2>4, <2>5, BlockFacts
<1>6. Merge(m, b) = IF m # <<>> /\ b.off <= EndOf(e) THEN Append(Front(m), c) ELSE Append(m, b)
  BY DEF Merge, Last
<1>. HIDE DEF b, e
<1>7. CASE m # <<>> /\ b.off <= EndOf(e)
  <2>1. EndOf(e) = b.off
    BY <1>2, <1>5, <1>7
  <2>2. Greater(EndOf(e), EndOf(b)) = EndOf(b)
    BY <1>2, <2>1 DEF Greater
  <2>3. EndOf(b) - e.off \in Nat /\ EndOf(b) - e.off > 0 /\ e.off + (EndOf(b) - e.off) = EndOf(b)
    BY <1>2, <1>5, <1>7, <2>1
  <2>4. c \in BlockSet /\ c.off = e.off /\ EndOf(c) = EndOf(b)
    <3>1. c = Block(e.off, EndOf(b) - e.off)
      BY <2>2
    <3>. HIDE DEF c
    <3>2. QED
      BY <1>5, <1>7, <2>3, <3>1, MadeBlock
  <2>. DEFINE r == Append(Front(m), c)
  <2>. HIDE DEF c
  <2>5. EndOf(e) <= EndOf(c)
    BY <1>2, <2>1, <2>4
  <2>6. /\ FreeList(r) /\ r # <<>> /\ r[Len(r)] = c
        /\ Bytes(r) = Bytes(m) \cup {x \in Nat : c.off <= x /\ x < EndOf(c)}
    BY <1>3, <1>7, <2>4, <2>5, LastReplaced DEF e
  <2>. HIDE DEF r
  <2>7. {x \in Nat : e.off <= x /\ x < EndOf(e)} \subseteq Bytes(m)
    <3>1. m \in Seq(BlockSet) /\ Len(m) \in DOMAIN m
      BY <1>3, <1>7 DEF FreeList
    <3>2. QED
      BY <3>1 DEF Bytes, e
  <2>8. \A x \in Nat : c.off <= x /\ x < EndOf(c) <=>
                         (e.off <= x /\ x < EndOf(e)) \/ (b.off <= x /\ x < EndOf(b))
    BY <1>2, <1>5, <1>7, <2>1, <2>4
  <2>9. Bytes(r) = Bytes(m) \cup {x \in Nat : b.off <= x /\ x < EndOf(b)}
    BY <2>6, <2>7, <2>8
  <2>10. Merge(m, b) = r
    BY <1>6, <1>7 DEF r
  <2>11. r \in MergedTo(t, k)
    BY <1>1, <1>3, <1>4, <2>4, <2>6, <2>9 DEF MergedTo, FreeList, b
  <2>12. QED
    BY <2>10, <2>11 DEF b
<1>8. CASE ~(m # <<>> /\ b.off <= EndOf(e))
  <2>. DEFINE r == Append(m, b)
  <2>1. m # <<>> => EndOf(e) < b.off
    BY <1>2, <1>5, <1>8
  <2>2. /\ FreeList(r) /\ r # <<>> /\ r[Len(r)] = b
        /\ Bytes(r) = Bytes(m) \cup {x \in Nat : b.off <= x /\ x < EndOf(b)}
    BY <1>1, <1>3, <2>1, LastAdded DEF e
  <2>3. Merge(m, b) = r
    BY <1>6, <1>8
  <2>. HIDE DEF r
  <2>4. r \in MergedTo(t, k)
    BY <1>1, <1>3, <1>4, <2>2 DEF MergedTo, FreeList, b
  <2>5. QED
    BY <2>3, <2>4 DEF b
<1>9. QED
  BY <1>7, <1>8

LEMMA MergedAll ==
  ASSUME NEW t \in Seq(BlockSet), Ascending(t)
  PROVE  Merged(t) \in MergedTo(t, Len(t))
<1>. DEFINE n == Len(t)
            S == [k \in 0 .. n |-> MergedTo(t, k)]
            F == [k \in 1 .. n |-> [m \in MergedTo(t, k - 1) |-> Merge(m, t[k])]]
            Solves(f) == f = [k \in 0 .. n |-> IF k = 0 THEN <<>> ELSE Merge(f[k - 1], t[k])]
<1>1. n \in Nat /\ \A k \in 1 .. n : k \in 0 .. n /\ k - 1 \in 0 .. n /\ k # 0
  OBVIOUS
<1>2. /\ \A k \in 0 .. n : S[k] = MergedTo(t, k)
      /\ \A k \in 1 .. n : \A m \in MergedTo(t, k - 1) : F[k][m] = Merge(m, t[k])
  OBVIOUS
<1>3. <<>> \in MergedTo(t, 0)
  BY DEF MergedTo, InOrder, Bytes, Covered
<1>. HIDE DEF n, S, F
<1>4. \A k \in 1 .. n : \A m \in MergedTo(t, k - 1) : Merge(m, t[k]) \in MergedTo(t, k)
  BY MergeStep DEF n
<1>5. \E f : Solves(f)
  <2>1. <<>> \in S[0]
    BY <1>1, <1>2, <1>3
  <2>2. \A k \in 1 .. n : \A m \in S[k - 1] : F[k][m] \in S[k]
    BY <1>1, <1>2, <1>4
  <2>0. PICK f : Iterates(f, n, <<>>, F, S)
    BY <1>1, <2>1, <2>2, IterationExists
  <2>3. /\ f = [k \in 0 .. n |-> f[k]] /\ f[0] = <<>>
        /\ \A k \in 1 .. n : f[k] = F[k][f[k - 1]]
        /\ \A k \in 0 .. n : f[k] \in S[k]
    BY <2>0, Zenon DEF Iterates
  <2>4. \A k \in 0 .. n : f[k] = IF k = 0 THEN <<>> ELSE Merge(f[k - 1], t[k])
    <3>1. SUFFICES ASSUME NEW k \in 0 .. n, k # 0 PROVE f[k] = Merge(f[k - 1], t[k])
      BY <2>3
    <3>2. k \in 1 .. n /\ k - 1 \in 0 .. n
      BY <1>1, <3>1
    <3>3. f[k - 1] \in MergedTo(t, k - 1) /\ f[k] = F[k][f[k - 1]]
      BY <1>2, <2>3, <3>2
    <3>4. QED
      BY <1>2, <3>2, <3>3
  <2>5. [k \in 0 .. n |-> f[k]] = [k \in 0 .. n |-> IF k = 0 THEN <<>> ELSE Merge(f[k - 1], t[k])]
    BY <2>4
  <2>6. Solves(f)
    BY <2>3, <2>5
  <2>7. QED
    BY <2>6
<1>. DEFINE g == CHOOSE f : Solves(f)
<1>6. Merged(t) = g[n]
  BY DEF Merged, n
<1>7. Solves(g)
  BY <1>5
<1>. HIDE DEF g
<1>8. g[0] = <<>> /\ \A k \in 1 .. n : g[k] = Merge(g[k - 1], t[k])
  BY <1>1, <1>7
<1>9. \A k \in 1 .. n : g[k - 1] \in S[k - 1] => g[k] \in S[k]
  BY <1>1, <1>2, <1>4, <1>8
<1>10. g[0] \in S[0]
  BY <1>1, <1>2, <1>3, <1>8
<1>11. \A k \in 0 .. n : g[k] \in S[k]
  BY <1>1, <1>9, <1>10, IterationStays
<1>12. g[n] \in MergedTo(t, n)
  BY <1>1, <1>2, <1>11
<1>13. QED
  BY <1>6, <1>12 DEF n

\* _release gives a range back that the list does not have.
LEMMA Released ==
  ASSUME NEW blocks, FreeList(blocks), NEW off \in Nat, NEW n \in Nat, n > 0,
         Span(off, n) \cap Bytes(blocks) = {}
  PROVE  LET r == Release(blocks, off, n)
         IN  FreeList(r) /\ Bytes(r) = Bytes(blocks) \cup Span(off, n)
<1>. DEFINE b == Block(off, n)
            t == SortIn(blocks, b)
<1>1. b \in BlockSet /\ b.off = off /\ b.size = n
  BY MadeBlock
<1>. HIDE DEF b
<1>2. t \in Seq(BlockSet) /\ Ascending(t) /\ Bytes(t) = Bytes(blocks) \cup Span(off, n)
  BY <1>1, SortedIn
<1>3. Release(blocks, off, n) = Merged(t)
  BY DEF Release, b
<1>. HIDE DEF t
<1>4. Merged(t) \in MergedTo(t, Len(t))
  BY <1>2, MergedAll
<1>5. Covered(t, Len(t)) = Bytes(t)
  BY <1>2 DEF Covered, Bytes
<1>6. FreeList(Merged(t)) /\ Bytes(Merged(t)) = Bytes(t)
  BY <1>4, <1>5 DEF MergedTo, FreeList
<1>7. QED
  BY <1>2, <1>3, <1>6

-----------------------------------------------------------------------------
(* The extents of a tensor and the free lists of all slabs. *)

ExtentSet == [slab : Slab, off : Nat, nbytes : Nat \ {0}]
FreeLists(fr) == fr \in [Slab -> Seq(BlockSet)] /\ \A s \in Slab : InOrder(fr[s])

SpanOf(e) == Span(e.off, e.nbytes)

\* The bytes that the first k extents, or all of them, have in slab s.
OwnedTo(ext, k, s) == {x \in Nat : \E i \in 1 .. k : ext[i].slab = s /\ x \in SpanOf(ext[i])}
Owned(ext, s)      == OwnedTo(ext, Len(ext), s)

\* No two of the extents have a byte in common.
Apart(ext) == \A i, j \in DOMAIN ext :
                i # j /\ ext[i].slab = ext[j].slab => SpanOf(ext[i]) \cap SpanOf(ext[j]) = {}

LEMMA ExtentFacts ==
  ASSUME NEW e \in ExtentSet
  PROVE  e.slab \in Slab /\ e.off \in Nat /\ e.nbytes \in Nat /\ e.nbytes > 0
BY DEF ExtentSet

\* Where a byte is: its slab and its offset there.
Location == Slab \X Nat

\* The bytes of one extent.
Cells(e) == [j \in 1 .. e.nbytes |-> <<e.slab, e.off + j - 1>>]

LEMMA CellsFacts ==
  ASSUME NEW e \in ExtentSet
  PROVE  /\ Cells(e) \in Seq(Location) /\ Len(Cells(e)) = e.nbytes
         /\ \A j \in 1 .. e.nbytes : Cells(e)[j] = <<e.slab, e.off + j - 1>>
<1>1. e.slab \in Slab /\ e.off \in Nat /\ e.nbytes \in Nat
  BY ExtentFacts
<1>. DEFINE n == e.nbytes
<1>2. \A j \in 1 .. n : <<e.slab, e.off + j - 1>> \in Location
  BY <1>1 DEF Location
<1>3. Cells(e) = [j \in 1 .. n |-> <<e.slab, e.off + j - 1>>]
  BY DEF Cells
<1>4. n \in Nat
  BY <1>1
<1>. HIDE DEF n
<1>5. Cells(e) \in [1 .. n -> Location]
  BY <1>2, <1>3
<1>6. Cells(e) \in Seq(Location) /\ Len(Cells(e)) = n
  BY <1>4, <1>5
<1>7. QED
  BY <1>3, <1>6 DEF n

\* The bytes of a list of extents with one more.
LEMMA BytesOfAppend ==
  ASSUME NEW ext \in Seq(ExtentSet), NEW e \in ExtentSet
  PROVE  /\ BytesOf(ext) \in Seq(Location)
         /\ BytesOf(Append(ext, e)) = BytesOf(ext) \o Cells(e)
<1>. DEFINE g == [i \in DOMAIN ext |-> Cells(ext[i])]
            h == [i \in DOMAIN Append(ext, e) |-> Cells(Append(ext, e)[i])]
            n == Len(ext)
<1>1. BytesOf(ext) = FlattenSeq(g) /\ BytesOf(Append(ext, e)) = FlattenSeq(h)
  BY DEF BytesOf, Cells
<1>2. /\ n \in Nat /\ DOMAIN ext = 1 .. n /\ \A i \in 1 .. n : ext[i] \in ExtentSet
      /\ Append(ext, e) \in Seq(ExtentSet) /\ Len(Append(ext, e)) = n + 1
      /\ \A i \in 1 .. n : Append(ext, e)[i] = ext[i]
      /\ Append(ext, e)[n + 1] = e
  BY AppendProperties
<1>3. DOMAIN Append(ext, e) = 1 .. n + 1
  BY <1>2
<1>4. g \in Seq(Seq(Location)) /\ Len(g) = n /\ \A i \in 1 .. n : g[i] = Cells(ext[i])
  <2>1. \A i \in 1 .. n : Cells(ext[i]) \in Seq(Location)
    BY <1>2, CellsFacts
  <2>2. g \in [1 .. n -> Seq(Location)]
    BY <1>2, <2>1
  <2>3. QED
    BY <1>2, <2>2
<1>5. Cells(e) \in Seq(Location)
  BY CellsFacts
<1>6. h = [i \in 1 .. n + 1 |-> IF i = n + 1 THEN Cells(e) ELSE Cells(ext[i])]
  BY <1>2, <1>3
<1>. DEFINE a == Append(g, Cells(e))
<1>7. /\ a \in Seq(Seq(Location)) /\ Len(a) = n + 1 /\ \A i \in 1 .. n : a[i] = g[i]
      /\ a[n + 1] = Cells(e)
  BY <1>4, <1>5, AppendProperties
<1>. HIDE DEF g, h, n, a
<1>8. h = a
  <2>1. a = [i \in 1 .. n + 1 |-> a[i]]
    BY <1>7
  <2>2. \A i \in 1 .. n + 1 : a[i] = IF i = n + 1 THEN Cells(e) ELSE Cells(ext[i])
    <3>1. SUFFICES ASSUME NEW i \in 1 .. n + 1, i # n + 1 PROVE a[i] = Cells(ext[i])
      BY <1>7
    <3>2. i \in 1 .. n
      BY <1>2, <3>1
    <3>3. QED
      BY <1>4, <1>7, <3>2
  <2>3. QED
    BY <1>6, <2>1, <2>2
<1>9. FlattenSeq(g) \in Seq(Location) /\ FlattenSeq(a) = FlattenSeq(g) \o Cells(e)
  BY <1>4, <1>5, FlattenAppend DEF a
<1>10. QED
  BY <1>1, <1>8, <1>9

LEMMA BytesOfNone == BytesOf(<<>>) = <<>>
<1>. DEFINE g == [i \in DOMAIN <<>> |-> Cells(<<>>[i])]
<1>1. BytesOf(<<>>) = FlattenSeq(g)
  BY DEF BytesOf, Cells
<1>2. g = <<>> /\ Len(g) = 0
  OBVIOUS
<1>3. QED
  BY <1>1, <1>2 DEF FlattenSeq

\* The places where the extents of a tensor end.
Ends(ext, o) ==
  /\ o \in [0 .. Len(ext) -> Nat] /\ o[0] = 0
  /\ \A i \in 1 .. Len(ext) : o[i] = o[i - 1] + ext[i].nbytes

\* The bytes of a tensor, extent by extent.
LEMMA BytesLaid ==
  ASSUME NEW ext \in Seq(ExtentSet)
  PROVE  /\ BytesOf(ext) \in Seq(Location)
         /\ \E o : /\ Ends(ext, o) /\ Len(BytesOf(ext)) = o[Len(ext)]
                   /\ \A i, j \in 0 .. Len(ext) : j <= i => o[j] <= o[i]
                   /\ \A i \in 1 .. Len(ext) : \A j \in 1 .. ext[i].nbytes :
                        BytesOf(ext)[o[i - 1] + j] = <<ext[i].slab, ext[i].off + j - 1>>
<1>. DEFINE n == Len(ext)
            g == [i \in DOMAIN ext |-> Cells(ext[i])]
            l == [i \in 1 .. n |-> ext[i].nbytes]
<1>1. n \in Nat /\ DOMAIN ext = 1 .. n /\ \A i \in 1 .. n : ext[i] \in ExtentSet
  OBVIOUS
<1>2. \A i \in 1 .. n : /\ ext[i].nbytes \in Nat
                        /\ Cells(ext[i]) \in Seq(Location) /\ Len(Cells(ext[i])) = ext[i].nbytes
                        /\ \A j \in 1 .. ext[i].nbytes : Cells(ext[i])[j] = <<ext[i].slab, ext[i].off + j - 1>>
  BY <1>1, CellsFacts, ExtentFacts
<1>3. BytesOf(ext) = FlattenSeq(g)
  BY DEF BytesOf, Cells
<1>4. g \in [1 .. n -> Seq(Location)] /\ \A i \in 1 .. n : g[i] = Cells(ext[i])
  BY <1>1, <1>2
<1>5. l \in [1 .. n -> Nat] /\ \A i \in 1 .. n : l[i] = ext[i].nbytes
  BY <1>2
<1>. HIDE DEF l
<1>6. PICK o \in [0 .. n -> Nat] : o[0] = 0 /\ \A i \in 1 .. n : o[i] = o[i - 1] + l[i]
  BY <1>1, <1>5, OffsetsExist
<1>7. Ends(ext, o)
  BY <1>5, <1>6 DEF Ends
<1>8. CASE n = 0
  <2>1. ext = <<>>
    BY <1>8
  <2>2. BytesOf(ext) = <<>>
    BY <2>1, BytesOfNone
  <2>3. Len(BytesOf(ext)) = o[n] /\ BytesOf(ext) \in Seq(Location)
    BY <1>6, <1>8, <2>2
  <2>4. \A i, j \in 0 .. n : j <= i => o[j] <= o[i]
    <3>1. \A i \in 0 .. n : i = 0 /\ o[i] \in Nat
      BY <1>6, <1>8
    <3>2. QED
      BY <3>1
  <2>5. \A i \in 1 .. n : FALSE
    BY <1>8
  <2>6. QED
    BY <1>7, <2>3, <2>4, <2>5
<1>9. CASE n # 0
  <2>. HIDE DEF g, n
  <2>1. Pieces(g, o, n, Location)
    BY <1>1, <1>2, <1>4, <1>5, <1>6, <1>9 DEF Pieces
  <2>2. Laid(FlattenSeq(g), g, o, n, Location)
    BY <2>1, FlattenBlocks
  <2>3. \A i, j \in 0 .. n : j <= i => o[j] <= o[i]
    BY <2>1, PiecesGrow
  <2>4. /\ BytesOf(ext) \in Seq(Location) /\ Len(BytesOf(ext)) = o[n]
        /\ \A i \in 1 .. n : \A k \in 1 .. Len(g[i]) : BytesOf(ext)[o[i - 1] + k] = g[i][k]
    BY <1>3, <2>2 DEF Laid
  <2>5. \A i \in 1 .. n : \A j \in 1 .. ext[i].nbytes :
           BytesOf(ext)[o[i - 1] + j] = <<ext[i].slab, ext[i].off + j - 1>>
    <3>1. SUFFICES ASSUME NEW i \in 1 .. n, NEW j \in 1 .. ext[i].nbytes
                   PROVE  BytesOf(ext)[o[i - 1] + j] = <<ext[i].slab, ext[i].off + j - 1>>
      OBVIOUS
    <3>2. g[i] = Cells(ext[i]) /\ Len(Cells(ext[i])) = ext[i].nbytes
      BY <1>2, <1>4
    <3>3. BytesOf(ext)[o[i - 1] + j] = g[i][j]
      BY <2>4, <3>2
    <3>4. QED
      BY <1>2, <3>2, <3>3
  <2>6. QED
    BY <1>7, <2>3, <2>4, <2>5 DEF n
<1>10. QED
  BY <1>8, <1>9

LEMMA OwnedStep ==
  ASSUME NEW ext, NEW k \in Nat, k > 0, NEW s
  PROVE  OwnedTo(ext, k, s) = OwnedTo(ext, k - 1, s)
                                \cup (IF ext[k].slab = s THEN SpanOf(ext[k]) ELSE {})
<1>1. \A i : i \in 1 .. k <=> i \in 1 .. k - 1 \/ i = k
  OBVIOUS
<1>2. SpanOf(ext[k]) \subseteq Nat
  BY DEF SpanOf, Span
<1>3. ASSUME NEW x \in Nat
      PROVE  x \in OwnedTo(ext, k, s) <=> \/ x \in OwnedTo(ext, k - 1, s)
                                          \/ ext[k].slab = s /\ x \in SpanOf(ext[k])
  BY <1>1 DEF OwnedTo
<1>4. OwnedTo(ext, k, s) \subseteq Nat /\ OwnedTo(ext, k - 1, s) \subseteq Nat
  BY DEF OwnedTo
<1>5. QED
  BY <1>2, <1>3, <1>4

\* Lists after the first k extents were given back.
ReleasedTo(fr, ext, k) ==
  {f \in [Slab -> Seq(BlockSet)] :
     \A s \in Slab : InOrder(f[s]) /\ Bytes(f[s]) = Bytes(fr[s]) \cup OwnedTo(ext, k, s)}

ReleaseOne(f, e) == [f EXCEPT ![e.slab] = Release(@, e.off, e.nbytes)]

LEMMA ReleaseStep ==
  ASSUME NEW fr, NEW ext \in Seq(ExtentSet), Apart(ext),
         \A i \in DOMAIN ext : SpanOf(ext[i]) \cap Bytes(fr[ext[i].slab]) = {},
         NEW k \in 1 .. Len(ext), NEW f \in ReleasedTo(fr, ext, k - 1)
  PROVE  ReleaseOne(f, ext[k]) \in ReleasedTo(fr, ext, k)
<1>. DEFINE e == ext[k]
            r == Release(f[e.slab], e.off, e.nbytes)
            h == ReleaseOne(f, e)
<1>1. k \in Nat /\ k > 0 /\ k \in DOMAIN ext /\ e \in ExtentSet
  OBVIOUS
<1>2. e.slab \in Slab /\ e.off \in Nat /\ e.nbytes \in Nat /\ e.nbytes > 0
  BY <1>1, ExtentFacts
<1>3. /\ f \in [Slab -> Seq(BlockSet)]
      /\ \A s \in Slab : InOrder(f[s]) /\ Bytes(f[s]) = Bytes(fr[s]) \cup OwnedTo(ext, k - 1, s)
  BY DEF ReleasedTo
<1>4. SpanOf(e) \cap OwnedTo(ext, k - 1, e.slab) = {}
  <2>1. SUFFICES ASSUME NEW x \in SpanOf(e), x \in OwnedTo(ext, k - 1, e.slab) PROVE FALSE
    OBVIOUS
  <2>2. PICK i \in 1 .. k - 1 : ext[i].slab = e.slab /\ x \in SpanOf(ext[i])
    BY <2>1 DEF OwnedTo
  <2>3. i \in DOMAIN ext /\ i # k
    BY <1>1
  <2>4. QED
    BY <1>1, <2>1, <2>2, <2>3 DEF Apart
<1>5. SpanOf(e) \cap Bytes(f[e.slab]) = {}
  BY <1>1, <1>2, <1>3, <1>4
<1>6. FreeList(f[e.slab])
  BY <1>2, <1>3 DEF FreeList
<1>7. FreeList(r) /\ Bytes(r) = Bytes(f[e.slab]) \cup SpanOf(e)
  BY <1>2, <1>5, <1>6, Released DEF SpanOf
<1>8. /\ h \in [Slab -> Seq(BlockSet)] /\ h[e.slab] = r
      /\ \A s \in Slab : s # e.slab => h[s] = f[s]
  <2>1. h = [f EXCEPT ![e.slab] = r]
    BY DEF ReleaseOne
  <2>2. r \in Seq(BlockSet)
    BY <1>7 DEF FreeList
  <2>. HIDE DEF r, h, e
  <2>3. QED
    BY <1>2, <1>3, <2>1, <2>2
<1>9. ASSUME NEW s \in Slab
      PROVE  InOrder(h[s]) /\ Bytes(h[s]) = Bytes(fr[s]) \cup OwnedTo(ext, k, s)
  <2>1. OwnedTo(ext, k, s) = OwnedTo(ext, k - 1, s) \cup (IF e.slab = s THEN SpanOf(e) ELSE {})
    BY <1>1, OwnedStep
  <2>. HIDE DEF r, h, e
  <2>2. CASE s = e.slab
    BY <1>3, <1>7, <1>8, <2>1, <2>2 DEF FreeList
  <2>3. CASE s # e.slab
    BY <1>3, <1>8, <2>1, <2>3
  <2>4. QED
    BY <2>2, <2>3
<1>10. h \in ReleasedTo(fr, ext, k)
  <2>. HIDE DEF r, h, e
  <2>1. QED
    BY <1>8, <1>9 DEF ReleasedTo
<1>11. QED
  BY <1>10

\* A tensor's extents go back to the lists, each to its slab.
LEMMA ReleasedAll ==
  ASSUME NEW fr, FreeLists(fr), NEW ext \in Seq(ExtentSet), Apart(ext),
         \A i \in DOMAIN ext : SpanOf(ext[i]) \cap Bytes(fr[ext[i].slab]) = {}
  PROVE  LET r == ReleaseExtents(fr, ext)
         IN  FreeLists(r) /\ \A s \in Slab : Bytes(r[s]) = Bytes(fr[s]) \cup Owned(ext, s)
<1>. DEFINE n == Len(ext)
            S == [k \in 0 .. n |-> ReleasedTo(fr, ext, k)]
            F == [k \in 1 .. n |-> [f \in ReleasedTo(fr, ext, k - 1) |-> ReleaseOne(f, ext[k])]]
            Solves(f) == f = [k \in 0 .. n |-> IF k = 0 THEN fr ELSE ReleaseOne(f[k - 1], ext[k])]
<1>1. n \in Nat /\ \A k \in 1 .. n : k \in 0 .. n /\ k - 1 \in 0 .. n /\ k # 0
  OBVIOUS
<1>2. /\ \A k \in 0 .. n : S[k] = ReleasedTo(fr, ext, k)
      /\ \A k \in 1 .. n : \A f \in ReleasedTo(fr, ext, k - 1) : F[k][f] = ReleaseOne(f, ext[k])
  OBVIOUS
<1>3. fr \in ReleasedTo(fr, ext, 0)
  <2>1. \A s : OwnedTo(ext, 0, s) = {}
    BY DEF OwnedTo
  <2>2. QED
    BY <2>1 DEF ReleasedTo, FreeLists
<1>. HIDE DEF n, S, F
<1>4. \A k \in 1 .. n : \A f \in ReleasedTo(fr, ext, k - 1) :
        ReleaseOne(f, ext[k]) \in ReleasedTo(fr, ext, k)
  BY ReleaseStep DEF n
<1>5. \E f : Solves(f)
  <2>1. fr \in S[0]
    BY <1>1, <1>2, <1>3
  <2>2. \A k \in 1 .. n : \A f \in S[k - 1] : F[k][f] \in S[k]
    BY <1>1, <1>2, <1>4
  <2>3. PICK f : Iterates(f, n, fr, F, S)
    BY <1>1, <2>1, <2>2, IterationExists
  <2>4. /\ f = [k \in 0 .. n |-> f[k]] /\ f[0] = fr
        /\ \A k \in 1 .. n : f[k] = F[k][f[k - 1]]
        /\ \A k \in 0 .. n : f[k] \in S[k]
    BY <2>3, Zenon DEF Iterates
  <2>5. \A k \in 0 .. n : f[k] = IF k = 0 THEN fr ELSE ReleaseOne(f[k - 1], ext[k])
    <3>1. SUFFICES ASSUME NEW k \in 0 .. n, k # 0 PROVE f[k] = ReleaseOne(f[k - 1], ext[k])
      BY <2>4
    <3>2. k \in 1 .. n /\ k - 1 \in 0 .. n
      BY <1>1, <3>1
    <3>3. f[k - 1] \in ReleasedTo(fr, ext, k - 1) /\ f[k] = F[k][f[k - 1]]
      BY <1>2, <2>4, <3>2
    <3>4. QED
      BY <1>2, <3>2, <3>3
  <2>6. [k \in 0 .. n |-> f[k]] = [k \in 0 .. n |-> IF k = 0 THEN fr ELSE ReleaseOne(f[k - 1], ext[k])]
    BY <2>5
  <2>7. Solves(f)
    BY <2>4, <2>6
  <2>8. QED
    BY <2>7
<1>. DEFINE g == CHOOSE f : Solves(f)
<1>6. ReleaseExtents(fr, ext) = g[n]
  BY DEF ReleaseExtents, ReleaseOne, n
<1>7. Solves(g)
  BY <1>5
<1>. HIDE DEF g
<1>8. g[0] = fr /\ \A k \in 1 .. n : g[k] = ReleaseOne(g[k - 1], ext[k])
  BY <1>1, <1>7
<1>9. \A k \in 1 .. n : g[k - 1] \in S[k - 1] => g[k] \in S[k]
  BY <1>1, <1>2, <1>4, <1>8
<1>10. g[0] \in S[0]
  BY <1>1, <1>2, <1>3, <1>8
<1>11. \A k \in 0 .. n : g[k] \in S[k]
  BY <1>1, <1>9, <1>10, IterationStays
<1>12. g[n] \in ReleasedTo(fr, ext, n)
  BY <1>1, <1>2, <1>11
<1>13. QED
  BY <1>6, <1>12 DEF n, ReleasedTo, FreeLists, Owned

-----------------------------------------------------------------------------
(* Placement. *)

Multiple(off, a) == \E q \in Nat : off = q * a

\* align_up goes up, and to a multiple.
LEMMA AlignUpFacts ==
  ASSUME NEW v \in Nat, NEW a \in Nat \ {0}
  PROVE  AlignUp(v, a) \in Nat /\ v <= AlignUp(v, a) /\ Multiple(AlignUp(v, a), a)
<1>. DEFINE w == v + a - 1
            q == w \div a
            p == q * a
<1>1. w \in Nat /\ w + 1 = v + a
  OBVIOUS
<1>2. AlignUp(v, a) = p
  BY DEF AlignUp
<1>. HIDE DEF w
<1>3. q \in Nat /\ w = a * q + (w % a) /\ (w % a) \in Nat /\ (w % a) < a
  BY <1>1
<1>4. a * q = p /\ p \in Nat
  BY <1>3
<1>5. v <= p
  <2>1. w = p + (w % a)
    BY <1>3, <1>4
  <2>. HIDE DEF p, q
  <2>2. QED
    BY <1>1, <1>3, <1>4, <2>1
<1>6. Multiple(p, a)
  BY <1>3 DEF Multiple
<1>7. QED
  BY <1>2, <1>4, <1>5, <1>6

\* fr has lost the extents ext, which begin at multiples of a, and nothing else
\* of fr0.
Carved(fr0, fr, ext, a) ==
  /\ FreeLists(fr) /\ ext \in Seq(ExtentSet) /\ Apart(ext)
  /\ \A i \in DOMAIN ext : Multiple(ext[i].off, a)
  /\ \A s \in Slab : /\ Bytes(fr[s]) \cap Owned(ext, s) = {}
                     /\ Bytes(fr[s]) \cup Owned(ext, s) = Bytes(fr0[s])

LEMMA CarvedNothing ==
  ASSUME NEW fr0, NEW fr, FreeLists(fr), \A s \in Slab : Bytes(fr[s]) = Bytes(fr0[s]), NEW a
  PROVE  Carved(fr0, fr, <<>>, a)
<1>1. \A s : Owned(<<>>, s) = {}
  BY DEF Owned, OwnedTo
<1>2. QED
  BY <1>1 DEF Carved, Apart

LEMMA CarveMore ==
  ASSUME NEW fr0, NEW fr, NEW ext, NEW a, Carved(fr0, fr, ext, a), NEW e \in ExtentSet,
         Multiple(e.off, a), NEW r, FreeList(r), Bytes(r) = Bytes(fr[e.slab]) \ SpanOf(e),
         SpanOf(e) \subseteq Bytes(fr[e.slab]), NEW h, h = [fr EXCEPT ![e.slab] = r]
  PROVE  Carved(fr0, h, Append(ext, e), a)
<1>. DEFINE l == Len(ext)
            x == Append(ext, e)
<1>1. ext \in Seq(ExtentSet) /\ l \in Nat /\ DOMAIN ext = 1 .. l
  BY DEF Carved
<1>2. ext \in Seq(ExtentSet)
  BY <1>1
<1>3. /\ x \in Seq(ExtentSet) /\ Len(x) = l + 1 /\ x[l + 1] = e /\ DOMAIN x = 1 .. l + 1
      /\ \A i \in 1 .. l : x[i] = ext[i]
  BY ONLY <1>2, e \in ExtentSet
<1>. HIDE DEF x
<1>4. e.slab \in Slab
  BY ExtentFacts
<1>5. /\ h \in [Slab -> Seq(BlockSet)] /\ h[e.slab] = r /\ \A s \in Slab : s # e.slab => h[s] = fr[s]
      /\ \A s \in Slab : InOrder(fr[s])
  BY <1>4 DEF Carved, FreeLists, FreeList
<1>6. FreeLists(h)
  BY <1>5 DEF FreeLists, FreeList
<1>7. ASSUME NEW s \in Slab
      PROVE  Owned(x, s) = Owned(ext, s) \cup (IF e.slab = s THEN SpanOf(e) ELSE {})
  <2>1. OwnedTo(x, l + 1, s) = OwnedTo(x, (l + 1) - 1, s)
                                 \cup (IF x[l + 1].slab = s THEN SpanOf(x[l + 1]) ELSE {})
    BY <1>1, OwnedStep
  <2>2. (l + 1) - 1 = l
    BY <1>1
  <2>3. OwnedTo(x, l, s) = OwnedTo(ext, l, s)
    BY <1>3 DEF OwnedTo
  <2>4. QED
    BY <1>3, <2>1, <2>2, <2>3 DEF Owned
<1>8. /\ \A s \in Slab : Bytes(fr[s]) \cap Owned(ext, s) = {}
      /\ \A s \in Slab : Bytes(fr[s]) \cup Owned(ext, s) = Bytes(fr0[s])
  BY DEF Carved
<1>9. ASSUME NEW s \in Slab
      PROVE  /\ Bytes(h[s]) \cap Owned(x, s) = {} /\ Bytes(h[s]) \cup Owned(x, s) = Bytes(fr0[s])
  <2>1. CASE s = e.slab
    BY <1>5, <1>7, <1>8, <2>1
  <2>2. CASE s # e.slab
    BY <1>5, <1>7, <1>8, <2>2
  <2>3. QED
    BY <2>1, <2>2
<1>10. \A i \in 1 .. l : ext[i].slab = e.slab => SpanOf(ext[i]) \cap SpanOf(e) = {}
  <2>1. SUFFICES ASSUME NEW i \in 1 .. l, ext[i].slab = e.slab PROVE SpanOf(ext[i]) \subseteq Owned(ext, e.slab)
    BY <1>4, <1>8
  <2>2. QED
    BY <2>1 DEF Owned, OwnedTo, SpanOf, Span
<1>11. Apart(x)
  <2>1. SUFFICES ASSUME NEW i \in 1 .. l + 1, NEW j \in 1 .. l + 1, i # j, x[i].slab = x[j].slab
                 PROVE  SpanOf(x[i]) \cap SpanOf(x[j]) = {}
    BY <1>3 DEF Apart
  <2>2. (i = l + 1 \/ i \in 1 .. l) /\ (j = l + 1 \/ j \in 1 .. l)
    BY <1>1
  <2>3. CASE i \in 1 .. l /\ j \in 1 .. l
    BY <1>1, <1>3, <2>1, <2>3 DEF Carved, Apart
  <2>4. CASE i = l + 1 /\ j \in 1 .. l
    BY <1>3, <1>10, <2>1, <2>4
  <2>5. CASE j = l + 1 /\ i \in 1 .. l
    BY <1>3, <1>10, <2>1, <2>5
  <2>6. QED
    BY <2>1, <2>2, <2>3, <2>4, <2>5
<1>12. \A i \in 1 .. l + 1 : Multiple(x[i].off, a)
  <2>1. \A i \in 1 .. l + 1 : i = l + 1 \/ i \in 1 .. l
    BY <1>1
  <2>2. QED
    BY <1>1, <1>3, <2>1 DEF Carved
<1>13. QED
  BY <1>3, <1>6, <1>9, <1>11, <1>12 DEF Carved, x

LEMMA MadeExtent ==
  ASSUME NEW s \in Slab, NEW off \in Nat, NEW n \in Nat, n > 0
  PROVE  LET e == Extent(s, off, n)
         IN  e \in ExtentSet /\ e.slab = s /\ e.off = off /\ e.nbytes = n /\ SpanOf(e) = Span(off, n)
BY DEF Extent, ExtentSet, SpanOf

\* A range of a block becomes an extent.
LEMMA CarveBlock ==
  ASSUME NEW fr0, NEW fr, NEW ext, NEW a, Carved(fr0, fr, ext, a), NEW s \in Slab,
         NEW k \in 1 .. Len(fr[s]), NEW off \in Nat, NEW n \in Nat, n > 0, Multiple(off, a),
         fr[s][k].off <= off, off + n <= EndOf(fr[s][k])
  PROVE  Carved(fr0, [fr EXCEPT ![s] = Splice(fr[s], k, Remainder(fr[s][k], off, n))],
                Append(ext, Extent(s, off, n)), a)
<1>. DEFINE r == Splice(fr[s], k, Remainder(fr[s][k], off, n))
            e == Extent(s, off, n)
            h == [fr EXCEPT ![s] = r]
<1>1. FreeList(fr[s])
  BY DEF Carved, FreeLists, FreeList
<1>2. FreeList(r) /\ Bytes(r) = Bytes(fr[s]) \ Span(off, n) /\ Span(off, n) \subseteq Bytes(fr[s])
  BY <1>1, CutOut
<1>3. e \in ExtentSet /\ e.slab = s /\ e.off = off /\ e.nbytes = n /\ SpanOf(e) = Span(off, n)
  BY MadeExtent
<1>4. h = [fr EXCEPT ![e.slab] = r]
  BY <1>3
<1>. HIDE DEF r, e, h
<1>5. Carved(fr0, h, Append(ext, e), a)
  BY <1>2, <1>3, <1>4, CarveMore
<1>6. QED
  BY <1>5 DEF r, e, h

\* _take finds a block that covers the range, where there is one.
LEMMA TakeCarves ==
  ASSUME NEW fr0, NEW fr, NEW ext, NEW a, Carved(fr0, fr, ext, a), NEW s \in Slab,
         NEW off \in Nat, NEW n \in Nat, n > 0, Multiple(off, a),
         \E k \in 1 .. Len(fr[s]) : fr[s][k].off <= off /\ off + n <= EndOf(fr[s][k])
  PROVE  Carved(fr0, [fr EXCEPT ![s] = Take(fr[s], off, n)], Append(ext, Extent(s, off, n)), a)
<1>. DEFINE I == {k \in 1 .. Len(fr[s]) : fr[s][k].off <= off /\ off + n <= EndOf(fr[s][k])}
            k == SelectInSeq(fr[s], LAMBDA b : b.off <= off /\ off + n <= EndOf(b))
<1>1. k = IF I # {} THEN CHOOSE x \in I : \A y \in I : x =< y ELSE 0
  BY DEF SelectInSeq, Min
<1>2. I # {}
  OBVIOUS
<1>3. I \subseteq Nat
  OBVIOUS
<1>4. Take(fr[s], off, n) = Splice(fr[s], k, Remainder(fr[s][k], off, n))
  BY DEF Take
<1>. HIDE DEF k
<1>5. k \in I
  <2>. HIDE DEF I
  <2>1. QED
    BY <1>1, <1>2, <1>3, LeastIsChosen
<1>6. QED
  BY <1>4, <1>5, CarveBlock

LEMMA PlaceSingleCarves ==
  ASSUME NEW fr, FreeLists(fr), NEW n \in Nat, n > 0, NEW a \in Nat \ {0}
  PROVE  LET p == PlaceSingle(fr, n, a)
         IN  /\ Carved(fr, p.free, p.extents, a)
             /\ p.extents # <<>> => Len(BytesOf(p.extents)) = n
<1>. DEFINE hit == {s \in Slab : \E k \in DOMAIN fr[s] : Fits(fr[s][k], n, a)}
            s == CHOOSE x \in hit : \A y \in hit : x <= y
            I == {k \in 1 .. Len(fr[s]) : Fits(fr[s][k], n, a)}
            k == SelectInSeq(fr[s], LAMBDA x : Fits(x, n, a))
            b == fr[s][k]
            off == AlignUp(b.off, a)
            p == PlaceSingle(fr, n, a)
<1>1. p = IF hit = {} THEN None(fr)
          ELSE [free    |-> [fr EXCEPT ![s] = Take(fr[s], off, n)],
                extents |-> <<Extent(s, off, n)>>]
  BY DEF PlaceSingle
<1>2. Carved(fr, fr, <<>>, a)
  BY CarvedNothing
<1>3. CASE hit = {}
  <2>1. p = None(fr)
    BY <1>1, <1>3
  <2>. HIDE DEF p
  <2>2. p.free = fr /\ p.extents = <<>>
    BY <2>1 DEF None
  <2>3. QED
    BY <1>2, <2>2 DEF p
<1>4. CASE hit # {}
  <2>1. Slab \subseteq Nat
    BY AllocatorAssumption DEF Slab
  <2>2. hit \subseteq Nat /\ hit \subseteq Slab
    BY <2>1
  <2>3. s \in hit
    <3>. HIDE DEF hit
    <3>1. QED
      BY <1>4, <2>2, LeastIsChosen
  <2>4. k = IF I # {} THEN CHOOSE x \in I : \A y \in I : x =< y ELSE 0
    BY DEF SelectInSeq, Min
  <2>5. s \in Slab /\ fr[s] \in Seq(BlockSet) /\ \E j \in DOMAIN fr[s] : Fits(fr[s][j], n, a)
    BY <2>2, <2>3 DEF FreeLists
  <2>6. p = [free    |-> [fr EXCEPT ![s] = Take(fr[s], off, n)],
             extents |-> <<Extent(s, off, n)>>]
    BY <1>1, <1>4
  <2>. HIDE DEF s, p
  <2>7. I # {} /\ I \subseteq Nat
    BY <2>5
  <2>8. k \in I
    <3>. HIDE DEF I, k
    <3>1. QED
      BY <2>4, <2>7, LeastIsChosen
  <2>. HIDE DEF k
  <2>9. b \in BlockSet /\ k \in 1 .. Len(fr[s]) /\ Fits(b, n, a)
    BY <2>5, <2>8
  <2>10. b.off \in Nat /\ EndOf(b) \in Nat
    BY <2>9, BlockFacts
  <2>11. off \in Nat /\ b.off <= off /\ Multiple(off, a) /\ off + n <= EndOf(b)
    BY <2>9, <2>10, AlignUpFacts DEF Fits
  <2>12. Carved(fr, [fr EXCEPT ![s] = Take(fr[s], off, n)], Append(<<>>, Extent(s, off, n)), a)
    <3>. HIDE DEF off
    <3>1. QED
      BY <1>2, <2>5, <2>9, <2>11, TakeCarves
  <2>13. Append(<<>>, Extent(s, off, n)) = <<Extent(s, off, n)>>
    <3>1. \A e : Append(<<>>, e) = <<e>>
      OBVIOUS
    <3>2. QED
      BY ONLY <3>1
  <2>14. /\ p.free = [fr EXCEPT ![s] = Take(fr[s], off, n)]
         /\ p.extents = <<Extent(s, off, n)>>
    BY ONLY <2>6
  <2>15. Len(BytesOf(p.extents)) = n
    <3>. DEFINE e == Extent(s, off, n)
    <3>1. e \in ExtentSet /\ e.nbytes = n
      BY <2>5, <2>11, MadeExtent
    <3>. HIDE DEF e
    <3>2. BytesOf(Append(<<>>, e)) = <<>> \o Cells(e) /\ Cells(e) \in Seq(Location) /\ Len(Cells(e)) = n
      <4>1. Cells(e) \in Seq(Location) /\ Len(Cells(e)) = n
        BY <3>1, CellsFacts
      <4>2. <<>> \in Seq(ExtentSet)
        OBVIOUS
      <4>3. BytesOf(Append(<<>>, e)) = BytesOf(<<>>) \o Cells(e)
        BY ONLY <3>1, <4>2, BytesOfAppend
      <4>4. QED
        BY <4>1, <4>3, BytesOfNone
    <3>3. <<>> \o Cells(e) = Cells(e)
      BY <3>2
    <3>4. p.extents = Append(<<>>, e)
      BY <2>13, <2>14 DEF e
    <3>5. QED
      BY <3>2, <3>3, <3>4
  <2>16. QED
    BY <2>12, <2>13, <2>14, <2>15 DEF p
<1>5. QED
  BY <1>3, <1>4

\* The states of _place_multi's loops: what they have and what remains make up nbytes.
Filling(fr, nbytes, a) ==
  {st \in [free : [Slab -> Seq(BlockSet)], extents : Seq(ExtentSet), remaining : Nat, slab : Nat \ {0}] :
     Carved(fr, st.free, st.extents, a) /\ Len(BytesOf(st.extents)) + st.remaining = nbytes}

LEMMA FillStepCarves ==
  ASSUME NEW fr, NEW nbytes, NEW a \in Nat \ {0}, NEW st \in Filling(fr, nbytes, a)
  PROVE  FillStep(st, a) \in Filling(fr, nbytes, a)
<1>. DEFINE s == st.slab
            blocks == st.free[s]
            I == {k \in 1 .. Len(blocks) : Available(blocks[k], a) > 0}
            k == SelectInSeq(blocks, LAMBDA b : Available(b, a) > 0)
            off == AlignUp(blocks[k].off, a)
            count == Lesser(st.remaining, Available(blocks[k], a))
            f == [st.free EXCEPT ![s] = Splice(blocks, k, Remainder(blocks[k], off, count))]
            x == Append(st.extents, Extent(s, off, count))
            n == FillStep(st, a)
<1>1. /\ st \in [free : [Slab -> Seq(BlockSet)], extents : Seq(ExtentSet), remaining : Nat, slab : Nat \ {0}]
      /\ Carved(fr, st.free, st.extents, a) /\ Len(BytesOf(st.extents)) + st.remaining = nbytes
  BY DEF Filling
<1>2. st.free \in [Slab -> Seq(BlockSet)] /\ st.remaining \in Nat /\ s \in Nat \ {0}
  BY <1>1
<1>3. n = IF st.remaining = 0 \/ s > Len(SlabSize) THEN st
          ELSE IF k = 0 THEN [st EXCEPT !.slab = s + 1]
          ELSE [st EXCEPT !.free = f, !.extents = x, !.remaining = st.remaining - count]
  BY DEF FillStep
<1>4. k = IF I # {} THEN CHOOSE y \in I : \A z \in I : y =< z ELSE 0
  BY DEF SelectInSeq, Min
<1>. HIDE DEF n
<1>5. CASE st.remaining = 0 \/ s > Len(SlabSize)
  BY <1>3, <1>5 DEF n
<1>6. CASE ~(st.remaining = 0 \/ s > Len(SlabSize)) /\ k = 0
  <2>1. n = [st EXCEPT !.slab = s + 1]
    BY <1>3, <1>6
  <2>2. /\ n \in [free : [Slab -> Seq(BlockSet)], extents : Seq(ExtentSet), remaining : Nat, slab : Nat \ {0}]
        /\ n.free = st.free /\ n.extents = st.extents /\ n.remaining = st.remaining
    <3>1. s + 1 \in Nat \ {0}
      BY <1>2
    <3>2. QED
      BY ONLY <1>1, <2>1, <3>1
  <2>3. QED
    BY <1>1, <2>2 DEF Filling, n
<1>7. CASE ~(st.remaining = 0 \/ s > Len(SlabSize)) /\ k # 0
  <2>1. n = [st EXCEPT !.free = f, !.extents = x, !.remaining = st.remaining - count]
    BY <1>3, <1>7
  <2>2. s \in Slab
    BY <1>2, <1>7, AllocatorAssumption DEF Slab
  <2>3. blocks \in Seq(BlockSet)
    BY <1>2, <2>2
  <2>4. I # {} /\ I \subseteq Nat
    <3>1. I \subseteq Nat
      BY <2>3
    <3>. HIDE DEF I, k
    <3>2. QED
      BY <1>4, <1>7, <3>1
  <2>5. k \in I
    <3>. HIDE DEF I, k
    <3>1. QED
      BY <1>4, <2>4, LeastIsChosen
  <2>. HIDE DEF k
  <2>6. k \in 1 .. Len(blocks) /\ blocks[k] \in BlockSet /\ Available(blocks[k], a) > 0
    BY <2>3, <2>5
  <2>7. blocks[k].off \in Nat /\ EndOf(blocks[k]) \in Nat
    BY <2>6, BlockFacts
  <2>8. off \in Nat /\ blocks[k].off <= off /\ Multiple(off, a)
    BY <2>7, AlignUpFacts
  <2>9. Available(blocks[k], a) = EndOf(blocks[k]) - off
    BY DEF Available
  <2>. HIDE DEF off
  <2>10. count \in Nat /\ count > 0 /\ off + count <= EndOf(blocks[k]) /\ st.remaining - count \in Nat
    <3>. DEFINE v == Available(blocks[k], a)
                m == st.remaining
                z == EndOf(blocks[k])
    <3>1. m \in Nat /\ m # 0 /\ v > 0 /\ z \in Nat /\ off \in Nat /\ v = z - off
      BY <1>2, <1>7, <2>6, <2>7, <2>8, <2>9
    <3>2. count = IF m < v THEN m ELSE v
      BY DEF Lesser
    <3>. HIDE DEF v, m, z, count
    <3>3. count \in Nat /\ count > 0 /\ off + count <= z /\ m - count \in Nat
      BY ONLY <3>1, <3>2
    <3>4. QED
      BY <3>3 DEF m, z
  <2>. HIDE DEF count
  <2>11. Carved(fr, f, x, a)
    BY <1>1, <2>2, <2>6, <2>8, <2>10, CarveBlock
  <2>12. f \in [Slab -> Seq(BlockSet)] /\ x \in Seq(ExtentSet)
    BY <2>11 DEF Carved, FreeLists
  <2>15. Len(BytesOf(x)) + (st.remaining - count) = nbytes
    <3>. DEFINE e == Extent(s, off, count)
    <3>1. e \in ExtentSet /\ e.nbytes = count
      <4>1. s \in Slab /\ off \in Nat /\ count \in Nat /\ count > 0
        BY <2>2, <2>8, <2>10
      <4>. HIDE DEF s
      <4>2. QED
        BY ONLY <4>1, MadeExtent
    <3>2. x = Append(st.extents, e) /\ st.extents \in Seq(ExtentSet)
      BY <1>1
    <3>. HIDE DEF e, x
    <3>3. /\ BytesOf(st.extents) \in Seq(Location) /\ BytesOf(x) = BytesOf(st.extents) \o Cells(e)
          /\ Cells(e) \in Seq(Location) /\ Len(Cells(e)) = count
      BY <3>1, <3>2, CellsFacts, BytesOfAppend
    <3>. DEFINE u == BytesOf(st.extents)
                v == Cells(e)
    <3>4. u \in Seq(Location) /\ v \in Seq(Location) /\ Len(v) = count
      BY <3>3
    <3>5. Len(u \o v) = Len(u) + count /\ Len(u) \in Nat
      <4>. HIDE DEF u, v
      <4>1. QED
        BY <3>4, ConcatProperties
    <3>. DEFINE w == Len(u)
                m == st.remaining
    <3>6. w \in Nat /\ m \in Nat /\ count \in Nat /\ w + m = nbytes /\ Len(BytesOf(x)) = w + count
      BY <1>1, <1>2, <2>10, <3>3, <3>5
    <3>. HIDE DEF w, m
    <3>7. (w + count) + (m - count) = w + m
      BY ONLY <3>6
    <3>8. QED
      BY <3>6, <3>7 DEF m
  <2>. HIDE DEF f, x
  <2>13. /\ n \in [free : [Slab -> Seq(BlockSet)], extents : Seq(ExtentSet), remaining : Nat, slab : Nat \ {0}]
         /\ n.free = f /\ n.extents = x /\ n.remaining = st.remaining - count
    BY ONLY <1>1, <2>1, <2>10, <2>12
  <2>14. QED
    BY <2>11, <2>13, <2>15 DEF Filling, n
<1>8. QED
  BY <1>5, <1>6, <1>7

Turns(fr, f) == f = [s \in 0 .. Len(SlabSize) |-> IF s = 0 THEN 0 ELSE f[s - 1] + Len(fr[s]) + 1]

\* The loops' bound is a number.
LEMMA TurnsNumber ==
  ASSUME NEW fr, FreeLists(fr)
  PROVE  (CHOOSE f : Turns(fr, f))[Len(SlabSize)] \in Nat
<1>. DEFINE n == Len(SlabSize)
            S == [k \in 0 .. n |-> Nat]
            F == [k \in 1 .. n |-> [m \in Nat |-> m + Len(fr[k]) + 1]]
            g == CHOOSE f : Turns(fr, f)
<1>1. n \in Nat /\ \A k \in 1 .. n : k \in 0 .. n /\ k - 1 \in 0 .. n /\ k # 0 /\ k \in Slab
  BY AllocatorAssumption DEF Slab
<1>2. /\ \A k \in 0 .. n : S[k] = Nat
      /\ \A k \in 1 .. n : \A m \in Nat : F[k][m] = m + Len(fr[k]) + 1
  OBVIOUS
<1>. HIDE DEF n, S, F
<1>3. \A k \in 1 .. n : Len(fr[k]) \in Nat
  BY <1>1 DEF FreeLists
<1>4. \A k \in 1 .. n : \A m \in Nat : m + Len(fr[k]) + 1 \in Nat
  BY <1>3
<1>5. \E f : Turns(fr, f)
  <2>1. 0 \in S[0]
    BY <1>1, <1>2
  <2>2. \A k \in 1 .. n : \A m \in S[k - 1] : F[k][m] \in S[k]
    <3>1. SUFFICES ASSUME NEW k \in 1 .. n, NEW m \in S[k - 1] PROVE F[k][m] \in S[k]
      OBVIOUS
    <3>2. S[k - 1] = Nat /\ S[k] = Nat
      BY <1>1, <1>2
    <3>3. F[k][m] = m + Len(fr[k]) + 1 /\ m + Len(fr[k]) + 1 \in Nat
      BY <1>2, <1>4, <3>2
    <3>4. QED
      BY <3>2, <3>3
  <2>3. PICK f : Iterates(f, n, 0, F, S)
    BY <1>1, <2>1, <2>2, IterationExists
  <2>4. /\ f = [k \in 0 .. n |-> f[k]] /\ f[0] = 0
        /\ \A k \in 1 .. n : f[k] = F[k][f[k - 1]]
        /\ \A k \in 0 .. n : f[k] \in S[k]
    BY <2>3, Zenon DEF Iterates
  <2>5. \A k \in 0 .. n : f[k] = IF k = 0 THEN 0 ELSE f[k - 1] + Len(fr[k]) + 1
    <3>1. SUFFICES ASSUME NEW k \in 0 .. n, k # 0 PROVE f[k] = f[k - 1] + Len(fr[k]) + 1
      BY <2>4
    <3>2. k \in 1 .. n /\ k - 1 \in 0 .. n
      BY <1>1, <3>1
    <3>3. f[k - 1] \in Nat /\ f[k] = F[k][f[k - 1]]
      BY <1>2, <2>4, <3>2
    <3>4. QED
      BY <1>2, <3>2, <3>3
  <2>6. [k \in 0 .. n |-> f[k]] = [k \in 0 .. n |-> IF k = 0 THEN 0 ELSE f[k - 1] + Len(fr[k]) + 1]
    BY <2>5
  <2>7. Turns(fr, f)
    BY <2>4, <2>6 DEF Turns, n
  <2>8. QED
    BY <2>7
<1>6. Turns(fr, g)
  BY <1>5
<1>. HIDE DEF g
<1>7. g = [s \in 0 .. n |-> IF s = 0 THEN 0 ELSE g[s - 1] + Len(fr[s]) + 1]
  BY <1>6 DEF Turns, n
<1>8. g[0] = 0 /\ \A k \in 1 .. n : g[k] = g[k - 1] + Len(fr[k]) + 1
  BY <1>1, <1>7
<1>9. \A k \in 1 .. n : g[k - 1] \in S[k - 1] => g[k] \in S[k]
  <2>1. SUFFICES ASSUME NEW k \in 1 .. n, g[k - 1] \in S[k - 1] PROVE g[k] \in S[k]
    OBVIOUS
  <2>2. S[k - 1] = Nat /\ S[k] = Nat
    BY <1>1, <1>2
  <2>3. g[k - 1] + Len(fr[k]) + 1 \in Nat
    BY <1>4, <2>1, <2>2
  <2>4. QED
    BY <1>8, <2>2, <2>3
<1>10. g[0] \in S[0]
  BY <1>1, <1>2, <1>8
<1>11. \A k \in 0 .. n : g[k] \in S[k]
  BY <1>1, <1>9, <1>10, IterationStays
<1>12. g[n] \in Nat
  BY <1>1, <1>2, <1>11
<1>13. QED
  BY <1>12 DEF g, n

FillFrom(fr, nbytes) == [free |-> fr, extents |-> <<>>, remaining |-> nbytes, slab |-> 1]

\* However often the loops turn, what they have is what the lists have lost.
LEMMA FilledCarves ==
  ASSUME NEW fr, FreeLists(fr), NEW a \in Nat \ {0}, NEW nbytes \in Nat, NEW n \in Nat
  PROVE  (CHOOSE f : f = [i \in 0 .. n |-> IF i = 0 THEN FillFrom(fr, nbytes)
                                           ELSE FillStep(f[i - 1], a)])[n] \in Filling(fr, nbytes, a)
<1>. DEFINE b == FillFrom(fr, nbytes)
            S == [k \in 0 .. n |-> Filling(fr, nbytes, a)]
            F == [k \in 1 .. n |-> [st \in Filling(fr, nbytes, a) |-> FillStep(st, a)]]
            Solves(f) == f = [i \in 0 .. n |-> IF i = 0 THEN b ELSE FillStep(f[i - 1], a)]
            g == CHOOSE f : Solves(f)
<1>1. n \in Nat /\ \A k \in 1 .. n : k \in 0 .. n /\ k - 1 \in 0 .. n /\ k # 0
  OBVIOUS
<1>2. /\ \A k \in 0 .. n : S[k] = Filling(fr, nbytes, a)
      /\ \A k \in 1 .. n : \A st \in Filling(fr, nbytes, a) : F[k][st] = FillStep(st, a)
  OBVIOUS
<1>3. b \in Filling(fr, nbytes, a)
  <2>1. Carved(fr, fr, <<>>, a)
    BY CarvedNothing
  <2>2. fr \in [Slab -> Seq(BlockSet)] /\ <<>> \in Seq(ExtentSet)
    BY DEF FreeLists
  <2>3. /\ b \in [free : [Slab -> Seq(BlockSet)], extents : Seq(ExtentSet), remaining : Nat, slab : Nat \ {0}]
        /\ b.free = fr /\ b.extents = <<>> /\ b.remaining = nbytes
    BY <2>2 DEF FillFrom
  <2>4. Len(BytesOf(<<>>)) + nbytes = nbytes
    BY BytesOfNone
  <2>5. QED
    BY <2>1, <2>3, <2>4 DEF Filling
<1>. HIDE DEF S, F, b
<1>4. \A st \in Filling(fr, nbytes, a) : FillStep(st, a) \in Filling(fr, nbytes, a)
  BY FillStepCarves
<1>5. \E f : Solves(f)
  <2>1. b \in S[0]
    BY <1>1, <1>2, <1>3
  <2>2. \A k \in 1 .. n : \A st \in S[k - 1] : F[k][st] \in S[k]
    BY <1>1, <1>2, <1>4
  <2>3. PICK f : Iterates(f, n, b, F, S)
    BY <1>1, <2>1, <2>2, IterationExists
  <2>4. /\ f = [k \in 0 .. n |-> f[k]] /\ f[0] = b
        /\ \A k \in 1 .. n : f[k] = F[k][f[k - 1]]
        /\ \A k \in 0 .. n : f[k] \in S[k]
    BY <2>3, Zenon DEF Iterates
  <2>5. \A k \in 0 .. n : f[k] = IF k = 0 THEN b ELSE FillStep(f[k - 1], a)
    <3>1. SUFFICES ASSUME NEW k \in 0 .. n, k # 0 PROVE f[k] = FillStep(f[k - 1], a)
      BY <2>4
    <3>2. k \in 1 .. n /\ k - 1 \in 0 .. n
      BY <1>1, <3>1
    <3>3. f[k - 1] \in Filling(fr, nbytes, a) /\ f[k] = F[k][f[k - 1]]
      BY <1>2, <2>4, <3>2
    <3>4. QED
      BY <1>2, <3>2, <3>3
  <2>6. [k \in 0 .. n |-> f[k]] = [k \in 0 .. n |-> IF k = 0 THEN b ELSE FillStep(f[k - 1], a)]
    BY <2>5
  <2>7. Solves(f)
    BY <2>4, <2>6
  <2>8. QED
    BY <2>7
<1>6. Solves(g)
  BY <1>5
<1>. HIDE DEF g
<1>7. g[0] = b /\ \A k \in 1 .. n : g[k] = FillStep(g[k - 1], a)
  BY <1>1, <1>6
<1>8. \A k \in 1 .. n : g[k - 1] \in S[k - 1] => g[k] \in S[k]
  BY <1>1, <1>2, <1>4, <1>7
<1>9. g[0] \in S[0]
  BY <1>1, <1>2, <1>3, <1>7
<1>10. \A k \in 0 .. n : g[k] \in S[k]
  BY <1>1, <1>8, <1>9, IterationStays
<1>11. g[n] \in Filling(fr, nbytes, a)
  BY <1>1, <1>2, <1>10
<1>12. QED
  BY <1>11 DEF g, b

\* An attempt that found too little gives everything back.
LEMMA RollbackCarves ==
  ASSUME NEW fr, NEW nbytes, NEW a, NEW st \in Filling(fr, nbytes, a)
  PROVE  Carved(fr, Rollback(st), <<>>, a)
<1>. DEFINE r == ReleaseExtents(st.free, st.extents)
<1>1. /\ FreeLists(st.free) /\ st.extents \in Seq(ExtentSet) /\ Apart(st.extents)
      /\ \A s \in Slab : /\ Bytes(st.free[s]) \cap Owned(st.extents, s) = {}
                         /\ Bytes(st.free[s]) \cup Owned(st.extents, s) = Bytes(fr[s])
  BY DEF Filling, Carved
<1>2. ASSUME NEW i \in DOMAIN st.extents
      PROVE  SpanOf(st.extents[i]) \cap Bytes(st.free[st.extents[i].slab]) = {}
  <2>1. st.extents[i] \in ExtentSet /\ i \in 1 .. Len(st.extents)
    BY <1>1
  <2>2. st.extents[i].slab \in Slab
    BY <2>1, ExtentFacts
  <2>3. SpanOf(st.extents[i]) \subseteq Owned(st.extents, st.extents[i].slab)
    BY <2>1 DEF Owned, OwnedTo, SpanOf, Span
  <2>4. QED
    BY <1>1, <2>2, <2>3
<1>3. FreeLists(r) /\ \A s \in Slab : Bytes(r[s]) = Bytes(st.free[s]) \cup Owned(st.extents, s)
  BY <1>1, <1>2, ReleasedAll
<1>. HIDE DEF r
<1>4. \A s \in Slab : Bytes(r[s]) = Bytes(fr[s])
  BY <1>1, <1>3
<1>5. Carved(fr, r, <<>>, a)
  BY <1>3, <1>4, CarvedNothing
<1>6. QED
  BY <1>5 DEF r, Rollback

LEMMA PlaceMultiCarves ==
  ASSUME NEW fr, FreeLists(fr), NEW nbytes \in Nat, NEW a \in Nat \ {0}
  PROVE  LET p == PlaceMulti(fr, nbytes, a)
         IN  /\ Carved(fr, p.free, p.extents, a)
             /\ p.extents # <<>> => Len(BytesOf(p.extents)) = nbytes
<1>. DEFINE n == (CHOOSE f : Turns(fr, f))[Len(SlabSize)]
            end == (CHOOSE f : f = [i \in 0 .. n |-> IF i = 0 THEN FillFrom(fr, nbytes)
                                                     ELSE FillStep(f[i - 1], a)])[n]
            p == PlaceMulti(fr, nbytes, a)
<1>1. p = IF end.remaining # 0 THEN None(Rollback(end))
          ELSE [free |-> end.free, extents |-> end.extents]
  BY DEF PlaceMulti, Turns, FillFrom
<1>2. n \in Nat
  BY TurnsNumber
<1>. HIDE DEF n, p
<1>3. end \in Filling(fr, nbytes, a)
  BY <1>2, FilledCarves
<1>. HIDE DEF end
<1>4. CASE end.remaining # 0
  <2>1. p.free = Rollback(end) /\ p.extents = <<>>
    BY <1>1, <1>4 DEF None
  <2>2. Carved(fr, Rollback(end), <<>>, a)
    BY <1>3, RollbackCarves
  <2>3. QED
    BY <2>1, <2>2 DEF p
<1>5. CASE end.remaining = 0
  <2>1. p.free = end.free /\ p.extents = end.extents
    BY <1>1, <1>5
  <2>2. Carved(fr, end.free, end.extents, a) /\ Len(BytesOf(end.extents)) + 0 = nbytes /\ end.extents \in Seq(ExtentSet)
    BY <1>3, <1>5 DEF Filling
  <2>3. Len(BytesOf(end.extents)) = nbytes
    <3>1. BytesOf(end.extents) \in Seq(Location)
      BY <2>2, BytesLaid
    <3>2. QED
      BY <2>2, <3>1
  <2>4. QED
    BY <2>1, <2>2, <2>3 DEF p
<1>6. QED
  BY <1>4, <1>5

\* Whatever allocate finds, it is cut out of the free lists, aligned, and as long as
\* was asked for; when it finds nothing the lists cover what they covered.
LEMMA PlaceCarves ==
  ASSUME NEW fr, FreeLists(fr), NEW nbytes \in Nat, NEW a \in Nat \ {0}
  PROVE  LET p == Place(fr, nbytes, a)
         IN  /\ Carved(fr, p.free, p.extents, a)
             /\ nbytes = 0 \/ p.extents # <<>> => Len(BytesOf(p.extents)) = nbytes
<1>. DEFINE single == PlaceSingle(fr, nbytes, a)
            multi == PlaceMulti(fr, nbytes, a)
            p == Place(fr, nbytes, a)
<1>1. p = IF nbytes = 0 THEN None(fr)
          ELSE IF single.extents # <<>> THEN single ELSE multi
  BY DEF Place
<1>2. nbytes # 0 => /\ Carved(fr, single.free, single.extents, a)
                    /\ single.extents # <<>> => Len(BytesOf(single.extents)) = nbytes
  BY PlaceSingleCarves
<1>3. /\ Carved(fr, multi.free, multi.extents, a)
      /\ multi.extents # <<>> => Len(BytesOf(multi.extents)) = nbytes
  BY PlaceMultiCarves
<1>4. Carved(fr, fr, <<>>, a)
  BY CarvedNothing
<1>. HIDE DEF single, multi, p
<1>5. CASE nbytes = 0
  <2>1. p.free = fr /\ p.extents = <<>>
    BY <1>1, <1>5 DEF None
  <2>2. Len(BytesOf(<<>>)) = nbytes
    BY <1>5, BytesOfNone
  <2>3. QED
    BY <1>4, <2>1, <2>2 DEF p
<1>6. CASE nbytes # 0
  BY <1>1, <1>2, <1>3, <1>6 DEF p
<1>7. QED
  BY <1>5, <1>6

-----------------------------------------------------------------------------
(* The inductive invariant. *)

ExtentsOf(h) == records[h].extents

\* A tensor keeps what Carved says of the placement it came from.
TensorsInv ==
  \A h \in Live : /\ ExtentsOf(h) \in Seq(ExtentSet) /\ Apart(ExtentsOf(h))
                  /\ \A i \in DOMAIN ExtentsOf(h) :
                       \E a \in Alignments : Multiple(ExtentsOf(h)[i].off, a)

\* A tensor's extents have as many bytes as were asked for.
SizesInv == \A h \in Live : records[h].nbytes \in Nat /\ Len(BytesOf(ExtentsOf(h))) = records[h].nbytes

HandlesInv == next_handle \in Nat /\ \A h \in Live : h \in Nat /\ h < next_handle

\* No byte is in two places, and a byte is somewhere exactly if its slab has it.
SharedInv ==
  /\ \A s \in Slab : \A g, h \in Live :
       g # h => Owned(ExtentsOf(g), s) \cap Owned(ExtentsOf(h), s) = {}
  /\ \A s \in Slab : \A h \in Live : Owned(ExtentsOf(h), s) \cap Bytes(free[s]) = {}
  /\ \A s \in Slab : \A x \in Nat :
       x < SlabSize[s] <=> x \in Bytes(free[s]) \/ \E h \in Live : x \in Owned(ExtentsOf(h), s)

Inv == FreeLists(free) /\ HandlesInv /\ TensorsInv /\ SizesInv /\ SharedInv

LEMMA BytesOfOne ==
  ASSUME NEW n \in Nat, n > 0
  PROVE  <<Block(0, n)>> \in Seq(BlockSet) /\ \A x \in Nat : x \in Bytes(<<Block(0, n)>>) <=> x < n
<1>. DEFINE b == Block(0, n)
            t == <<b>>
<1>1. b \in BlockSet /\ b.off = 0 /\ EndOf(b) = n
  BY MadeBlock
<1>. HIDE DEF b
<1>2. t \in Seq(BlockSet) /\ DOMAIN t = {1} /\ t[1] = b
  BY <1>1
<1>. HIDE DEF t
<1>3. \A x \in Nat : x \in Bytes(t) <=> x < n
  BY <1>1, <1>2 DEF Bytes
<1>4. QED
  BY <1>2, <1>3 DEF t, b

LEMMA InitInv == Init => Inv
<1>1. SUFFICES ASSUME Init PROVE Inv
  OBVIOUS
<1>2. Live = {} /\ next_handle = 1
  BY <1>1 DEF Init, Live
<1>3. ASSUME NEW s \in Slab
      PROVE  /\ free[s] = <<Block(0, SlabSize[s])>> /\ SlabSize[s] \in Nat /\ SlabSize[s] > 0
             /\ free[s] \in Seq(BlockSet) /\ InOrder(free[s])
             /\ \A x \in Nat : x \in Bytes(free[s]) <=> x < SlabSize[s]
  <2>1. SlabSize[s] \in Nat /\ SlabSize[s] > 0
    BY AllocatorAssumption DEF Slab
  <2>2. free[s] = <<Block(0, SlabSize[s])>>
    BY <1>1 DEF Init
  <2>3. /\ free[s] \in Seq(BlockSet)
        /\ \A x \in Nat : x \in Bytes(free[s]) <=> x < SlabSize[s]
    BY <2>1, <2>2, BytesOfOne
  <2>4. DOMAIN free[s] = {1}
    BY <2>2
  <2>5. InOrder(free[s])
    BY <2>4 DEF InOrder
  <2>6. QED
    BY <2>1, <2>2, <2>3, <2>5
<1>4. FreeLists(free)
  <2>1. free = [s \in Slab |-> <<Block(0, SlabSize[s])>>]
    BY <1>1 DEF Init
  <2>2. free \in [Slab -> Seq(BlockSet)]
    BY <1>3, <2>1
  <2>3. QED
    BY <1>3, <2>2 DEF FreeLists
<1>5. HandlesInv /\ TensorsInv /\ SizesInv
  BY <1>2 DEF HandlesInv, TensorsInv, SizesInv
<1>6. SharedInv
  BY <1>2, <1>3 DEF SharedInv
<1>7. QED
  BY <1>4, <1>5, <1>6 DEF Inv

\* allocate: what the placement carves out of the free lists becomes the new
\* tensor's, and where it finds nothing only the lists' form may have changed.
LEMMA AllocateInv ==
  ASSUME Inv, NEW n \in Requests, NEW a \in Alignments, Allocate(n, a)
  PROVE  Inv'
<1>. DEFINE p == Place(free, n, a)
            x == p.extents
<1>1. n \in Nat /\ a \in Nat \ {0}
  BY AllocatorAssumption
<1>2. FreeLists(free) /\ HandlesInv /\ TensorsInv /\ SizesInv /\ SharedInv
  BY DEF Inv
<1>3. Carved(free, p.free, x, a) /\ (n = 0 \/ x # <<>> => Len(BytesOf(x)) = n)
  BY <1>1, <1>2, PlaceCarves
<1>4. /\ free' = p.free
      /\ \/ /\ n = 0 \/ x # <<>>
            /\ records' = [h \in Live \cup {next_handle} |->
                             IF h = next_handle THEN [nbytes |-> n, extents |-> x] ELSE records[h]]
            /\ next_handle' = next_handle + 1
         \/ /\ x = <<>>
            /\ UNCHANGED <<records, next_handle>>
  BY DEF Allocate
<1>. HIDE DEF p, x
<1>5. /\ FreeLists(free') /\ x \in Seq(ExtentSet) /\ Apart(x)
      /\ \A i \in DOMAIN x : Multiple(x[i].off, a)
      /\ \A s \in Slab : /\ Bytes(free'[s]) \cap Owned(x, s) = {}
                         /\ Bytes(free'[s]) \cup Owned(x, s) = Bytes(free[s])
  BY <1>3, <1>4 DEF Carved
<1>6. next_handle \in Nat /\ next_handle \notin Live
  BY <1>2 DEF HandlesInv
<1>7. CASE /\ n = 0 \/ x # <<>>
           /\ records' = [h \in Live \cup {next_handle} |->
                            IF h = next_handle THEN [nbytes |-> n, extents |-> x] ELSE records[h]]
           /\ next_handle' = next_handle + 1
  <2>1. /\ Live' = Live \cup {next_handle}
        /\ records'[next_handle].extents = x /\ records'[next_handle].nbytes = n
        /\ \A h \in Live : records'[h].extents = records[h].extents /\ records'[h].nbytes = records[h].nbytes
    BY <1>6, <1>7 DEF Live
  <2>2. HandlesInv'
    BY <1>2, <1>6, <1>7, <2>1 DEF HandlesInv
  <2>3. TensorsInv'
    <3>1. SUFFICES ASSUME NEW h \in Live'
                   PROVE  LET y == records'[h].extents
                          IN  /\ y \in Seq(ExtentSet) /\ Apart(y)
                              /\ \A i \in DOMAIN y : \E b \in Alignments : Multiple(y[i].off, b)
      BY DEF TensorsInv, ExtentsOf
    <3>2. CASE h = next_handle
      BY <1>5, <2>1, <3>2
    <3>3. CASE h # next_handle
      BY <1>2, <2>1, <3>3 DEF TensorsInv, ExtentsOf
    <3>4. QED
      BY <3>2, <3>3
  <2>4. SharedInv'
    <3>. DEFINE y(h) == records'[h].extents
    <3>1. /\ \A s \in Slab : \A g, h \in Live :
               g # h => Owned(y(g), s) \cap Owned(y(h), s) = {}
          /\ \A s \in Slab : \A h \in Live : Owned(y(h), s) \cap Bytes(free[s]) = {}
          /\ \A s \in Slab : \A z \in Nat :
               z < SlabSize[s] <=> z \in Bytes(free[s]) \/ \E h \in Live : z \in Owned(y(h), s)
      BY <1>2, <2>1 DEF SharedInv, ExtentsOf
    <3>2. y(next_handle) = x
      BY <2>1
    <3>. HIDE DEF y
    <3>3. ASSUME NEW s \in Slab, NEW g \in Live', NEW h \in Live', g # h
          PROVE  Owned(y(g), s) \cap Owned(y(h), s) = {}
      BY <1>5, <2>1, <3>1, <3>2, <3>3
    <3>4. ASSUME NEW s \in Slab, NEW h \in Live'
          PROVE  Owned(y(h), s) \cap Bytes(free'[s]) = {}
      BY <1>5, <2>1, <3>1, <3>2
    <3>5. ASSUME NEW s \in Slab, NEW z \in Nat
          PROVE  z < SlabSize[s] <=> z \in Bytes(free'[s]) \/ \E h \in Live' : z \in Owned(y(h), s)
      BY <1>5, <2>1, <3>1, <3>2
    <3>6. QED
      BY <3>3, <3>4, <3>5 DEF SharedInv, ExtentsOf, y
  <2>5. SizesInv'
    <3>1. SUFFICES ASSUME NEW h \in Live'
                   PROVE  records'[h].nbytes \in Nat /\ Len(BytesOf(records'[h].extents)) = records'[h].nbytes
      BY DEF SizesInv, ExtentsOf
    <3>2. CASE h = next_handle
      BY <1>1, <1>3, <1>7, <2>1, <3>2
    <3>3. CASE h # next_handle
      BY <1>2, <2>1, <3>3 DEF SizesInv, ExtentsOf
    <3>4. QED
      BY <3>2, <3>3
  <2>6. QED
    BY <1>5, <2>2, <2>3, <2>4, <2>5 DEF Inv
<1>8. CASE x = <<>> /\ UNCHANGED <<records, next_handle>>
  <2>1. \A s \in Slab : Bytes(free'[s]) = Bytes(free[s])
    <3>1. \A s : Owned(x, s) = {}
      BY <1>8 DEF Owned, OwnedTo
    <3>2. QED
      BY <1>5, <3>1
  <2>2. Live' = Live /\ records' = records /\ \A h : ExtentsOf(h)' = ExtentsOf(h)
    BY <1>8 DEF Live, ExtentsOf
  <2>3. HandlesInv' /\ TensorsInv' /\ SizesInv'
    BY <1>2, <1>8, <2>2 DEF HandlesInv, TensorsInv, SizesInv
  <2>4. SharedInv'
    BY <1>2, <2>1, <2>2 DEF SharedInv
  <2>5. QED
    BY <1>5, <2>3, <2>4 DEF Inv
<1>9. QED
  BY <1>4, <1>7, <1>8

\* free: the tensor's extents go back to their slabs' lists.
LEMMA FreeInv ==
  ASSUME Inv, NEW handle, Free(handle)
  PROVE  Inv'
<1>. DEFINE x == ExtentsOf(handle)
            r == ReleaseExtents(free, x)
<1>1. FreeLists(free) /\ HandlesInv /\ TensorsInv /\ SizesInv /\ SharedInv
  BY DEF Inv
<1>2. CASE /\ handle \in Live
           /\ free' = r
           /\ records' = [h \in Live \ {handle} |-> records[h]]
           /\ UNCHANGED next_handle
  <2>1. x \in Seq(ExtentSet) /\ Apart(x)
    BY <1>1, <1>2 DEF TensorsInv
  <2>2. \A s \in Slab : Owned(x, s) \cap Bytes(free[s]) = {}
    BY <1>1, <1>2 DEF SharedInv
  <2>. HIDE DEF x
  <2>3. ASSUME NEW i \in DOMAIN x
        PROVE  SpanOf(x[i]) \cap Bytes(free[x[i].slab]) = {}
    <3>1. x[i] \in ExtentSet /\ i \in 1 .. Len(x)
      BY <2>1
    <3>2. x[i].slab \in Slab
      BY <3>1, ExtentFacts
    <3>3. SpanOf(x[i]) \subseteq Owned(x, x[i].slab)
      BY <3>1 DEF Owned, OwnedTo, SpanOf, Span
    <3>4. QED
      BY <2>2, <3>2, <3>3
  <2>4. FreeLists(r) /\ \A s \in Slab : Bytes(r[s]) = Bytes(free[s]) \cup Owned(x, s)
    BY <1>1, <2>1, <2>3, ReleasedAll
  <2>. HIDE DEF r
  <2>5. FreeLists(free') /\ \A s \in Slab : Bytes(free'[s]) = Bytes(free[s]) \cup Owned(x, s)
    BY <1>2, <2>4
  <2>6. /\ Live' = Live \ {handle}
        /\ \A h \in Live : h # handle => ExtentsOf(h)' = ExtentsOf(h) /\ records'[h] = records[h]
    BY <1>2 DEF Live, ExtentsOf
  <2>7. HandlesInv' /\ TensorsInv' /\ SizesInv'
    BY <1>1, <1>2, <2>6 DEF HandlesInv, TensorsInv, SizesInv
  <2>8. SharedInv'
    <3>1. /\ \A s \in Slab : \A g, h \in Live :
               g # h => Owned(ExtentsOf(g), s) \cap Owned(ExtentsOf(h), s) = {}
          /\ \A s \in Slab : \A h \in Live : Owned(ExtentsOf(h), s) \cap Bytes(free[s]) = {}
          /\ \A s \in Slab : \A y \in Nat :
               y < SlabSize[s] <=> y \in Bytes(free[s]) \/ \E h \in Live : y \in Owned(ExtentsOf(h), s)
      BY <1>1 DEF SharedInv
    <3>2. handle \in Live /\ x = ExtentsOf(handle)
      BY <1>2 DEF x
    <3>3. ASSUME NEW s \in Slab, NEW g \in Live', NEW h \in Live', g # h
          PROVE  Owned(ExtentsOf(g)', s) \cap Owned(ExtentsOf(h)', s) = {}
      BY <2>6, <3>1, <3>3
    <3>4. ASSUME NEW s \in Slab, NEW h \in Live'
          PROVE  Owned(ExtentsOf(h)', s) \cap Bytes(free'[s]) = {}
      BY <2>5, <2>6, <3>1, <3>2
    <3>5. ASSUME NEW s \in Slab, NEW y \in Nat
          PROVE  y < SlabSize[s] <=> y \in Bytes(free'[s]) \/ \E h \in Live' : y \in Owned(ExtentsOf(h)', s)
      BY <2>5, <2>6, <3>1, <3>2
    <3>6. QED
      BY <3>3, <3>4, <3>5 DEF SharedInv
  <2>9. QED
    BY <2>5, <2>7, <2>8 DEF Inv
<1>3. CASE UNCHANGED <<free, records, next_handle>>
  <2>1. Live' = Live /\ \A h : ExtentsOf(h)' = ExtentsOf(h)
    BY <1>3 DEF Live, ExtentsOf
  <2>2. QED
    BY <1>1, <1>3, <2>1 DEF Inv, HandlesInv, TensorsInv, SizesInv, SharedInv
<1>4. QED
  BY <1>2, <1>3 DEF Free, ExtentsOf

\* The lists, the handles and the tensors account for every byte after any sequence
\* of allocate and free (board/memory/allocator.py).
THEOREM InvHolds == Spec => []Inv
<1>1. Init => Inv
  BY InitInv
<1>2. Inv /\ [Next]_vars => Inv'
  <2>1. SUFFICES ASSUME Inv, [Next]_vars PROVE Inv'
    OBVIOUS
  <2>2. ASSUME NEW n \in Requests, NEW a \in Alignments, Allocate(n, a) PROVE Inv'
    BY <2>1, <2>2, AllocateInv
  <2>3. ASSUME NEW h \in 1 .. MAX_HANDLES, Free(h) PROVE Inv'
    BY <2>1, <2>3, FreeInv
  <2>4. CASE UNCHANGED vars
    <3>1. free' = free /\ next_handle' = next_handle /\ records' = records
      BY <2>4 DEF vars
    <3>2. Live' = Live /\ \A h : ExtentsOf(h)' = ExtentsOf(h)
      BY <3>1 DEF Live, ExtentsOf
    <3>3. QED
      BY <2>1, <3>1, <3>2 DEF Inv, HandlesInv, TensorsInv, SizesInv, SharedInv
  <2>5. QED
    BY <2>1, <2>2, <2>3, <2>4 DEF Next
<1>3. QED
  BY <1>1, <1>2, PTL DEF Spec

\* What Inv says of one block and of one extent.
LEMMA BlockInside ==
  ASSUME Inv, NEW s \in Slab, NEW k \in DOMAIN free[s]
  PROVE  free[s][k] \in BlockSet /\ EndOf(free[s][k]) <= SlabSize[s]
<1>. DEFINE b == free[s][k]
            x == EndOf(b) - 1
<1>1. b \in BlockSet
  BY DEF Inv, FreeLists
<1>2. b.off \in Nat /\ EndOf(b) \in Nat /\ b.off < EndOf(b)
  BY <1>1, BlockFacts
<1>. HIDE DEF b
<1>3. x \in Nat /\ b.off <= x /\ x < EndOf(b)
  BY <1>2
<1>4. x \in Bytes(free[s])
  BY <1>3 DEF Bytes, b
<1>5. x < SlabSize[s]
  BY <1>3, <1>4 DEF Inv, SharedInv
<1>6. SlabSize[s] \in Nat
  BY AllocatorAssumption DEF Slab
<1>7. QED
  BY <1>1, <1>2, <1>5, <1>6 DEF b

LEMMA ExtentInside ==
  ASSUME Inv, NEW h \in Live, NEW i \in DOMAIN ExtentsOf(h)
  PROVE  LET e == ExtentsOf(h)[i]
         IN  /\ e \in ExtentSet /\ e.off + e.nbytes <= SlabSize[e.slab]
             /\ SpanOf(e) \subseteq Owned(ExtentsOf(h), e.slab)
<1>. DEFINE e == ExtentsOf(h)[i]
            x == (e.off + e.nbytes) - 1
<1>1. ExtentsOf(h) \in Seq(ExtentSet)
  BY DEF Inv, TensorsInv
<1>2. e \in ExtentSet /\ i \in 1 .. Len(ExtentsOf(h))
  BY <1>1
<1>3. e.slab \in Slab /\ e.off \in Nat /\ e.nbytes \in Nat /\ e.nbytes > 0
  BY <1>2, ExtentFacts
<1>4. SpanOf(e) \subseteq Owned(ExtentsOf(h), e.slab)
  BY <1>2 DEF Owned, OwnedTo, SpanOf, Span
<1>. HIDE DEF e
<1>5. x \in Nat /\ x \in SpanOf(e)
  BY <1>3 DEF SpanOf, Span
<1>6. x < SlabSize[e.slab]
  BY <1>3, <1>4, <1>5 DEF Inv, SharedInv
<1>7. SlabSize[e.slab] \in Nat
  BY <1>3, AllocatorAssumption DEF Slab
<1>8. QED
  BY <1>2, <1>3, <1>4, <1>6, <1>7 DEF e

\* Free blocks and the extents of tensors lie inside their slabs and are not
\* empty (allocate and free, board/memory/allocator.py), for any slabs.
THEOREM TypeCorrect == Spec => []TypeOK
<1>1. Inv => TypeOK
  <2>1. SUFFICES ASSUME Inv PROVE TypeOK
    OBVIOUS
  <2>2. ASSUME NEW s \in Slab, NEW k \in DOMAIN free[s]
        PROVE  free[s][k].off >= 0 /\ free[s][k].size > 0 /\ EndOf(free[s][k]) <= SlabSize[s]
    <3>1. free[s][k] \in BlockSet /\ EndOf(free[s][k]) <= SlabSize[s]
      BY <2>1, BlockInside
    <3>2. QED
      BY <3>1, BlockFacts
  <2>3. ASSUME NEW h \in Live, NEW i \in DOMAIN records[h].extents
        PROVE  LET e == records[h].extents[i]
               IN  e.slab \in Slab /\ e.off >= 0 /\ e.nbytes > 0 /\ e.off + e.nbytes <= SlabSize[e.slab]
    <3>. DEFINE e == records[h].extents[i]
    <3>1. e \in ExtentSet /\ e.off + e.nbytes <= SlabSize[e.slab]
      BY <2>1, ExtentInside DEF ExtentsOf
    <3>. HIDE DEF e
    <3>2. e.slab \in Slab /\ e.off >= 0 /\ e.nbytes > 0
      BY <3>1, ExtentFacts
    <3>3. QED
      BY <3>1, <3>2 DEF e
  <2>4. QED
    BY <2>2, <2>3 DEF TypeOK
<1>2. QED
  BY <1>1, InvHolds, PTL

\* The free lists stay sorted and coalesced through every allocation, release and
\* rolled back attempt (_take, _release, _place_multi).
THEOREM StayCoalesced == Spec => []Coalesced
<1>1. Inv => Coalesced
  <2>1. SUFFICES ASSUME Inv, NEW s \in Slab, NEW k \in 1 .. Len(free[s]) - 1
                 PROVE  EndOf(free[s][k]) < free[s][k + 1].off
    BY DEF Coalesced
  <2>2. free[s] \in Seq(BlockSet) /\ InOrder(free[s])
    BY <2>1 DEF Inv, FreeLists
  <2>3. k \in DOMAIN free[s] /\ k + 1 \in DOMAIN free[s] /\ k < k + 1
    BY <2>2
  <2>4. QED
    BY <2>2, <2>3 DEF InOrder
<1>2. QED
  BY <1>1, InvHolds, PTL

\* Blocks of one list that hold byte x.
LEMMA FreeOnce ==
  ASSUME Inv, NEW s \in Slab, NEW x \in Nat
  PROVE  LET inFree == {k \in DOMAIN free[s] : free[s][k].off <= x /\ x < EndOf(free[s][k])}
         IN  Cardinality(inFree) = IF x \in Bytes(free[s]) THEN 1 ELSE 0
<1>. DEFINE Holds(k) == free[s][k].off <= x /\ x < EndOf(free[s][k])
            inFree == {k \in DOMAIN free[s] : Holds(k)}
<1>1. free[s] \in Seq(BlockSet) /\ InOrder(free[s])
  BY DEF Inv, FreeLists
<1>2. CASE x \notin Bytes(free[s])
  <2>1. inFree = {}
    BY <1>2 DEF Bytes
  <2>2. QED
    BY <1>2, <2>1, FS_EmptySet
<1>3. CASE x \in Bytes(free[s])
  <2>1. PICK k \in DOMAIN free[s] : Holds(k)
    BY <1>3 DEF Bytes
  <2>2. ASSUME NEW j \in DOMAIN free[s], Holds(j), j # k PROVE FALSE
    <3>1. free[s][j] \in BlockSet /\ free[s][k] \in BlockSet /\ j \in Nat /\ k \in Nat
      BY <1>1, <2>1
    <3>2. /\ free[s][j].off \in Nat /\ EndOf(free[s][j]) \in Nat
          /\ free[s][k].off \in Nat /\ EndOf(free[s][k]) \in Nat
      BY <3>1, BlockFacts
    <3>3. j < k \/ k < j
      BY <2>2, <3>1
    <3>4. EndOf(free[s][j]) < free[s][k].off \/ EndOf(free[s][k]) < free[s][j].off
      BY <1>1, <2>1, <3>3 DEF InOrder
    <3>5. QED
      BY <2>1, <2>2, <3>2, <3>4
  <2>. HIDE DEF Holds
  <2>3. inFree = {k}
    BY <2>1, <2>2
  <2>4. QED
    BY <1>3, <2>3, FS_Singleton DEF Holds
<1>4. QED
  BY <1>2, <1>3

\* Extents of tensors that hold byte x of slab s.
LEMMA LiveOnce ==
  ASSUME Inv, NEW s \in Slab, NEW x \in Nat
  PROVE  LET inLive == {hi \in UNION {{h} \X DOMAIN records[h].extents : h \in Live} :
                          LET e == records[hi[1]].extents[hi[2]]
                          IN  e.slab = s /\ e.off <= x /\ x < e.off + e.nbytes}
         IN  Cardinality(inLive) = IF \E h \in Live : x \in Owned(ExtentsOf(h), s) THEN 1 ELSE 0
<1>. DEFINE Holds(h, i) == LET e == records[h].extents[i]
                           IN  e.slab = s /\ e.off <= x /\ x < e.off + e.nbytes
            places == UNION {{h} \X DOMAIN records[h].extents : h \in Live}
            inLive == {hi \in places : Holds(hi[1], hi[2])}
<1>1. \A h, i : Holds(h, i) <=> ExtentsOf(h)[i].slab = s /\ x \in SpanOf(ExtentsOf(h)[i])
  BY DEF ExtentsOf, SpanOf, Span
<1>2. \A h \in Live : DOMAIN ExtentsOf(h) = 1 .. Len(ExtentsOf(h)) /\ Apart(ExtentsOf(h))
  BY DEF Inv, TensorsInv
<1>3. \A hi : hi \in places <=> \E h \in Live : \E i \in DOMAIN ExtentsOf(h) : hi = <<h, i>>
  BY DEF ExtentsOf
<1>. HIDE DEF Holds, places
<1>4. \A h \in Live : x \in Owned(ExtentsOf(h), s) <=> \E i \in DOMAIN ExtentsOf(h) : Holds(h, i)
  BY <1>1, <1>2 DEF Owned, OwnedTo
<1>5. \A hi : hi \in inLive <=> \E h \in Live : \E i \in DOMAIN ExtentsOf(h) : hi = <<h, i>> /\ Holds(h, i)
  <2>1. \A h, i : <<h, i>>[1] = h /\ <<h, i>>[2] = i
    OBVIOUS
  <2>2. QED
    BY <1>3, <2>1
<1>. HIDE DEF inLive
<1>6. CASE ~ \E h \in Live : x \in Owned(ExtentsOf(h), s)
  <2>1. inLive = {}
    BY <1>4, <1>5, <1>6
  <2>2. Cardinality(inLive) = 0
    BY <2>1, FS_EmptySet
  <2>3. QED
    BY <1>6, <2>2 DEF inLive, Holds, places
<1>7. CASE \E h \in Live : x \in Owned(ExtentsOf(h), s)
  <2>1. PICK h \in Live : x \in Owned(ExtentsOf(h), s)
    BY <1>7
  <2>2. PICK i \in DOMAIN ExtentsOf(h) : Holds(h, i)
    BY <1>4, <2>1
  <2>3. ASSUME NEW g \in Live, NEW j \in DOMAIN ExtentsOf(g), Holds(g, j) PROVE g = h /\ j = i
    <3>1. x \in Owned(ExtentsOf(g), s)
      BY <1>4, <2>3
    <3>2. g = h
      BY <2>1, <3>1 DEF Inv, SharedInv
    <3>3. j = i
      BY <1>1, <1>2, <2>2, <2>3, <3>2 DEF Apart
    <3>4. QED
      BY <3>2, <3>3
  <2>4. inLive = {<<h, i>>}
    BY <1>5, <2>2, <2>3
  <2>5. Cardinality(inLive) = 1
    BY <2>4, FS_Singleton
  <2>6. QED
    BY <1>7, <2>5 DEF inLive, Holds, places
<1>8. QED
  BY <1>6, <1>7

\* Every byte of every slab is in exactly one free block or one live tensor, once:
\* no allocation, release or rolled back attempt leaks a byte or gives it out twice.
THEOREM BytesPartitioned == Spec => []Partition
<1>1. Inv => Partition
  <2>1. SUFFICES ASSUME Inv, NEW s \in Slab, NEW x \in 0 .. SlabSize[s] - 1
                 PROVE  LET inFree == {k \in DOMAIN free[s] : free[s][k].off <= x /\ x < EndOf(free[s][k])}
                            inLive == {hi \in UNION {{h} \X DOMAIN records[h].extents : h \in Live} :
                                         LET e == records[hi[1]].extents[hi[2]]
                                         IN  e.slab = s /\ e.off <= x /\ x < e.off + e.nbytes}
                        IN  Cardinality(inFree) + Cardinality(inLive) = 1
    BY DEF Partition
  <2>. DEFINE inFree == {k \in DOMAIN free[s] : free[s][k].off <= x /\ x < EndOf(free[s][k])}
              inLive == {hi \in UNION {{h} \X DOMAIN records[h].extents : h \in Live} :
                           LET e == records[hi[1]].extents[hi[2]]
                           IN  e.slab = s /\ e.off <= x /\ x < e.off + e.nbytes}
  <2>2. SlabSize[s] \in Nat
    BY AllocatorAssumption DEF Slab
  <2>3. x \in Nat /\ x < SlabSize[s]
    BY <2>2
  <2>4. Cardinality(inFree) = IF x \in Bytes(free[s]) THEN 1 ELSE 0
    BY <2>1, <2>3, FreeOnce
  <2>5. Cardinality(inLive) = IF \E h \in Live : x \in Owned(ExtentsOf(h), s) THEN 1 ELSE 0
    BY <2>1, <2>3, LiveOnce
  <2>6. x \in Bytes(free[s]) \/ \E h \in Live : x \in Owned(ExtentsOf(h), s)
    BY <2>1, <2>3 DEF Inv, SharedInv
  <2>7. ~(x \in Bytes(free[s]) /\ \E h \in Live : x \in Owned(ExtentsOf(h), s))
    BY <2>1 DEF Inv, SharedInv
  <2>. HIDE DEF inFree, inLive
  <2>8. Cardinality(inFree) + Cardinality(inLive) = 1
    BY <2>4, <2>5, <2>6, <2>7
  <2>9. QED
    BY <2>8 DEF inFree, inLive
<1>2. QED
  BY <1>1, InvHolds, PTL

-----------------------------------------------------------------------------
(* Cache lines. *)

LEMMA ProductFacts ==
  ASSUME NEW a \in Nat, NEW b \in Nat, NEW c \in Nat
  PROVE  /\ a * b \in Nat /\ a * b = b * a
         /\ (a * b) * c = a * (b * c)
         /\ b <= c => a * b <= a * c
OBVIOUS

LEMMA MultipleOfMultiple ==
  ASSUME NEW off \in Nat, NEW a \in Nat, NEW l \in Nat \ {0}, Multiple(off, a), (a % l) = 0
  PROVE  Multiple(off, l)
<1>1. PICK q \in Nat : off = q * a
  BY DEF Multiple
<1>. DEFINE c == a \div l
<1>2. c \in Nat /\ a = l * c + (a % l)
  OBVIOUS
<1>. HIDE DEF c
<1>3. a = l * c /\ l * c = c * l
  BY <1>2, ProductFacts
<1>4. off = q * (c * l) /\ q * c \in Nat /\ (q * c) * l = q * (c * l)
  BY <1>1, <1>2, <1>3, ProductFacts
<1>5. QED
  BY <1>4 DEF Multiple

\* What ends before the start of a line is in earlier lines.
LEMMA EarlierLine ==
  ASSUME NEW l \in Nat \ {0}, NEW x \in Nat, NEW y \in Nat, x < y, Multiple(y, l)
  PROVE  (x \div l) < (y \div l)
<1>1. PICK m \in Nat : y = m * l
  BY DEF Multiple
<1>. DEFINE d == x \div l
            e == y \div l
<1>2. d \in Nat /\ x = l * d + (x % l) /\ (x % l) \in Nat /\ (x % l) < l
  OBVIOUS
<1>3. e \in Nat /\ y = l * e + (y % l) /\ (y % l) \in Nat /\ (y % l) < l
  OBVIOUS
<1>. HIDE DEF d, e
<1>4. l * d \in Nat /\ l * e \in Nat /\ l * m \in Nat /\ l * m = m * l
  BY <1>1, <1>2, <1>3, ProductFacts
<1>5. m <= e
  <2>1. SUFFICES ASSUME e + 1 <= m PROVE FALSE
    BY <1>1, <1>3
  <2>2. l * (e + 1) <= l * m
    BY <1>1, <1>3, <2>1, ProductFacts
  <2>3. l * (e + 1) = l * e + l
    BY <1>3
  <2>. DEFINE P == l * e
              Q == l * m
              R == l * (e + 1)
  <2>4. R <= Q /\ R = P + l /\ Q = y /\ y = P + (y % l) /\ P \in Nat
    BY <1>1, <1>3, <1>4, <2>2, <2>3
  <2>. HIDE DEF P, Q, R
  <2>5. QED
    BY <1>3, <2>4
<1>6. d < m
  <2>1. SUFFICES ASSUME m <= d PROVE FALSE
    BY <1>1, <1>2
  <2>2. l * m <= l * d
    BY <1>1, <1>2, <2>1, ProductFacts
  <2>. DEFINE P == l * d
              Q == l * m
  <2>3. Q <= P /\ Q = y /\ x = P + (x % l) /\ P \in Nat
    BY <1>1, <1>2, <1>4, <2>2
  <2>. HIDE DEF P, Q
  <2>4. QED
    BY <1>2, <2>3
<1>7. d < e
  BY <1>1, <1>2, <1>3, <1>5, <1>6
<1>8. QED
  BY <1>7 DEF d, e

\* Every alignment that is asked for is a whole number of cache lines.
WholeLines == \A a \in Alignments : (a % LINE) = 0

\* As long as it is, no two tensors have bytes in one cache line, which a flush or
\* an invalidation of either rounds out to (board/memory/slabs.py).
THEOREM LinesStayPrivate ==
  ASSUME WholeLines
  PROVE  Spec => []LinesPrivate
<1>1. Inv => LinesPrivate
  <2>1. SUFFICES ASSUME Inv, NEW g \in Live, NEW h \in Live, g # h,
                        NEW i \in DOMAIN ExtentsOf(g), NEW j \in DOMAIN ExtentsOf(h),
                        ExtentsOf(g)[i].slab = ExtentsOf(h)[j].slab
                 PROVE  LET e == ExtentsOf(g)[i]
                            f == ExtentsOf(h)[j]
                        IN  \/ (e.off + e.nbytes - 1) \div LINE < f.off \div LINE
                            \/ (f.off + f.nbytes - 1) \div LINE < e.off \div LINE
    BY DEF LinesPrivate, ExtentsOf
  <2>. DEFINE e == ExtentsOf(g)[i]
              f == ExtentsOf(h)[j]
  <2>2. /\ e \in ExtentSet /\ SpanOf(e) \subseteq Owned(ExtentsOf(g), e.slab)
        /\ f \in ExtentSet /\ SpanOf(f) \subseteq Owned(ExtentsOf(h), f.slab)
    BY <2>1, ExtentInside
  <2>3. /\ e.slab \in Slab /\ e.off \in Nat /\ e.nbytes \in Nat /\ e.nbytes > 0
        /\ f.slab \in Slab /\ f.off \in Nat /\ f.nbytes \in Nat /\ f.nbytes > 0
    BY <2>2, ExtentFacts
  <2>4. SpanOf(e) \cap SpanOf(f) = {}
    BY <2>1, <2>2, <2>3 DEF Inv, SharedInv
  <2>5. Multiple(e.off, LINE) /\ Multiple(f.off, LINE)
    <3>1. \E a \in Alignments : Multiple(e.off, a)
      BY <2>1 DEF Inv, TensorsInv
    <3>2. \E a \in Alignments : Multiple(f.off, a)
      BY <2>1 DEF Inv, TensorsInv
    <3>. HIDE DEF e, f
    <3>3. Alignments \subseteq Nat /\ LINE \in Nat \ {0}
      BY AllocatorAssumption
    <3>4. QED
      BY <2>3, <3>1, <3>2, <3>3, MultipleOfMultiple DEF WholeLines
  <2>. HIDE DEF e, f
  <2>. DEFINE x == e.off + e.nbytes - 1
              y == f.off + f.nbytes - 1
  <2>6. x \in Nat /\ y \in Nat /\ x + 1 = e.off + e.nbytes /\ y + 1 = f.off + f.nbytes
    BY <2>3
  <2>. HIDE DEF x, y
  <2>7. x < f.off \/ y < e.off
    <3>1. SUFFICES ASSUME f.off <= x, e.off <= y PROVE FALSE
      BY <2>3, <2>6
    <3>2. CASE e.off <= f.off
      <4>1. f.off \in SpanOf(e) /\ f.off \in SpanOf(f)
        BY <2>3, <2>6, <3>1, <3>2 DEF SpanOf, Span
      <4>2. QED
        BY <2>4, <4>1
    <3>3. CASE f.off <= e.off
      <4>1. e.off \in SpanOf(e) /\ e.off \in SpanOf(f)
        BY <2>3, <2>6, <3>1, <3>3 DEF SpanOf, Span
      <4>2. QED
        BY <2>4, <4>1
    <3>4. QED
      BY <2>3, <3>2, <3>3
  <2>8. LINE \in Nat \ {0}
    BY AllocatorAssumption
  <2>9. (x \div LINE) < (f.off \div LINE) \/ (y \div LINE) < (e.off \div LINE)
    BY <2>3, <2>5, <2>6, <2>7, <2>8, EarlierLine
  <2>10. QED
    BY <2>9 DEF x, y, e, f
<1>2. QED
  BY <1>1, InvHolds, PTL

-----------------------------------------------------------------------------
(* An attempt that fails leaves no trace: a list is determined by its bytes. *)

\* Where a and b agree up to k, the next block of a begins inside a later one of b,
\* and does not end before b's next if they begin together.
LEMMA NextCovered ==
  ASSUME NEW a, NEW b, FreeList(a), FreeList(b), Bytes(a) = Bytes(b), NEW k \in Nat,
         k + 1 <= Len(a), \A i \in 1 .. k : i <= Len(b) => a[i] = b[i]
  PROVE  /\ k + 1 <= Len(b) /\ b[k + 1].off <= a[k + 1].off
         /\ a[k + 1].off = b[k + 1].off => EndOf(b[k + 1]) <= EndOf(a[k + 1])
<1>. DEFINE c == a[k + 1]
            d == b[k + 1]
<1>1. /\ a \in Seq(BlockSet) /\ b \in Seq(BlockSet) /\ DOMAIN a = 1 .. Len(a) /\ DOMAIN b = 1 .. Len(b)
      /\ Len(a) \in Nat /\ Len(b) \in Nat
  BY DEF FreeList
<1>2. /\ \A i \in 1 .. Len(a) : a[i].off \in Nat /\ EndOf(a[i]) \in Nat /\ a[i].off < EndOf(a[i])
      /\ \A i \in 1 .. Len(b) : b[i].off \in Nat /\ EndOf(b[i]) \in Nat /\ b[i].off < EndOf(b[i])
  <2>1. /\ \A i \in 1 .. Len(a) : a[i] \in BlockSet
        /\ \A i \in 1 .. Len(b) : b[i] \in BlockSet
    BY <1>1
  <2>2. QED
    BY <2>1, BlockFacts
<1>3. k + 1 \in 1 .. Len(a)
  BY <1>1
<1>4. c.off \in Nat /\ EndOf(c) \in Nat /\ c.off < EndOf(c)
  BY <1>2, <1>3
<1>5. c.off \in Bytes(a)
  BY <1>1, <1>3, <1>4 DEF Bytes
<1>6. PICK j \in 1 .. Len(b) : b[j].off <= c.off /\ c.off < EndOf(b[j])
  BY <1>1, <1>5 DEF Bytes
<1>7. j >= k + 1
  <2>1. SUFFICES ASSUME j <= k PROVE FALSE
    BY <1>6
  <2>2. j \in 1 .. k /\ j \in 1 .. Len(a) /\ j < k + 1
    BY <1>1, <1>3, <2>1
  <2>3. a[j] = b[j]
    BY <1>6, <2>2
  <2>4. EndOf(a[j]) < c.off
    BY <1>1, <1>3, <2>2 DEF FreeList, InOrder
  <2>5. QED
    BY <1>2, <1>4, <1>6, <2>2, <2>3, <2>4
<1>8. k + 1 \in 1 .. Len(b)
  BY <1>1, <1>6, <1>7
<1>9. d.off \in Nat /\ EndOf(d) \in Nat /\ d.off < EndOf(d)
  BY <1>2, <1>8
<1>10. d.off <= c.off
  <2>1. CASE j = k + 1
    BY <1>6, <2>1
  <2>2. CASE j # k + 1
    <3>1. EndOf(d) < b[j].off
      BY <1>1, <1>6, <1>7, <1>8, <2>2 DEF FreeList, InOrder
    <3>2. b[j].off \in Nat
      BY <1>2, <1>6
    <3>. HIDE DEF c, d
    <3>3. QED
      BY ONLY <1>4, <1>6, <1>9, <3>1, <3>2
  <2>3. QED
    BY <2>1, <2>2
<1>11. ASSUME c.off = d.off, EndOf(c) < EndOf(d) PROVE FALSE
  <2>1. EndOf(c) \in Bytes(b)
    BY <1>1, <1>4, <1>8, <1>9, <1>11 DEF Bytes
  <2>2. PICK i \in 1 .. Len(a) : a[i].off <= EndOf(c) /\ EndOf(c) < EndOf(a[i])
    BY <1>1, <2>1 DEF Bytes
  <2>3. CASE i = k + 1
    BY <1>4, <2>2, <2>3
  <2>4. CASE i < k + 1
    <3>1. EndOf(a[i]) < c.off
      BY <1>1, <1>3, <2>2, <2>4 DEF FreeList, InOrder
    <3>2. QED
      BY <1>2, <1>4, <2>2, <3>1
  <2>5. CASE i > k + 1
    <3>1. EndOf(c) < a[i].off
      BY <1>1, <1>3, <2>2, <2>5 DEF FreeList, InOrder
    <3>2. QED
      BY <1>2, <1>4, <2>2, <3>1
  <2>6. QED
    BY <2>2, <2>3, <2>4, <2>5
<1>. HIDE DEF c, d
<1>12. k + 1 <= Len(b)
  BY <1>1, <1>8
<1>13. c.off = d.off => EndOf(d) <= EndOf(c)
  BY <1>4, <1>9, <1>11
<1>14. QED
  BY <1>10, <1>12, <1>13 DEF c, d

LEMMA SameBytesSameList ==
  ASSUME NEW a, NEW b, FreeList(a), FreeList(b), Bytes(a) = Bytes(b)
  PROVE  a = b
<1>. DEFINE Agree(k) == \A i \in 1 .. k : a[i] = b[i]
            T == {k \in Nat : k <= Len(a) => k <= Len(b) /\ Agree(k)}
<1>1. /\ a \in Seq(BlockSet) /\ b \in Seq(BlockSet) /\ Len(a) \in Nat /\ Len(b) \in Nat
  BY DEF FreeList
<1>2. 0 \in T
  BY <1>1
<1>3. ASSUME NEW k \in Nat, k \in T PROVE k + 1 \in T
  <2>1. SUFFICES ASSUME k + 1 <= Len(a) PROVE k + 1 <= Len(b) /\ Agree(k + 1)
    OBVIOUS
  <2>2. k <= Len(b) /\ Agree(k)
    BY <1>1, <1>3, <2>1
  <2>3. /\ k + 1 <= Len(b) /\ b[k + 1].off <= a[k + 1].off
        /\ a[k + 1].off = b[k + 1].off => EndOf(b[k + 1]) <= EndOf(a[k + 1])
    BY <2>1, <2>2, NextCovered
  <2>4. /\ a[k + 1].off <= b[k + 1].off
        /\ b[k + 1].off = a[k + 1].off => EndOf(a[k + 1]) <= EndOf(b[k + 1])
    <3>1. \A i \in 1 .. k : i <= Len(a) => b[i] = a[i]
      BY <2>2
    <3>2. QED
      BY <2>3, <3>1, NextCovered
  <2>5. a[k + 1] \in BlockSet /\ b[k + 1] \in BlockSet
    BY <1>1, <2>1, <2>3
  <2>6. a[k + 1].off = b[k + 1].off /\ a[k + 1].size = b[k + 1].size
    <3>1. /\ a[k + 1].off \in Nat /\ a[k + 1].size \in Nat /\ EndOf(a[k + 1]) \in Nat
          /\ EndOf(a[k + 1]) = a[k + 1].off + a[k + 1].size
          /\ b[k + 1].off \in Nat /\ b[k + 1].size \in Nat /\ EndOf(b[k + 1]) \in Nat
          /\ EndOf(b[k + 1]) = b[k + 1].off + b[k + 1].size
      BY <2>5, BlockFacts
    <3>2. a[k + 1].off = b[k + 1].off
      BY ONLY <2>3, <2>4, <3>1
    <3>3. EndOf(a[k + 1]) = EndOf(b[k + 1])
      BY ONLY <2>3, <2>4, <3>1, <3>2
    <3>4. \A o \in Nat, m \in Nat, n \in Nat : o + m = o + n => m = n
      OBVIOUS
    <3>5. a[k + 1].off + a[k + 1].size = a[k + 1].off + b[k + 1].size
      BY ONLY <3>1, <3>2, <3>3
    <3>6. a[k + 1].size = b[k + 1].size
      BY <3>1, <3>4, <3>5, Zenon
    <3>7. QED
      BY <3>2, <3>6
  <2>7. a[k + 1] = b[k + 1]
    BY <2>5, <2>6 DEF BlockSet
  <2>8. \A i \in 1 .. k + 1 : i \in 1 .. k \/ i = k + 1
    OBVIOUS
  <2>9. QED
    BY <2>2, <2>3, <2>7, <2>8
<1>. HIDE DEF T
<1>4. \A k \in Nat : k \in T
  BY <1>2, <1>3, NatSetInduction
<1>5. Len(a) <= Len(b) /\ Agree(Len(a))
  BY <1>1, <1>4 DEF T
<1>6. Len(b) <= Len(a)
  <2>1. SUFFICES ASSUME Len(a) + 1 <= Len(b) PROVE FALSE
    BY <1>1
  <2>2. \A i \in 1 .. Len(a) : i <= Len(a) => b[i] = a[i]
    BY <1>5
  <2>3. Len(a) + 1 <= Len(a)
    BY <1>1, <2>1, <2>2, NextCovered
  <2>4. QED
    BY <1>1, <2>3
<1>7. Len(a) = Len(b) /\ \A i \in 1 .. Len(a) : a[i] = b[i]
  BY <1>1, <1>5, <1>6
<1>8. QED
  BY <1>1, <1>7

\* An attempt that fails leaves the free lists exactly as they were: what
\* _place_multi took before it found too little goes back and merges to the same
\* blocks.
THEOREM FailureLeavesNoTrace == Spec => [][last'.code = "out_of_memory" => UNCHANGED free]_vars
<1>1. Inv /\ [Next]_vars => [last'.code = "out_of_memory" => UNCHANGED free]_vars
  <2>1. SUFFICES ASSUME Inv, Next, last'.code = "out_of_memory" PROVE free' = free
    BY DEF vars
  <2>2. ASSUME NEW h, Free(h) PROVE FALSE
    BY <2>1, <2>2 DEF Free
  <2>3. PICK n \in Requests, a \in Alignments : Allocate(n, a)
    BY <2>1, <2>2 DEF Next
  <2>. DEFINE p == Place(free, n, a)
  <2>4. n \in Nat /\ a \in Nat \ {0} /\ FreeLists(free)
    BY <2>1, AllocatorAssumption DEF Inv
  <2>5. Carved(free, p.free, p.extents, a)
    BY <2>4, PlaceCarves
  <2>6. free' = p.free /\ p.extents = <<>>
    BY <2>1, <2>3 DEF Allocate
  <2>. HIDE DEF p
  <2>7. \A s : Owned(<<>>, s) = {}
    BY DEF Owned, OwnedTo
  <2>8. FreeLists(free') /\ \A s \in Slab : Bytes(free'[s]) = Bytes(free[s])
    BY <2>5, <2>6, <2>7 DEF Carved
  <2>9. \A s \in Slab : FreeList(free[s]) /\ FreeList(free'[s])
    BY <2>4, <2>8 DEF FreeLists, FreeList
  <2>10. \A s \in Slab : free'[s] = free[s]
    BY <2>8, <2>9, SameBytesSameList
  <2>11. QED
    BY <2>4, <2>8, <2>10 DEF FreeLists
<1>2. QED
  BY <1>1, InvHolds, PTL DEF Spec

-----------------------------------------------------------------------------
(* Ranges of a tensor: _walk and slab_view. *)

\* The bytes B of a tensor, laid extent by extent; o has the places where they end.
Whole(ext, o, B) ==
  /\ ext \in Seq(ExtentSet) /\ Ends(ext, o) /\ B \in Seq(Location) /\ Len(B) = o[Len(ext)]
  /\ \A i, j \in 0 .. Len(ext) : j <= i => o[j] <= o[i]
  /\ \A i \in 1 .. Len(ext) : \A j \in 1 .. ext[i].nbytes :
       B[o[i - 1] + j] = <<ext[i].slab, ext[i].off + j - 1>>

\* _walk after k extents: the pieces so far are the range up to offset, which the walk has
\* brought to the end of the extent or of the range.
WalkedTo(o, B, a, z, k) ==
  {st \in [cursor : Nat, offset : Nat, remaining : Nat, pieces : Seq(ExtentSet)] :
     /\ st.cursor = o[k] /\ a <= st.offset /\ st.offset + st.remaining = z
     /\ st.remaining = 0 \/ st.offset >= o[k]
     /\ BytesOf(st.pieces) = SubSeq(B, a + 1, st.offset)}

\* The one piece of a range that extent m holds the start of.
Only(ext, o, m, a, z) == Extent(ext[m].slab, ext[m].off + (a - o[m - 1]), Lesser(z - a, o[m] - a))

\* Extent m has byte a of the tensor.
FirstIn(o, m, a) == o[m - 1] <= a /\ a < o[m]

\* What _walk has after k extents of a range that starts in extent m: its first piece, and
\* one piece only while the range has not left that extent.
Seen(st, ext, o, m, a, z, k) ==
  /\ k < m => st.pieces = <<>> /\ st.offset = a
  /\ k >= m => /\ st.pieces # <<>> /\ st.pieces[1] = Only(ext, o, m, a, z)
               /\ Len(st.pieces) = 1 <=> st.offset <= o[m]

\* A piece of count bytes brings a walk on.
LEMMA WalkNumbers ==
  ASSUME NEW a \in Nat, NEW z \in Nat, NEW off \in Nat, NEW rem \in Nat, NEW c \in Nat, NEW d \in Nat,
         NEW L \in Nat, NEW count \in Nat, z <= L, d <= L, a <= off, off + rem = z, count <= rem, count > 0, off >= c,
         off + count <= d
  PROVE  /\ off + count \in Nat /\ rem - count \in Nat /\ a <= off + count
         /\ (off + count) + (rem - count) = z /\ off + count <= L
         /\ off + 1 \in Int /\ off + count \in Int /\ (off + count) - (off + 1) + 1 = count
         /\ off + 1 <= off + count
         /\ \A i \in off + 1 .. off + count : i \in 1 .. L
         /\ a + 1 \in 1 .. L + 1 /\ off \in a + 1 - 1 .. L /\ off + count \in off .. L
OBVIOUS

\* One extent of _walk.
LEMMA WalkStepKeeps ==
  ASSUME NEW ext, NEW o, NEW B, Whole(ext, o, B), NEW a \in Nat, NEW z \in Nat, a <= z, z <= Len(B),
         NEW k \in 1 .. Len(ext), NEW st \in WalkedTo(o, B, a, z, k - 1)
  PROVE  /\ WalkStep(st, ext[k]) \in WalkedTo(o, B, a, z, k)
         /\ \A m \in 1 .. Len(ext) : a < z /\ FirstIn(o, m, a) /\ Seen(st, ext, o, m, a, z, k - 1)
                                       => Seen(WalkStep(st, ext[k]), ext, o, m, a, z, k)
<1>. DEFINE e == ext[k]
            off == st.offset
            rem == st.remaining
            c == o[k - 1]
            d == o[k]
            nb == e.nbytes
            local == Greater(0, off - c)
            count == Lesser(rem, nb - local)
            piece == Extent(e.slab, e.off + local, count)
            n == WalkStep(st, e)
            T == [cursor : Nat, offset : Nat, remaining : Nat, pieces : Seq(ExtentSet)]
<1>1. /\ st \in T /\ st.cursor = c /\ a <= off /\ off + rem = z /\ (rem = 0 \/ off >= c)
      /\ BytesOf(st.pieces) = SubSeq(B, a + 1, off)
  BY DEF WalkedTo
<1>2. off \in Nat /\ rem \in Nat /\ st.pieces \in Seq(ExtentSet)
  BY <1>1
<1>3. /\ ext \in Seq(ExtentSet) /\ o \in [0 .. Len(ext) -> Nat] /\ B \in Seq(Location)
      /\ \A i, j \in 0 .. Len(ext) : j <= i => o[j] <= o[i]
      /\ \A j \in 1 .. nb : B[c + j] = <<e.slab, e.off + j - 1>>
      /\ d = c + nb /\ Len(B) = o[Len(ext)]
  BY DEF Whole, Ends
<1>4. e \in ExtentSet /\ k \in 0 .. Len(ext) /\ k - 1 \in 0 .. Len(ext) /\ Len(ext) \in 0 .. Len(ext)
  BY <1>3
<1>5. e.slab \in Slab /\ e.off \in Nat /\ nb \in Nat /\ nb > 0
  BY <1>4, ExtentFacts
<1>6. c \in Nat /\ d \in Nat /\ d <= Len(B) /\ Len(B) \in Nat
  <2>1. c \in Nat /\ d \in Nat /\ o[Len(ext)] \in Nat
    BY <1>3, <1>4
  <2>2. k <= Len(ext)
    OBVIOUS
  <2>3. d <= o[Len(ext)]
    BY <1>3, <1>4, <2>2
  <2>4. QED
    BY <1>3, <2>1, <2>3
<1>7. n = IF off >= c + nb \/ count <= 0 THEN [st EXCEPT !.cursor = c + nb]
          ELSE [cursor |-> c + nb, offset |-> off + count, remaining |-> rem - count,
                pieces |-> Append(st.pieces, piece)]
  BY <1>1 DEF WalkStep
<1>8. /\ off >= c + nb \/ count <= 0 => rem = 0 \/ off >= c + nb
      /\ ~(off >= c + nb \/ count <= 0) =>
           /\ rem > 0 /\ off >= c /\ local = off - c /\ local \in Nat /\ count \in Nat /\ count > 0 /\ count <= rem
           /\ off + count <= c + nb /\ (count = rem \/ off + count = c + nb)
           /\ count = Lesser(rem, (c + nb) - off)
  <2>. HIDE DEF off, rem, c, nb, local, count
  <2>1. local = Greater(0, off - c) /\ count = Lesser(rem, nb - local) /\ (rem = 0 \/ off >= c)
    BY <1>1 DEF local, count
  <2>2. QED
    BY ONLY <1>2, <1>5, <1>6, <2>1 DEF Greater, Lesser
<1>. HIDE DEF e, off, rem, c, d, nb, local, count, piece, n
<1>9. /\ a \in Nat /\ z \in Nat /\ off \in Nat /\ rem \in Nat /\ c \in Nat /\ d \in Nat /\ nb \in Nat
       /\ Len(B) \in Nat /\ z <= Len(B) /\ d <= Len(B)
       /\ a <= off /\ off + rem = z /\ (rem = 0 \/ off >= c) /\ d = c + nb
  BY <1>1, <1>2, <1>3, <1>5, <1>6
<1>10. CASE off >= c + nb \/ count <= 0
  <2>1. n = [st EXCEPT !.cursor = d]
    BY <1>3, <1>7, <1>10
  <2>2. n \in T /\ n.cursor = d /\ n.offset = off /\ n.remaining = rem /\ n.pieces = st.pieces
    BY <1>1, <1>6, <2>1 DEF off, rem
  <2>3. n \in WalkedTo(o, B, a, z, k)
    BY <1>1, <1>3, <1>8, <1>10, <2>2 DEF WalkedTo, d
  <2>4. ASSUME NEW m \in 1 .. Len(ext), a < z, FirstIn(o, m, a), Seen(st, ext, o, m, a, z, k - 1)
        PROVE  Seen(n, ext, o, m, a, z, k)
    <3>1. CASE k = m
      <4>1. off = a
        BY <2>4, <3>1 DEF Seen, off
      <4>2. c <= a /\ a < d
        BY <2>4, <3>1 DEF FirstIn, c, d
      <4>3. FALSE
        BY ONLY <1>9, <1>8, <1>10, a < z, <4>1, <4>2
      <4>4. QED
        BY <4>3
    <3>2. CASE k # m
      <4>1. (k < m <=> k - 1 < m) /\ (k >= m <=> k - 1 >= m)
        BY <3>2
      <4>2. QED
        BY <2>2, <2>4, <4>1 DEF Seen, off
    <3>3. QED
      BY <3>1, <3>2
  <2>5. QED
    BY <2>3, <2>4 DEF n, e
<1>11. CASE ~(off >= c + nb \/ count <= 0)
  <2>1. /\ rem > 0 /\ off >= c /\ local = off - c /\ local \in Nat /\ count \in Nat /\ count > 0 /\ count <= rem
        /\ off + count <= d /\ (count = rem \/ off + count = d) /\ count = Lesser(rem, d - off)
    BY ONLY <1>9, <1>8, <1>11
  <2>2. n = [cursor |-> d, offset |-> off + count, remaining |-> rem - count,
             pieces |-> Append(st.pieces, piece)]
    BY <1>3, <1>7, <1>11
  <2>3. piece \in ExtentSet /\ piece.slab = e.slab /\ piece.off = e.off + local /\ piece.nbytes = count
    <3>1. e.off + local \in Nat
      BY <1>5, <2>1
    <3>2. QED
      BY <1>5, <2>1, <3>1, MadeExtent DEF piece
  <2>4. /\ Append(st.pieces, piece) \in Seq(ExtentSet) /\ Len(Append(st.pieces, piece)) = Len(st.pieces) + 1
        /\ \A i \in 1 .. Len(st.pieces) : Append(st.pieces, piece)[i] = st.pieces[i]
        /\ Append(st.pieces, piece)[Len(st.pieces) + 1] = piece /\ Len(st.pieces) \in Nat
    BY <1>2, <2>3, AppendProperties
  <2>5. off + count \in Nat /\ rem - count \in Nat /\ a <= off + count /\ (off + count) + (rem - count) = z
        /\ off + count <= Len(B)
    <3>1. off + count \in Nat /\ rem - count \in Nat
      BY <1>9, <2>1, WalkNumbers
    <3>2. a <= off + count /\ off + count <= Len(B)
      BY <1>9, <2>1, WalkNumbers
    <3>3. (off + count) + (rem - count) = z
      <4>1. \A x, y, w \in Nat : w + y = z => (w + x) + (y - x) = z
        BY <1>9
      <4>2. off \in Nat /\ rem \in Nat /\ count \in Nat /\ off + rem = z
        BY <1>9, <2>1
      <4>3. QED
        BY ONLY <4>1, <4>2
    <3>4. QED
      BY ONLY <3>1, <3>2, <3>3
  <2>6. n \in T /\ n.cursor = d /\ n.offset = off + count /\ n.remaining = rem - count
        /\ n.pieces = Append(st.pieces, piece)
    BY <1>6, <2>2, <2>4, <2>5
  <2>7. BytesOf(Append(st.pieces, piece)) = SubSeq(B, a + 1, off + count)
    <3>1. BytesOf(Append(st.pieces, piece)) = SubSeq(B, a + 1, off) \o Cells(piece)
      BY <1>1, <1>2, <2>3, BytesOfAppend
    <3>2. Cells(piece) = SubSeq(B, off + 1, off + count)
      <4>. DEFINE u == SubSeq(B, off + 1, off + count)
      <4>1. /\ u \in Seq(Location) /\ Len(u) = count /\ \A j \in 1 .. count : u[j] = B[off + j]
        <5>1. off + 1 \in Nat /\ off + count \in Nat /\ \A i \in off + 1 .. off + count : i \in 1 .. Len(B)
          BY <1>9, <2>1, WalkNumbers
        <5>2. u \in Seq(Location)
          BY <1>3, <5>1, SubSeqProperties
        <5>3. Len(u) = count /\ \A j \in 1 .. count : u[j] = B[(off + 1) + j - 1]
          <6>1. off + 1 \in Int /\ off + count \in Int /\ (off + count) - (off + 1) + 1 = count /\ off + 1 <= off + count
            BY <1>9, <2>1, WalkNumbers
          <6>2. Len(u) = (off + count) - (off + 1) + 1 /\ \A j \in 1 .. (off + count) - (off + 1) + 1 : u[j] = B[(off + 1) + j - 1]
            <7>1. \A i \in off + 1 .. off + count : B[i] \in Location
              BY <1>3, <5>1
            <7>2. QED
              BY <6>1, <7>1, SubSeqProperties
          <6>3. QED
            BY <6>1, <6>2
        <5>4. \A j \in 1 .. count : (off + 1) + j - 1 = off + j
          BY ONLY <1>9, <2>1
        <5>5. QED
          BY <5>2, <5>3, <5>4
      <4>2. /\ Cells(piece) \in Seq(Location) /\ Len(Cells(piece)) = count
            /\ \A j \in 1 .. count : Cells(piece)[j] = <<e.slab, (e.off + local) + j - 1>>
        BY <2>3, CellsFacts
      <4>3. ASSUME NEW j \in 1 .. count PROVE u[j] = Cells(piece)[j]
        <5>1. local + j \in 1 .. nb /\ c + (local + j) = off + j /\ e.off + (local + j) - 1 = (e.off + local) + j - 1
          <6>1. j \in Nat /\ 1 <= j /\ j <= count /\ e.off \in Nat
            BY <1>5, <2>1
          <6>. DEFINE f == e.off
          <6>. HIDE DEF f
          <6>2. local + j \in 1 .. nb /\ c + (local + j) = off + j
            BY ONLY <1>9, <2>1, <6>1
          <6>3. f + (local + j) - 1 = (f + local) + j - 1
            BY <2>1, <6>1 DEF f
          <6>4. QED
            BY <6>2, <6>3 DEF f
        <5>2. B[c + (local + j)] = <<e.slab, e.off + (local + j) - 1>>
          BY <1>3, <5>1
        <5>3. QED
          BY <4>1, <4>2, <5>1, <5>2
      <4>. HIDE DEF u
      <4>4. u = Cells(piece)
        BY <4>1, <4>2, <4>3, SeqEqual
      <4>5. QED
        BY <4>4 DEF u
    <3>3. SubSeq(B, a + 1, off) \o SubSeq(B, off + 1, off + count) = SubSeq(B, a + 1, off + count)
      <4>1. a + 1 \in 1 .. Len(B) + 1 /\ off \in a + 1 - 1 .. Len(B) /\ off + count \in off .. Len(B)
        BY <1>9, <2>1, WalkNumbers
      <4>2. \A m \in 1 .. Len(B) + 1 : \A i \in m - 1 .. Len(B) : \A j \in i .. Len(B) :
              SubSeq(B, m, i) \o SubSeq(B, i + 1, j) = SubSeq(B, m, j)
        BY <1>3, ConcatAdjacentSubSeq
      <4>. DEFINE x == a + 1
                  y == off + count
      <4>. HIDE DEF x, y
      <4>3. x \in 1 .. Len(B) + 1 /\ off \in x - 1 .. Len(B) /\ y \in off .. Len(B)
        BY <4>1 DEF x, y
      <4>4. SubSeq(B, x, off) \o SubSeq(B, off + 1, y) = SubSeq(B, x, y)
        BY <4>2, <4>3
      <4>5. QED
        BY <4>4 DEF x, y
    <3>4. QED
      BY <3>1, <3>2, <3>3
  <2>8. rem - count = 0 \/ off + count >= d
    BY ONLY <1>9, <2>1
  <2>9. n \in WalkedTo(o, B, a, z, k)
    BY <2>5, <2>6, <2>7, <2>8 DEF WalkedTo, d
  <2>10. ASSUME NEW m \in 1 .. Len(ext), a < z, FirstIn(o, m, a), Seen(st, ext, o, m, a, z, k - 1)
         PROVE  Seen(n, ext, o, m, a, z, k)
    <3>0. m \in Nat /\ k \in Nat /\ m \in 0 .. Len(ext) /\ m - 1 \in 0 .. Len(ext)
      BY <1>3
    <3>1. CASE k < m
      <4>1. off = a /\ k <= m - 1 /\ k - 1 < m
        BY <2>10, <3>0, <3>1 DEF Seen, off
      <4>2. d <= o[m - 1] /\ o[m - 1] \in Nat
        BY <1>3, <1>4, <3>0, <4>1 DEF d
      <4>3. o[m - 1] <= a
        BY <2>10 DEF FirstIn
      <4>4. FALSE
        BY ONLY <1>9, <2>1, <4>1, <4>2, <4>3
      <4>5. QED
        BY <4>4
    <3>2. CASE k = m
      <4>1. off = a /\ st.pieces = <<>>
        BY <2>10, <3>0, <3>2 DEF Seen, off
      <4>2. Len(st.pieces) = 0
        BY <4>1
      <4>3. Len(n.pieces) = 1 /\ n.pieces[1] = piece /\ n.pieces # <<>>
        <5>. DEFINE q == Append(st.pieces, piece)
        <5>1. Len(q) = 1 /\ q[1] = piece
          BY <2>4, <4>2
        <5>. HIDE DEF q
        <5>2. n.pieces = q
          BY <2>6 DEF q
        <5>3. QED
          <6>1. q # <<>>
            <7>1. Len(<<>>) = 0
              OBVIOUS
            <7>2. Len(q) # 0
              BY ONLY <5>1
            <7>3. QED
              BY ONLY <7>1, <7>2, Zenon
          <6>2. QED
            BY ONLY <5>1, <5>2, <6>1
      <4>4. rem = z - a
        BY ONLY <1>9, <4>1
      <4>5. piece = Only(ext, o, m, a, z)
        <5>1. count = Lesser(z - a, d - a) /\ local = a - c
          BY <2>1, <4>1, <4>4
        <5>2. QED
          BY <3>2, <5>1 DEF piece, Only, e, c, d
      <4>6. n.offset <= o[m]
        <5>1. n.offset = off + count /\ o[m] = d
          BY <2>6, <3>2 DEF d
        <5>2. QED
          BY <2>1, <5>1
      <4>7. QED
        BY <3>2, <4>3, <4>5, <4>6 DEF Seen
    <3>3. CASE k > m
      <4>1. k - 1 >= m /\ ~(k < m) /\ k >= m
        BY <3>0, <3>3
      <4>2. st.pieces # <<>> /\ st.pieces[1] = Only(ext, o, m, a, z)
        BY <2>10, <4>1 DEF Seen
      <4>3. Len(st.pieces) >= 1
        BY <1>2, <4>2
      <4>4. n.pieces[1] = Only(ext, o, m, a, z) /\ Len(n.pieces) > 1 /\ n.pieces # <<>>
        <5>. DEFINE q == Append(st.pieces, piece)
        <5>1. 1 \in 1 .. Len(st.pieces)
          BY <2>4, <4>3
        <5>2. Len(q) > 1 /\ q[1] = st.pieces[1]
          BY <2>4, <4>3, <5>1
        <5>. HIDE DEF q
        <5>3. n.pieces = q
          BY <2>6 DEF q
        <5>4. QED
          BY <4>2, <5>2, <5>3
      <4>5. o[m] <= c /\ o[m] \in Nat
        BY <1>3, <1>4, <3>0, <4>1 DEF c
      <4>6. ~(n.offset <= o[m])
        <5>1. n.offset = off + count
          BY <2>6
        <5>. DEFINE w == o[m]
        <5>2. w <= c /\ w \in Nat
          BY <4>5
        <5>. HIDE DEF w
        <5>3. ~(off + count <= w)
          BY ONLY <1>9, <2>1, <5>2
        <5>4. QED
          BY <5>1, <5>3 DEF w
      <4>7. QED
        <5>1. Len(n.pieces) # 1
          <6>1. Len(n.pieces) = Len(st.pieces) + 1
            BY <2>4, <2>6
          <6>. DEFINE x == Len(st.pieces)
          <6>2. x \in Nat /\ x >= 1
            BY <2>4, <4>3
          <6>. HIDE DEF x
          <6>3. x + 1 # 1
            BY ONLY <6>2
          <6>4. QED
            BY <6>1, <6>3 DEF x
        <5>2. QED
          BY ONLY <4>1, <4>4, <4>6, <5>1 DEF Seen
    <3>4. QED
      BY <3>0, <3>1, <3>2, <3>3
  <2>11. QED
    BY <2>9, <2>10 DEF n, e
<1>12. QED
  BY <1>10, <1>11

Walks(ext, o, B, a, z, k) ==
  {st \in WalkedTo(o, B, a, z, k) :
     \A m \in 1 .. Len(ext) : a < z /\ FirstIn(o, m, a) => Seen(st, ext, o, m, a, z, k)}

WalkFrom(a, size) == [cursor |-> 0, offset |-> a, remaining |-> size, pieces |-> <<>>]

\* What _walk gives: the bytes of the range, and where the range starts.
LEMMA WalkExact ==
  ASSUME NEW rec, NEW ext, ext = rec.extents, NEW o, NEW B, Whole(ext, o, B),
         NEW a \in Nat, NEW size \in Nat, a + size <= Len(B)
  PROVE  /\ Walk(rec, a, size) \in Seq(ExtentSet)
         /\ BytesOf(Walk(rec, a, size)) = SubSeq(B, a + 1, a + size)
         /\ \A m \in 1 .. Len(ext) : size > 0 /\ FirstIn(o, m, a) =>
              /\ Walk(rec, a, size)[1] = Only(ext, o, m, a, a + size)
              /\ Len(Walk(rec, a, size)) = 1 <=> a + size <= o[m]
<1>. DEFINE n == Len(ext)
            z == a + size
            b == WalkFrom(a, size)
            S == [k \in 0 .. n |-> Walks(ext, o, B, a, z, k)]
            F == [k \in 1 .. n |-> [st \in S[k - 1] |-> WalkStep(st, ext[k])]]
            Solves(f) == f = [k \in 0 .. n |-> IF k = 0 THEN b ELSE WalkStep(f[k - 1], ext[k])]
            g == CHOOSE f : Solves(f)
<1>0. Walk(rec, a, size) = g[n].pieces
  BY DEF Walk, WalkFrom
<1>1. /\ n \in Nat /\ 0 \in 0 .. n /\ \A k \in 1 .. n : k \in 0 .. n /\ k - 1 \in 0 .. n /\ k # 0
      /\ \A k \in 0 .. n : k # 0 => k \in 1 .. n
      /\ z \in Nat /\ a <= z /\ z <= Len(B) /\ B \in Seq(Location) /\ Len(B) = o[n] /\ Ends(ext, o)
  BY DEF Whole
<1>2. /\ \A k \in 0 .. n : S[k] = Walks(ext, o, B, a, z, k)
      /\ \A k \in 1 .. n : \A st \in S[k - 1] : F[k][st] = WalkStep(st, ext[k])
  OBVIOUS
<1>3. b \in S[0]
  <2>1. b \in [cursor : Nat, offset : Nat, remaining : Nat, pieces : Seq(ExtentSet)]
    <3>1. <<>> \in Seq(ExtentSet)
      OBVIOUS
    <3>2. QED
      BY <3>1 DEF WalkFrom
  <2>2. b.cursor = 0 /\ b.offset = a /\ b.remaining = size /\ b.pieces = <<>>
    BY DEF WalkFrom
  <2>3. o[0] = 0
    BY <1>1 DEF Ends
  <2>4. BytesOf(b.pieces) = SubSeq(B, a + 1, a)
    <3>1. SubSeq(B, a + 1, a) = <<>>
      BY SubSeqEmpty
    <3>2. QED
      BY <2>2, <3>1, BytesOfNone
  <2>5. b \in WalkedTo(o, B, a, z, 0)
    BY <2>1, <2>2, <2>3, <2>4 DEF WalkedTo
  <2>6. \A m \in 1 .. n : Seen(b, ext, o, m, a, z, 0)
    BY <2>2 DEF Seen
  <2>7. b \in Walks(ext, o, B, a, z, 0)
    BY <2>5, <2>6 DEF Walks
  <2>8. QED
    BY <1>1, <1>2, <2>7
<1>. HIDE DEF S, F, b, z
<1>4. ASSUME NEW k \in 1 .. n, NEW st \in S[k - 1] PROVE WalkStep(st, ext[k]) \in S[k]
  <2>1. S[k - 1] = Walks(ext, o, B, a, z, k - 1) /\ S[k] = Walks(ext, o, B, a, z, k)
    BY <1>1, <1>2
  <2>2. /\ st \in WalkedTo(o, B, a, z, k - 1)
        /\ \A m \in 1 .. Len(ext) : a < z /\ FirstIn(o, m, a) => Seen(st, ext, o, m, a, z, k - 1)
    BY <2>1 DEF Walks
  <2>3. /\ WalkStep(st, ext[k]) \in WalkedTo(o, B, a, z, k)
        /\ \A m \in 1 .. Len(ext) : a < z /\ FirstIn(o, m, a) /\ Seen(st, ext, o, m, a, z, k - 1)
                                      => Seen(WalkStep(st, ext[k]), ext, o, m, a, z, k)
    BY <1>1, <2>2, WalkStepKeeps
  <2>4. WalkStep(st, ext[k]) \in Walks(ext, o, B, a, z, k)
    BY <2>2, <2>3 DEF Walks
  <2>5. QED
    BY <2>1, <2>4
<1>5. \E f : Solves(f)
  <2>1. \A k \in 1 .. n : \A st \in S[k - 1] : F[k][st] \in S[k]
    BY <1>2, <1>4
  <2>2. PICK f : Iterates(f, n, b, F, S)
    BY <1>1, <1>3, <2>1, IterationExists
  <2>3. /\ f = [k \in 0 .. n |-> f[k]] /\ f[0] = b
        /\ \A k \in 1 .. n : f[k] = F[k][f[k - 1]]
        /\ \A k \in 0 .. n : f[k] \in S[k]
    BY <2>2, Zenon DEF Iterates
  <2>4. \A k \in 0 .. n : f[k] = IF k = 0 THEN b ELSE WalkStep(f[k - 1], ext[k])
    <3>1. SUFFICES ASSUME NEW k \in 0 .. n, k # 0 PROVE f[k] = WalkStep(f[k - 1], ext[k])
      BY <2>3
    <3>2. k \in 1 .. n /\ k - 1 \in 0 .. n
      BY <1>1, <3>1
    <3>3. f[k - 1] \in S[k - 1] /\ f[k] = F[k][f[k - 1]]
      BY <2>3, <3>2
    <3>4. QED
      BY <1>2, <3>2, <3>3
  <2>5. [k \in 0 .. n |-> f[k]] = [k \in 0 .. n |-> IF k = 0 THEN b ELSE WalkStep(f[k - 1], ext[k])]
    BY <2>4
  <2>6. Solves(f)
    BY <2>3, <2>5
  <2>7. QED
    BY <2>6
<1>6. Solves(g)
  BY <1>5
<1>. HIDE DEF g
<1>7. g[0] = b /\ \A k \in 1 .. n : g[k] = WalkStep(g[k - 1], ext[k])
  BY <1>1, <1>6
<1>8. \A k \in 1 .. n : g[k - 1] \in S[k - 1] => g[k] \in S[k]
  BY <1>4, <1>7
<1>9. g[n] \in S[n] /\ S[n] = Walks(ext, o, B, a, z, n)
  <2>1. g[0] \in S[0]
    BY <1>3, <1>7
  <2>2. \A k \in 0 .. n : g[k] \in S[k]
    BY <1>1, <1>8, <2>1, IterationStays
  <2>3. n \in 0 .. n
    BY <1>1
  <2>4. QED
    BY <1>2, <2>2, <2>3
<1>. DEFINE e == g[n]
<1>10. /\ e.pieces \in Seq(ExtentSet) /\ e.offset \in Nat /\ e.remaining \in Nat /\ e.offset + e.remaining = z
       /\ (e.remaining = 0 \/ e.offset >= o[n]) /\ BytesOf(e.pieces) = SubSeq(B, a + 1, e.offset)
       /\ \A m \in 1 .. Len(ext) : a < z /\ FirstIn(o, m, a) => Seen(e, ext, o, m, a, z, n)
  BY <1>9 DEF Walks, WalkedTo
<1>. HIDE DEF e, n
<1>11. e.offset = z
  <2>. DEFINE x == e.offset
              y == e.remaining
              w == o[n]
  <2>1. x \in Nat /\ y \in Nat /\ x + y = z /\ (y = 0 \/ x >= w) /\ z <= w /\ w \in Nat /\ z \in Nat
    BY <1>1, <1>10
  <2>. HIDE DEF x, y, w
  <2>2. x = z
    BY ONLY <2>1
  <2>3. QED
    BY <2>2 DEF x
<1>12. ASSUME NEW m \in 1 .. Len(ext), size > 0, FirstIn(o, m, a)
       PROVE  e.pieces[1] = Only(ext, o, m, a, z) /\ (Len(e.pieces) = 1 <=> z <= o[m])
  <2>1. a < z
    BY <1>12 DEF z
  <2>2. Seen(e, ext, o, m, a, z, n)
    BY <1>10, <1>12, <2>1
  <2>3. n >= m
    BY DEF n
  <2>4. QED
    BY <1>11, <2>2, <2>3 DEF Seen
<1>13. QED
  BY <1>0, <1>10, <1>11, <1>12 DEF e, z

\* slab_view after k extents: nothing found before the extent m where the range starts, its
\* piece or the reason against it from there on.
ViewOf(ext, o, m, a, size) ==
  IF a - o[m - 1] + size > ext[m].nbytes THEN Failed("multi_extent")
  ELSE Extent(ext[m].slab, ext[m].off + (a - o[m - 1]), size)

Viewing(c, a, size, found) == [cursor |-> c, offset |-> a, size |-> size, found |-> found]

ViewedTo(ext, o, m, a, size, k) ==
  IF k < m THEN Viewing(o[k], a, size, <<>>)
  ELSE Viewing(o[m - 1], a, size, <<ViewOf(ext, o, m, a, size)>>)

\* One extent of slab_view.
LEMMA ViewStepKeeps ==
  ASSUME NEW ext, NEW o, NEW B, Whole(ext, o, B), NEW a \in Nat, NEW size \in Nat,
         NEW m \in 1 .. Len(ext), FirstIn(o, m, a), NEW k \in 1 .. Len(ext)
  PROVE  ViewStep(ViewedTo(ext, o, m, a, size, k - 1), ext[k]) = ViewedTo(ext, o, m, a, size, k)
<1>. DEFINE st == ViewedTo(ext, o, m, a, size, k - 1)
            e == ext[k]
            c == o[k - 1]
            d == o[k]
<1>1. /\ ext \in Seq(ExtentSet) /\ o \in [0 .. Len(ext) -> Nat] /\ d = c + e.nbytes
      /\ \A i, j \in 0 .. Len(ext) : j <= i => o[j] <= o[i]
  BY DEF Whole, Ends
<1>2. /\ k \in 0 .. Len(ext) /\ k - 1 \in 0 .. Len(ext) /\ m \in 0 .. Len(ext) /\ m - 1 \in 0 .. Len(ext)
      /\ m \in Nat /\ k \in Nat /\ c \in Nat /\ d \in Nat /\ o[m - 1] \in Nat /\ o[m] \in Nat
  <2>1. /\ k \in 0 .. Len(ext) /\ k - 1 \in 0 .. Len(ext) /\ m \in 0 .. Len(ext) /\ m - 1 \in 0 .. Len(ext)
        /\ m \in Nat /\ k \in Nat
    BY <1>1
  <2>2. \A i \in 0 .. Len(ext) : o[i] \in Nat
    BY <1>1
  <2>3. QED
    BY ONLY <2>1, <2>2
<1>3. o[m - 1] <= a /\ a < o[m]
  BY DEF FirstIn
<1>4. CASE k < m
  <2>1. k - 1 < m /\ k <= m - 1
    BY <1>2, <1>4
  <2>2. d <= o[m - 1]
    BY <1>1, <1>2, <2>1
  <2>3. a >= c + e.nbytes
    <3>. DEFINE w == o[m - 1]
                y == c + e.nbytes
    <3>1. w \in Nat /\ d \in Nat /\ d <= w /\ w <= a /\ d = y
      BY <1>1, <1>2, <1>3, <2>2
    <3>. HIDE DEF w, y, d
    <3>2. a >= y
      BY <3>1
    <3>3. QED
      BY <3>2 DEF y
  <2>4. st = Viewing(c, a, size, <<>>)
    BY <2>1 DEF ViewedTo
  <2>5. st.found = <<>> /\ st.offset = a /\ st.cursor = c
    BY <2>4 DEF Viewing
  <2>. HIDE DEF st, e, c, d
  <2>6. ViewStep(st, e) = [st EXCEPT !.cursor = c + e.nbytes]
    BY <2>3, <2>5 DEF ViewStep
  <2>7. ViewStep(st, e) = Viewing(d, a, size, <<>>)
    BY <1>1, <2>4, <2>6 DEF Viewing
  <2>8. ViewedTo(ext, o, m, a, size, k) = Viewing(d, a, size, <<>>)
    BY <1>4 DEF ViewedTo, d
  <2>9. QED
    BY <2>7, <2>8 DEF st, e
<1>5. CASE k = m
  <2>1. k - 1 < m /\ ~(k < m)
    BY <1>2, <1>5
  <2>2. ~(a >= c + e.nbytes) /\ a < d
    <3>1. a < d
      BY <1>3, <1>5
    <3>. HIDE DEF c, d, e
    <3>2. ~(a >= d)
      BY <1>2, <3>1
    <3>3. QED
      BY <1>1, <3>1, <3>2
  <2>4. st = Viewing(c, a, size, <<>>)
    BY <2>1 DEF ViewedTo
  <2>5. st.found = <<>> /\ st.offset = a /\ st.cursor = c /\ st.size = size
    BY <2>4 DEF Viewing
  <2>. DEFINE r == IF a - c + size > e.nbytes THEN Failed("multi_extent")
                   ELSE Extent(e.slab, e.off + (a - c), size)
  <2>6. ViewOf(ext, o, m, a, size) = r
    BY <1>5 DEF ViewOf
  <2>. HIDE DEF st, e, c, d
  <2>7. ViewStep(st, e) = [st EXCEPT !.found = <<r>>]
    BY <2>2, <2>5 DEF ViewStep
  <2>. HIDE DEF r
  <2>8. ViewStep(st, e) = Viewing(c, a, size, <<r>>)
    BY <2>4, <2>7 DEF Viewing
  <2>9. ViewedTo(ext, o, m, a, size, k) = Viewing(c, a, size, <<r>>)
    BY <1>5, <2>1, <2>6 DEF ViewedTo, c
  <2>10. QED
    BY <2>8, <2>9 DEF st, e
<1>6. CASE k > m
  <2>1. ~(k - 1 < m) /\ ~(k < m)
    BY <1>2, <1>6
  <2>. DEFINE r == ViewOf(ext, o, m, a, size)
  <2>2. st = ViewedTo(ext, o, m, a, size, k) /\ st = Viewing(o[m - 1], a, size, <<r>>)
    BY <2>1 DEF ViewedTo
  <2>. HIDE DEF r
  <2>3. st.found = <<r>>
    BY <2>2 DEF Viewing
  <2>4. st.found # <<>>
    <3>1. \A x : <<x>> # <<>>
      OBVIOUS
    <3>2. QED
      BY ONLY <2>3, <3>1
  <2>. HIDE DEF st, e
  <2>5. ViewStep(st, e) = st
    BY <2>4 DEF ViewStep
  <2>6. QED
    BY <2>2, <2>5 DEF st, e
<1>7. QED
  BY <1>2, <1>4, <1>5, <1>6

\* What slab_view gives for a range inside the tensor.
LEMMA ViewExact ==
  ASSUME NEW rec, NEW o, NEW B, Whole(rec.extents, o, B), NEW a \in Nat, NEW size \in Nat,
         ~(a + size > rec.nbytes), NEW m \in 1 .. Len(rec.extents), FirstIn(o, m, a)
  PROVE  SlabView(rec, a, size) = ViewOf(rec.extents, o, m, a, size)
<1>. DEFINE ext == rec.extents
            n == Len(ext)
            b == Viewing(0, a, size, <<>>)
            V(k) == ViewedTo(ext, o, m, a, size, k)
            Solves(f) == f = [k \in 0 .. n |-> IF k = 0 THEN b ELSE ViewStep(f[k - 1], ext[k])]
            g == CHOOSE f : Solves(f)
<1>1. /\ n \in Nat /\ 0 \in 0 .. n /\ \A k \in 1 .. n : k \in 0 .. n /\ k - 1 \in 0 .. n /\ k # 0
      /\ \A k \in 0 .. n : k # 0 => k \in 1 .. n
      /\ n \in 0 .. n /\ ~(n < m) /\ 0 < m
  BY DEF Whole
<1>2. o[0] = 0
  BY DEF Whole, Ends
<1>3. V(0) = b
  BY <1>1, <1>2 DEF ViewedTo
<1>4. \A k \in 1 .. n : ViewStep(V(k - 1), ext[k]) = V(k)
  BY ViewStepKeeps
<1>5. SlabView(rec, a, size) = IF a + size > rec.nbytes THEN Failed("out_of_bounds")
                               ELSE IF g[n].found = <<>> THEN Failed("internal_error") ELSE g[n].found[1]
  BY DEF SlabView, Viewing
<1>. HIDE DEF V, b
<1>6. \E f : Solves(f)
  <2>. DEFINE f == [k \in 0 .. n |-> V(k)]
  <2>1. \A k \in 0 .. n : f[k] = IF k = 0 THEN b ELSE ViewStep(f[k - 1], ext[k])
    <3>1. SUFFICES ASSUME NEW k \in 0 .. n, k # 0 PROVE V(k) = ViewStep(f[k - 1], ext[k])
      BY <1>3
    <3>2. k \in 1 .. n /\ k - 1 \in 0 .. n
      BY <1>1, <3>1
    <3>3. f[k - 1] = V(k - 1)
      BY <3>2
    <3>4. QED
      BY <1>4, <3>2, <3>3
  <2>2. f = [k \in 0 .. n |-> f[k]]
    OBVIOUS
  <2>. HIDE DEF f
  <2>3. [k \in 0 .. n |-> f[k]] = [k \in 0 .. n |-> IF k = 0 THEN b ELSE ViewStep(f[k - 1], ext[k])]
    BY <2>1
  <2>4. Solves(f)
    BY <2>2, <2>3
  <2>5. QED
    BY <2>4
<1>7. Solves(g)
  BY <1>6
<1>. HIDE DEF g
<1>8. g[0] = b /\ \A k \in 1 .. n : g[k] = ViewStep(g[k - 1], ext[k])
  BY <1>1, <1>7
<1>. DEFINE S == [k \in 0 .. n |-> {V(k)}]
<1>9. \A k \in 0 .. n : S[k] = {V(k)}
  OBVIOUS
<1>. HIDE DEF S
<1>10. g[n] = V(n)
  <2>1. g[0] \in S[0]
    BY <1>1, <1>3, <1>8, <1>9
  <2>2. \A k \in 1 .. n : g[k - 1] \in S[k - 1] => g[k] \in S[k]
    <3>1. SUFFICES ASSUME NEW k \in 1 .. n, g[k - 1] \in S[k - 1] PROVE g[k] \in S[k]
      OBVIOUS
    <3>2. k \in 0 .. n /\ k - 1 \in 0 .. n
      BY <1>1
    <3>3. g[k - 1] = V(k - 1)
      BY <1>9, <3>1, <3>2
    <3>4. QED
      BY <1>4, <1>8, <1>9, <3>2, <3>3
  <2>3. \A k \in 0 .. n : g[k] \in S[k]
    BY <1>1, <2>1, <2>2, IterationStays
  <2>4. QED
    BY <1>1, <1>9, <2>3
<1>. DEFINE r == ViewOf(ext, o, m, a, size)
<1>11. V(n).found = <<r>>
  BY <1>1 DEF V, ViewedTo, Viewing
<1>12. ~(a + size > rec.nbytes)
  OBVIOUS
<1>. HIDE DEF r
<1>13. g[n].found = <<r>>
  BY <1>10, <1>11
<1>. DEFINE w == g[n].found
<1>14. w # <<>> /\ w[1] = r
  BY <1>13
<1>. HIDE DEF w
<1>15. SlabView(rec, a, size) = IF a + size > rec.nbytes THEN Failed("out_of_bounds")
                                ELSE IF w = <<>> THEN Failed("internal_error") ELSE w[1]
  BY <1>5 DEF w
<1>16. QED
  BY <1>12, <1>14, <1>15 DEF r

\* The two say the same of a range: the walk's one piece, or no one piece.
LEMMA RangeAgrees ==
  ASSUME NEW rec, NEW ext, ext = rec.extents, NEW o, NEW B, Whole(ext, o, B), rec.nbytes = Len(B),
         NEW a \in Nat, NEW size \in Nat, a + size <= Len(B)
  PROVE  /\ BytesOf(Walk(rec, a, size)) = SubSeq(B, a + 1, a + size)
         /\ size > 0 => SlabView(rec, a, size) =
                           IF Len(Walk(rec, a, size)) = 1 THEN Walk(rec, a, size)[1] ELSE Failed("multi_extent")
<1>. DEFINE n == Len(ext)
            walk == Walk(rec, a, size)
<1>1. /\ BytesOf(walk) = SubSeq(B, a + 1, a + size)
      /\ \A m \in 1 .. Len(ext) : size > 0 /\ FirstIn(o, m, a) =>
           walk[1] = Only(ext, o, m, a, a + size) /\ (Len(walk) = 1 <=> a + size <= o[m])
  BY WalkExact
<1>2. \A m \in 1 .. Len(ext) : FirstIn(o, m, a) => SlabView(rec, a, size) = ViewOf(ext, o, m, a, size)
  <2>1. SUFFICES ASSUME NEW m \in 1 .. Len(ext), FirstIn(o, m, a)
                 PROVE  SlabView(rec, a, size) = ViewOf(ext, o, m, a, size)
    OBVIOUS
  <2>2. ~(a + size > rec.nbytes) /\ ext = rec.extents
    BY DEF Whole
  <2>3. QED
    BY ONLY <2>1, <2>2, a \in Nat, size \in Nat, Whole(ext, o, B), ViewExact
<1>3. ASSUME size > 0
      PROVE  SlabView(rec, a, size) = IF Len(walk) = 1 THEN walk[1] ELSE Failed("multi_extent")
  <2>1. /\ n \in Nat /\ o \in [0 .. n -> Nat] /\ o[0] = 0 /\ Len(B) = o[n]
        /\ \A i \in 1 .. n : o[i] = o[i - 1] + ext[i].nbytes
    BY DEF Whole, Ends
  <2>2. a + 1 \in 1 .. o[n]
    <3>1. Len(B) \in Nat /\ a + size <= Len(B)
      BY DEF Whole
    <3>2. QED
      BY <1>3, <2>1, <3>1
  <2>. HIDE DEF n
  <2>3. PICK m \in 1 .. n : o[m - 1] < a + 1 /\ a + 1 <= o[m]
    BY <2>1, <2>2, BlockOf
  <2>4. m \in 0 .. n /\ m - 1 \in 0 .. n /\ o[m - 1] \in Nat /\ o[m] \in Nat /\ o[m] = o[m - 1] + ext[m].nbytes
    BY <2>1
  <2>5. FirstIn(o, m, a)
    BY <2>3, <2>4 DEF FirstIn
  <2>6. m \in 1 .. Len(ext)
    BY DEF n
  <2>7. SlabView(rec, a, size) = ViewOf(ext, o, m, a, size)
    BY <1>2, <2>5, <2>6
  <2>8. walk[1] = Only(ext, o, m, a, a + size) /\ (Len(walk) = 1 <=> a + size <= o[m])
    BY <1>1, <1>3, <2>5, <2>6
  <2>. DEFINE c == o[m - 1]
              d == o[m]
              nb == ext[m].nbytes
  <2>9. nb \in Nat
    BY <2>6, ExtentFacts DEF Whole
  <2>10. c \in Nat /\ d \in Nat /\ d = c + nb
    BY <2>4
  <2>11. ViewOf(ext, o, m, a, size) = IF a - c + size > nb THEN Failed("multi_extent")
                                      ELSE Extent(ext[m].slab, ext[m].off + (a - c), size)
    BY DEF ViewOf
  <2>12. Only(ext, o, m, a, a + size) = Extent(ext[m].slab, ext[m].off + (a - c), Lesser((a + size) - a, d - a))
    BY DEF Only
  <2>. HIDE DEF c, d, nb, walk
  <2>13. /\ a - c + size > nb <=> ~(a + size <= d)
         /\ a + size <= d => Lesser((a + size) - a, d - a) = size
    BY ONLY <2>9, <2>10, a \in Nat, size \in Nat DEF Lesser
  <2>14. CASE a + size <= d
    BY <2>7, <2>8, <2>11, <2>12, <2>13, <2>14 DEF d
  <2>15. CASE ~(a + size <= d)
    BY <2>7, <2>8, <2>11, <2>13, <2>15 DEF d
  <2>16. QED
    BY <2>14, <2>15
<1>4. QED
  BY <1>1, <1>3

LEMMA RangeExact ==
  ASSUME NEW rec, rec.extents \in Seq(ExtentSet), rec.nbytes = Len(BytesOf(rec.extents)),
         NEW a \in Nat, NEW size \in Nat, a + size <= rec.nbytes
  PROVE  /\ BytesOf(Walk(rec, a, size)) = SubSeq(BytesOf(rec.extents), a + 1, a + size)
         /\ size > 0 => SlabView(rec, a, size) =
                           IF Len(Walk(rec, a, size)) = 1 THEN Walk(rec, a, size)[1] ELSE Failed("multi_extent")
<1>1. PICK ext : ext = rec.extents
  OBVIOUS
<1>2. PICK B : B = BytesOf(ext)
  OBVIOUS
<1>3. ext \in Seq(ExtentSet)
  BY <1>1
<1>4. /\ B \in Seq(Location)
      /\ \E o : /\ Ends(ext, o) /\ Len(B) = o[Len(ext)]
                /\ \A i, j \in 0 .. Len(ext) : j <= i => o[j] <= o[i]
                /\ \A i \in 1 .. Len(ext) : \A j \in 1 .. ext[i].nbytes :
                     B[o[i - 1] + j] = <<ext[i].slab, ext[i].off + j - 1>>
  BY ONLY <1>2, <1>3, BytesLaid
<1>5. PICK o : /\ Ends(ext, o) /\ Len(B) = o[Len(ext)]
               /\ \A i, j \in 0 .. Len(ext) : j <= i => o[j] <= o[i]
               /\ \A i \in 1 .. Len(ext) : \A j \in 1 .. ext[i].nbytes :
                    B[o[i - 1] + j] = <<ext[i].slab, ext[i].off + j - 1>>
  BY <1>4
<1>6. Whole(ext, o, B)
  BY <1>1, <1>4, <1>5, Zenon DEF Whole
<1>7. rec.nbytes = Len(B) /\ a + size <= Len(B)
  BY <1>1, <1>2
<1>8. /\ BytesOf(Walk(rec, a, size)) = SubSeq(B, a + 1, a + size)
      /\ size > 0 => SlabView(rec, a, size) =
                        IF Len(Walk(rec, a, size)) = 1 THEN Walk(rec, a, size)[1] ELSE Failed("multi_extent")
  BY <1>1, <1>6, <1>7, RangeAgrees
<1>9. QED
  BY <1>1, <1>2, <1>8

\* Whatever range of whatever tensor is read, written, copied or viewed, at any time:
\* its pieces are the bytes of the range, in order, and slab_view gives the piece of a
\* range that has one and refuses the others (board/memory/allocator.py, _walk and
\* slab_view).
THEOREM RangesAreExact == Spec => []RangesExact
<1>1. Inv => RangesExact
  <2>1. SUFFICES ASSUME Inv, NEW h \in Live, NEW offset \in 0 .. records[h].nbytes,
                        NEW size \in 0 .. records[h].nbytes - offset
                 PROVE  LET rec   == records[h]
                            bytes == SubSeq(BytesOf(rec.extents), offset + 1, offset + size)
                            walk  == Walk(rec, offset, size)
                        IN  /\ Len(BytesOf(rec.extents)) = rec.nbytes
                            /\ BytesOf(walk) = bytes
                            /\ size > 0 => SlabView(rec, offset, size) =
                                             IF Len(walk) = 1 THEN walk[1] ELSE Failed("multi_extent")
    BY DEF RangesExact
  <2>. DEFINE rec == records[h]
  <2>2. rec.extents \in Seq(ExtentSet) /\ rec.nbytes \in Nat /\ Len(BytesOf(rec.extents)) = rec.nbytes
    BY <2>1 DEF Inv, TensorsInv, SizesInv, ExtentsOf
  <2>. HIDE DEF rec
  <2>3. offset \in Nat /\ size \in Nat /\ offset + size <= rec.nbytes
    <3>. DEFINE n == rec.nbytes
    <3>1. n \in Nat /\ offset \in 0 .. n /\ size \in 0 .. n - offset
      BY <2>2 DEF rec
    <3>. HIDE DEF n
    <3>2. offset \in Nat /\ size \in Nat /\ offset + size <= n
      BY ONLY <3>1
    <3>3. QED
      BY <3>2 DEF n
  <2>4. /\ BytesOf(Walk(rec, offset, size)) = SubSeq(BytesOf(rec.extents), offset + 1, offset + size)
        /\ size > 0 => SlabView(rec, offset, size) =
                          IF Len(Walk(rec, offset, size)) = 1 THEN Walk(rec, offset, size)[1]
                          ELSE Failed("multi_extent")
    BY <2>2, <2>3, RangeExact
  <2>5. QED
    BY <2>2, <2>4 DEF rec
<1>2. QED
  BY <1>1, InvHolds, PTL DEF Spec
=============================================================================
