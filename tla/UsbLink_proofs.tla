--------------------------- MODULE UsbLink_proofs ---------------------------
(***************************************************************************)
(* The link stays in step: as long as a device is opened once and only a   *)
(* transport that has the connection to itself meets timeouts, every call  *)
(* gets the replies to its own bytes.                                      *)
(***************************************************************************)
EXTENDS UsbLink, SetInduction, SequenceTheorems

\* What is between two places of a sequence.
Slice(S, a, b) == SubSeq(S, a + 1, b)

\* A slice's elements.
LEMMA SliceFacts ==
  ASSUME NEW T, NEW S \in Seq(T), NEW a \in 0 .. Len(S), NEW b \in a .. Len(S)
  PROVE  /\ Slice(S, a, b) \in Seq(T) /\ Len(Slice(S, a, b)) = b - a
         /\ \A i \in 1 .. b - a : Slice(S, a, b)[i] = S[a + i]
BY DEF Slice

\* Slices that meet.
LEMMA SliceJoin ==
  ASSUME NEW T, NEW S \in Seq(T), NEW a \in 0 .. Len(S), NEW b \in a .. Len(S), NEW c \in b .. Len(S)
  PROVE  Slice(S, a, b) \o Slice(S, b, c) = Slice(S, a, c)
BY ConcatAdjacentSubSeq DEF Slice

\* A slice of a slice.
LEMMA SliceOfSlice ==
  ASSUME NEW T, NEW S \in Seq(T), NEW a \in 0 .. Len(S), NEW b \in a .. Len(S),
         NEW i \in 0 .. b - a, NEW j \in i .. b - a
  PROVE  Slice(Slice(S, a, b), i, j) = Slice(S, a + i, a + j)
<1>. DEFINE s == Slice(S, a, b)
            l == Slice(s, i, j)
            m == Slice(S, a + i, a + j)
<1>1. s \in Seq(T) /\ Len(s) = b - a /\ \A x \in 1 .. b - a : s[x] = S[a + x]
  BY SliceFacts
<1>. HIDE DEF s
<1>2. /\ i \in 0 .. Len(s) /\ j \in i .. Len(s) /\ a + i \in 0 .. Len(S) /\ a + j \in a + i .. Len(S)
      /\ (a + j) - (a + i) = j - i
  BY <1>1
<1>3. l \in Seq(T) /\ Len(l) = j - i /\ \A x \in 1 .. j - i : l[x] = s[i + x]
  BY <1>1, <1>2, SliceFacts
<1>4. m \in Seq(T) /\ Len(m) = j - i /\ \A x \in 1 .. j - i : m[x] = S[(a + i) + x]
  <2>. DEFINE c == a + i
              e == a + j
  <2>1. c \in 0 .. Len(S) /\ e \in c .. Len(S) /\ e - c = j - i
    BY <1>2
  <2>. HIDE DEF c, e
  <2>2. Slice(S, c, e) \in Seq(T) /\ Len(Slice(S, c, e)) = e - c /\ \A x \in 1 .. e - c : Slice(S, c, e)[x] = S[c + x]
    BY <2>1, SliceFacts
  <2>3. QED
    BY <2>1, <2>2 DEF c, e
<1>. HIDE DEF l, m
<1>5. ASSUME NEW x \in 1 .. j - i PROVE l[x] = m[x]
  <2>1. i + x \in 1 .. b - a /\ a + (i + x) = (a + i) + x
    OBVIOUS
  <2>2. QED
    BY <1>1, <1>3, <1>4, <2>1
<1>6. l = m
  BY <1>3, <1>4, <1>5, SeqEqual
<1>7. QED
  BY <1>6 DEF l, m, s

\* The first bytes of a slice and the others.
LEMMA SliceSplit ==
  ASSUME NEW T, NEW S \in Seq(T), NEW a \in 0 .. Len(S), NEW b \in a .. Len(S), NEW n \in Nat, a + n <= b
  PROVE  /\ Take(Slice(S, a, b), n) = Slice(S, a, a + n)
         /\ Drop(Slice(S, a, b), n) = Slice(S, a + n, b)
<1>1. Len(Slice(S, a, b)) = b - a
  BY SliceFacts
<1>2. Least(n, b - a) = n /\ n \in 0 .. b - a /\ b - a \in n .. b - a /\ 0 \in 0 .. b - a /\ n \in 0 .. n
      /\ a + (b - a) = b /\ a + 0 = a /\ 0 + 1 = 1
  BY DEF Least
<1>3. Slice(Slice(S, a, b), 0, n) = Slice(S, a, a + n)
  BY <1>2, SliceOfSlice
<1>4. Slice(Slice(S, a, b), n, b - a) = Slice(S, a + n, b)
  BY <1>2, SliceOfSlice
<1>5. Take(Slice(S, a, b), n) = Slice(Slice(S, a, b), 0, n)
  BY <1>1, <1>2, Zenon DEF Take, Slice
<1>6. Drop(Slice(S, a, b), n) = Slice(Slice(S, a, b), n, b - a)
  BY <1>1, <1>2, Zenon DEF Drop, Slice
<1>7. QED
  BY <1>3, <1>4, <1>5, <1>6

\* All of a sequence, and nothing of it.
LEMMA SliceEnds ==
  ASSUME NEW T, NEW S \in Seq(T), NEW a \in 0 .. Len(S)
  PROVE  Slice(S, 0, Len(S)) = S /\ Slice(S, a, a) = <<>>
BY SubSeqFull DEF Slice

\* Take and Drop, whatever the length.
LEMMA TakeDrop ==
  ASSUME NEW T, NEW s \in Seq(T), NEW n \in Nat
  PROVE  /\ Take(s, n) \in Seq(T) /\ Len(Take(s, n)) = Least(n, Len(s))
         /\ Drop(s, n) \in Seq(T) /\ Len(Drop(s, n)) = Len(s) - Least(n, Len(s))
         /\ n >= Len(s) => Take(s, n) = s /\ Drop(s, n) = <<>>
<1>1. Least(n, Len(s)) \in 0 .. Len(s) /\ (n >= Len(s) => Least(n, Len(s)) = Len(s)) /\ (n < Len(s) => Least(n, Len(s)) = n)
  BY DEF Least
<1>2. Take(s, n) \in Seq(T) /\ Len(Take(s, n)) = Least(n, Len(s))
  BY <1>1 DEF Take
<1>3. Drop(s, n) \in Seq(T) /\ Len(Drop(s, n)) = Len(s) - Least(n, Len(s))
  BY <1>1 DEF Drop
<1>4. ASSUME n >= Len(s) PROVE Take(s, n) = s /\ Drop(s, n) = <<>>
  <2>1. Take(s, n) = s
    BY <1>1, <1>4, SubSeqFull DEF Take
  <2>2. Drop(s, n) = <<>>
    BY <1>4 DEF Drop
  <2>3. QED
    BY <2>1, <2>2
<1>5. QED
  BY <1>2, <1>3, <1>4

\* The concatenation of some pieces in a row is a slice of the whole.
LEMMA FlattenSlice ==
  ASSUME NEW T, NEW n, NEW g, NEW o, Pieces(g, o, n, T),
         NEW d \in 0 .. n - 1, NEW k \in 1 .. n - d
  PROVE  FlattenSeq([j \in 1 .. k |-> g[d + j]]) = Slice(FlattenSeq(g), o[d], o[d + k])
<1>. DEFINE h == [j \in 1 .. k |-> g[d + j]]
            p == [j \in 0 .. k |-> o[d + j] - o[d]]
            G == FlattenSeq(g)
            H == FlattenSeq(h)
<1>1. n \in Nat \ {0} /\ \A i \in 1 .. n : g[i] \in Seq(T) /\ Len(g[i]) \in Nat /\ o[i] = o[i - 1] + Len(g[i])
  BY DEF Pieces
<1>2. /\ \A j \in 1 .. k : d + j \in 1 .. n /\ (d + j) - 1 = d + (j - 1) /\ j - 1 \in 0 .. k /\ j \in 0 .. k
      /\ \A j \in 0 .. k : d + j \in 0 .. n /\ d + j >= d
      /\ d \in 0 .. n /\ k \in Nat \ {0} /\ 0 \in 0 .. k /\ k \in 0 .. k /\ d + 0 = d /\ d + k <= n /\ n \in 0 .. n
  BY ONLY <1>1, d \in 0 .. n - 1, k \in 1 .. n - d
<1>3. /\ \A i \in 0 .. n : o[i] \in Nat
      /\ \A i, j \in 0 .. n : j <= i => o[j] <= o[i]
  BY PiecesGrow
<1>4. Laid(G, g, o, n, T)
  BY FlattenBlocks
<1>5. h \in [1 .. k -> Seq(T)] /\ \A j \in 1 .. k : h[j] = g[d + j]
  BY <1>1, <1>2
<1>6. \A j \in 0 .. k : o[d] \in Nat /\ o[d + j] \in Nat /\ o[d] <= o[d + j]
  BY <1>2, <1>3
<1>7. p \in [0 .. k -> Nat] /\ \A j \in 0 .. k : p[j] = o[d + j] - o[d] /\ p[j] \in Nat
  <2>1. \A j \in 0 .. k : o[d + j] - o[d] \in Nat
    BY <1>6
  <2>2. QED
    BY <2>1
<1>. HIDE DEF h, p, G
<1>8. \A j \in 0 .. k : o[d + j] = o[d] + p[j]
  <2>1. SUFFICES ASSUME NEW j \in 0 .. k PROVE o[d + j] = o[d] + p[j]
    OBVIOUS
  <2>2. o[d] \in Nat /\ o[d + j] \in Nat /\ p[j] = o[d + j] - o[d]
    BY <1>6, <1>7
  <2>3. QED
    BY ONLY <2>2
<1>9. Pieces(h, p, k, T)
  <2>1. p[0] = 0
    <3>1. p[0] = o[d] - o[d] /\ o[d] \in Nat
      BY <1>2, <1>6, <1>7
    <3>2. QED
      BY ONLY <3>1
  <2>2. \A j \in 1 .. k : p[j] = p[j - 1] + Len(h[j])
    <3>1. SUFFICES ASSUME NEW j \in 1 .. k PROVE p[j] = p[j - 1] + Len(h[j])
      OBVIOUS
    <3>2. o[d + j] = o[d + (j - 1)] + Len(h[j]) /\ Len(h[j]) \in Nat
      BY <1>1, <1>2, <1>5
    <3>. DEFINE A == o[d]
                B == p[j]
                C == p[j - 1]
                M == Len(h[j])
    <3>3. A \in Nat /\ B \in Nat /\ C \in Nat /\ M \in Nat /\ A + B = (A + C) + M
      BY <1>2, <1>6, <1>7, <1>8, <3>2
    <3>. HIDE DEF A, B, C, M
    <3>4. B = C + M
      BY <3>3
    <3>5. QED
      BY <3>4 DEF B, C, M
  <2>3. QED
    BY <1>2, <1>5, <1>7, <2>1, <2>2 DEF Pieces
<1>10. Laid(H, h, p, k, T)
  BY <1>9, FlattenBlocks
<1>. HIDE DEF H
<1>. DEFINE a == o[d]
            b == o[d + k]
            L == Slice(G, a, b)
<1>11. G \in Seq(T) /\ a \in 0 .. Len(G) /\ b \in a .. Len(G) /\ b - a = p[k] /\ p[k] \in Nat
  <2>1. a <= b /\ b <= o[n] /\ o[n] \in Nat /\ a \in Nat /\ b \in Nat /\ p[k] = b - a /\ p[k] \in Nat
    BY <1>2, <1>3, <1>7
  <2>2. G \in Seq(T) /\ Len(G) = o[n]
    BY <1>4 DEF Laid
  <2>. HIDE DEF a, b
  <2>3. QED
    BY ONLY <2>1, <2>2
<1>. HIDE DEF a, b
<1>12. L \in Seq(T) /\ Len(L) = p[k] /\ \A x \in 1 .. p[k] : L[x] = G[a + x]
  <2>1. L \in Seq(T) /\ Len(L) = b - a /\ \A x \in 1 .. b - a : L[x] = G[a + x]
    BY <1>11, SliceFacts
  <2>2. QED
    BY <1>11, <2>1
<1>13. H \in Seq(T) /\ Len(H) = p[k]
  BY <1>10 DEF Laid
<1>14. ASSUME NEW x \in 1 .. p[k] PROVE H[x] = G[a + x]
  <2>1. k \in Nat /\ p \in [0 .. k -> Nat] /\ p[0] = 0
    BY <1>9 DEF Pieces
  <2>2. PICK j \in 1 .. k : p[j - 1] < x /\ x <= p[j]
    BY <2>1, BlockOf
  <2>3. p[j - 1] \in Nat /\ p[j] \in Nat /\ p[j] = p[j - 1] + Len(h[j]) /\ x \in Nat /\ Len(h[j]) \in Nat
    <3>1. j - 1 \in 0 .. k /\ j \in 0 .. k /\ h[j] \in Seq(T)
      BY <1>2, <1>5
    <3>2. p[j - 1] \in Nat /\ p[j] \in Nat /\ Len(h[j]) \in Nat
      BY <1>7, <3>1
    <3>3. p[j] = p[j - 1] + Len(h[j])
      BY <1>9 DEF Pieces
    <3>4. x \in Nat
      BY <1>11
    <3>5. QED
      BY <3>2, <3>3, <3>4
  <2>. DEFINE y == x - p[j - 1]
  <2>4. y \in 1 .. Len(h[j]) /\ p[j - 1] + y = x
    BY ONLY <2>2, <2>3
  <2>. HIDE DEF y
  <2>5. H[x] = h[j][y]
    BY <1>10, <2>4 DEF Laid
  <2>6. h[j] = g[d + j] /\ d + j \in 1 .. n
    BY <1>2, <1>5
  <2>7. G[o[(d + j) - 1] + y] = g[d + j][y]
    BY <1>4, <2>4, <2>6 DEF Laid
  <2>8. o[(d + j) - 1] = a + p[j - 1] /\ a \in Nat /\ y \in Nat
    BY <1>2, <1>6, <1>8, <2>3, <2>4 DEF a
  <2>9. o[(d + j) - 1] + y = a + x
    BY <2>3, <2>4, <2>8, SMTT(30)
  <2>10. QED
    BY <2>5, <2>6, <2>7, <2>9
<1>. HIDE DEF L
<1>15. H = L
  <2>1. \A x \in 1 .. p[k] : H[x] = L[x]
    BY <1>12, <1>14
  <2>2. QED
    BY <1>12, <1>13, <2>1, SeqEqual
<1>16. QED
  BY <1>15 DEF H, L, G, h, a, b
-----------------------------------------------------------------------------
(* Concatenations of pieces. *)

\* The type of a concatenation.
LEMMA FlattenType ==
  ASSUME NEW T, NEW n \in Nat \ {0}, NEW g \in [1 .. n -> Seq(T)]
  PROVE  FlattenSeq(g) \in Seq(T)
<1>. DEFINE S == [k \in 0 .. n |-> Nat]
            F == [k \in 1 .. n |-> [x \in Nat |-> x + Len(g[k])]]
<1>1. \A k \in 0 .. n : S[k] = Nat
  OBVIOUS
<1>2. \A k \in 1 .. n : Len(g[k]) \in Nat
  OBVIOUS
<1>3. \A k \in 1 .. n : \A x \in Nat : F[k][x] = x + Len(g[k]) /\ x + Len(g[k]) \in Nat
  BY <1>2
<1>4. 0 \in 0 .. n /\ n \in 0 .. n /\ \A k \in 1 .. n : k \in 0 .. n /\ k - 1 \in 0 .. n
  OBVIOUS
<1>. HIDE DEF S, F
<1>5. PICK o : Iterates(o, n, 0, F, S)
  <2>1. 0 \in S[0]
    BY <1>1, <1>4
  <2>2. \A k \in 1 .. n : \A x \in S[k - 1] : F[k][x] \in S[k]
    <3>1. SUFFICES ASSUME NEW k \in 1 .. n, NEW x \in S[k - 1] PROVE F[k][x] \in S[k]
      OBVIOUS
    <3>2. S[k - 1] = Nat /\ S[k] = Nat
      BY <1>1, <1>4
    <3>3. QED
      BY <1>3, <3>2
  <2>3. n \in Nat
    OBVIOUS
  <2>4. QED
    BY <2>1, <2>2, <2>3, IterationExists
<1>6. /\ o = [k \in 0 .. n |-> o[k]] /\ o[0] = 0
      /\ \A k \in 1 .. n : o[k] = F[k][o[k - 1]]
      /\ \A k \in 0 .. n : o[k] \in S[k]
  BY <1>5, Zenon DEF Iterates
<1>7. \A k \in 0 .. n : o[k] \in Nat
  BY <1>1, <1>6
<1>8. o \in [0 .. n -> Nat]
  BY <1>6, <1>7
<1>9. \A k \in 1 .. n : o[k] = o[k - 1] + Len(g[k])
  BY <1>3, <1>4, <1>6, <1>7
<1>10. Pieces(g, o, n, T)
  BY <1>6, <1>8, <1>9 DEF Pieces
<1>11. QED
  BY <1>10, FlattenBlocks DEF Laid

\* Pieces of one length.
Even(g, n, z, T) ==
  n \in Nat \ {0} /\ g \in [1 .. n -> Seq(T)] /\ z \in {1, 2, 3} /\ \A i \in 1 .. n : Len(g[i]) = z

LaidEven(s, g, n, z, T) ==
  /\ s \in Seq(T) /\ Len(s) = z * n
  /\ \A i \in 1 .. n : \A k \in 1 .. z : s[z * (i - 1) + k] = g[i][k]

LEMMA FlattenEven ==
  ASSUME NEW T, NEW n, NEW g, NEW z, Even(g, n, z, T)
  PROVE  LaidEven(FlattenSeq(g), g, n, z, T)
<1>. USE DEF Even
<1>. DEFINE o == [i \in 0 .. n |-> z * i]
<1>1. o \in [0 .. n -> Nat] /\ o[0] = 0 /\ \A i \in 0 .. n : o[i] = z * i
  OBVIOUS
<1>2. \A i \in 1 .. n : z * i = (z * (i - 1)) + z
  OBVIOUS
<1>3. \A i \in 1 .. n : o[i] = o[i - 1] + Len(g[i])
  <2>1. SUFFICES ASSUME NEW i \in 1 .. n PROVE o[i] = o[i - 1] + z
    OBVIOUS
  <2>2. o[i] = z * i /\ o[i - 1] = z * (i - 1)
    OBVIOUS
  <2>3. QED
    BY <1>2, <2>2
<1>. HIDE DEF o
<1>4. Pieces(g, o, n, T)
  BY <1>1, <1>3 DEF Pieces
<1>5. Laid(FlattenSeq(g), g, o, n, T)
  BY <1>4, FlattenBlocks
<1>. DEFINE s == FlattenSeq(g)
<1>6. s \in Seq(T) /\ Len(s) = o[n] /\ \A i \in 1 .. n : \A k \in 1 .. Len(g[i]) : s[o[i - 1] + k] = g[i][k]
  BY <1>5 DEF Laid
<1>. HIDE DEF s
<1>7. o[n] = z * n /\ \A i \in 1 .. n : o[i - 1] = z * (i - 1)
  BY <1>1
<1>8. Len(s) = z * n
  BY ONLY <1>6, <1>7
<1>9. \A i \in 1 .. n : \A k \in 1 .. z : s[z * (i - 1) + k] = g[i][k]
  BY <1>6, <1>7, ZenonT(40)
<1>10. QED
  BY <1>6, <1>8, <1>9 DEF s, LaidEven
-----------------------------------------------------------------------------
(* The host's frames. *)

Byte  == [f : Nat, i : Nat, v : Nat]
Reply == [f : Nat, i : Nat, b : Nat]

\* The bytes of a stamped frame.
LEMMA StampFacts ==
  ASSUME NEW f \in Nat, NEW s \in Seq(Nat)
  PROVE  /\ Stamp(f, s) \in Seq(Byte) /\ Len(Stamp(f, s)) = Len(s)
         /\ \A i \in 1 .. Len(s) : Stamp(f, s)[i] = [f |-> f, i |-> i, v |-> s[i]]
<1>1. Len(s) \in Nat /\ \A i \in 1 .. Len(s) : i \in Nat /\ s[i] \in Nat
  OBVIOUS
<1>2. \A i \in 1 .. Len(s) : [f |-> f, i |-> i, v |-> s[i]] \in Byte
  BY <1>1 DEF Byte
<1>3. QED
  BY <1>1, <1>2 DEF Stamp

\* A header, and what is behind it.
HeadedBy(h, m, n, s) ==
  /\ h \in Seq(Nat) /\ Len(h) = 5 + Len(s)
  /\ h[1] = m /\ h[2] = (n % 256) /\ h[3] = n \div 256 /\ h[4] = 0 /\ h[5] = 0
  /\ \A i \in 1 .. Len(s) : h[5 + i] = s[i]

LEMMA HeaderFacts ==
  ASSUME NEW m \in Nat, NEW n \in Nat, NEW s \in Seq(Nat)
  PROVE  /\ HeadedBy(Header(m, n) \o s, m, n, s)
         /\ Header(m, n) \in Seq(Nat) /\ Len(Header(m, n)) = 5
<1>. DEFINE d == Header(m, n)
            h == d \o s
<1>1. (n % 256) \in Nat /\ n \div 256 \in Nat
  OBVIOUS
<1>2. /\ d \in Seq(Nat) /\ Len(d) = 5
      /\ d[1] = m /\ d[2] = (n % 256) /\ d[3] = n \div 256 /\ d[4] = 0 /\ d[5] = 0
  BY <1>1 DEF Header
<1>. HIDE DEF d
<1>3. h \in Seq(Nat) /\ Len(h) = Len(d) + Len(s)
  <2>1. d \in Seq(Nat) /\ s \in Seq(Nat)
    BY <1>2
  <2>2. QED
    BY ONLY <2>1
<1>4. /\ \A x \in 1 .. Len(d) : h[x] = d[x]
      /\ \A k \in 1 .. Len(s) : h[Len(d) + k] = s[k]
  <2>1. d \in Seq(Nat) /\ s \in Seq(Nat)
    BY <1>2
  <2>. HIDE DEF h
  <2>2. h = d \o s
    BY DEF h
  <2>3. QED
    BY ONLY <2>1, <2>2, ConcatPlaces
<1>5. 1 \in 1 .. 5 /\ 2 \in 1 .. 5 /\ 3 \in 1 .. 5 /\ 4 \in 1 .. 5 /\ 5 \in 1 .. 5
  OBVIOUS
<1>. HIDE DEF h
<1>6. h[1] = d[1] /\ h[2] = d[2] /\ h[3] = d[3] /\ h[4] = d[4] /\ h[5] = d[5]
  BY <1>2, <1>4, <1>5
<1>7. (\A i \in 1 .. Len(s) : h[5 + i] = s[i]) /\ Len(h) = 5 + Len(s)
  BY <1>2, <1>3, <1>4
<1>8. QED
  BY <1>2, <1>3, <1>6, <1>7, Zenon DEF h, d, HeadedBy

\* The number that a header announces.
LEMMA CountBack ==
  ASSUME NEW n \in Nat
  PROVE  (n % 256) + 256 * (n \div 256 + 256 * (0 + 256 * 0)) = n
OBVIOUS

\* The frame of n cycles.
IsX(s, n) ==
  /\ s \in Seq(Nat) /\ Len(s) = 5 + 2 * n
  /\ s[1] = MODE_X /\ s[2] = (n % 256) /\ s[3] = n \div 256 /\ s[4] = 0 /\ s[5] = 0

LEMMA XFacts ==
  ASSUME NEW c \in Nat, NEW n \in Nat \ {0}
  PROVE  IsX(XBytes(c, n), n)
<1>. DEFINE g == [i \in 1 .. n |-> <<c, 0>>]
            s == FlattenSeq(g)
<1>1. g \in [1 .. n -> Seq(Nat)] /\ \A i \in 1 .. n : Len(g[i]) = 2
  OBVIOUS
<1>2. n \in Nat \ {0} /\ n \in Nat /\ 2 \in {1, 2, 3} /\ MODE_X \in Nat
  BY DEF MODE_X
<1>. HIDE DEF g
<1>3. s \in Seq(Nat) /\ Len(s) = 2 * n
  <2>1. Even(g, n, 2, Nat)
    BY <1>1, <1>2 DEF Even
  <2>2. LaidEven(s, g, n, 2, Nat)
    BY <2>1, FlattenEven
  <2>3. QED
    BY <2>2 DEF LaidEven
<1>. HIDE DEF s
<1>4. HeadedBy(Header(MODE_X, n) \o s, MODE_X, n, s)
  BY <1>2, <1>3, HeaderFacts
<1>5. XBytes(c, n) = Header(MODE_X, n) \o s
  BY DEF XBytes, s, g
<1>6. QED
  BY <1>3, <1>4, <1>5 DEF HeadedBy, IsX

\* The frame of a plan.
LEMMA MFacts ==
  ASSUME NEW p \in Plans
  PROVE  /\ MBytes(p) \in Seq(Nat) /\ Len(MBytes(p)) = 5 + 3 * Len(p)
         /\ MBytes(p)[1] = MODE_M /\ MBytes(p)[2] = (Len(p) % 256) /\ MBytes(p)[3] = Len(p) \div 256
         /\ MBytes(p)[4] = 0 /\ MBytes(p)[5] = 0
         /\ \A j \in 1 .. Len(p) : MBytes(p)[5 + 3 * j] = EndsFlag(p[j])
<1>. DEFINE n == Len(p)
            g == [i \in 1 .. n |-> <<1, 1, EndsFlag(p[i])>>]
            s == FlattenSeq(g)
<1>1. p \in Seq(BOOLEAN) /\ n \in Nat \ {0}
  <2>1. p \in Seq(BOOLEAN) /\ p # <<>>
    BY LinkAssumption, Zenon
  <2>2. QED
    BY <2>1
<1>2. n \in Nat \ {0} /\ n \in Nat /\ MODE_M \in Nat
  <2>1. n \in Nat \ {0}
    BY <1>1
  <2>. HIDE DEF n
  <2>2. QED
    BY ONLY <2>1 DEF MODE_M
<1>. HIDE DEF n
<1>3. \A i \in 1 .. n : EndsFlag(p[i]) \in Nat
  BY DEF EndsFlag
<1>4. g \in [1 .. n -> Seq(Nat)] /\ \A i \in 1 .. n : Len(g[i]) = 3 /\ g[i][3] = EndsFlag(p[i])
  BY <1>3
<1>. HIDE DEF g
<1>5. /\ s \in Seq(Nat) /\ Len(s) = 3 * n
      /\ \A i \in 1 .. n : \A k \in 1 .. 3 : s[3 * (i - 1) + k] = g[i][k]
  <2>1. Even(g, n, 3, Nat)
    BY <1>2, <1>4 DEF Even
  <2>2. LaidEven(s, g, n, 3, Nat)
    BY <2>1, FlattenEven
  <2>3. QED
    BY <2>2 DEF LaidEven
<1>. HIDE DEF s
<1>. DEFINE h == Header(MODE_M, n) \o s
<1>6. /\ h \in Seq(Nat) /\ Len(h) = 5 + Len(s)
      /\ h[1] = MODE_M /\ h[2] = (n % 256) /\ h[3] = n \div 256 /\ h[4] = 0 /\ h[5] = 0
      /\ \A i \in 1 .. Len(s) : h[5 + i] = s[i]
  <2>1. HeadedBy(h, MODE_M, n, s)
    BY <1>2, <1>5, HeaderFacts
  <2>2. QED
    BY <2>1, Zenon DEF HeadedBy
<1>. HIDE DEF h
<1>7. ASSUME NEW j \in 1 .. n PROVE h[5 + 3 * j] = EndsFlag(p[j])
  <2>1. 3 * (j - 1) + 3 = 3 * j /\ 3 * j \in 1 .. 3 * n /\ 3 \in 1 .. 3
    BY <1>2
  <2>2. s[3 * j] = g[j][3]
    BY <1>5, <2>1
  <2>3. h[5 + 3 * j] = s[3 * j]
    BY <1>5, <1>6, <2>1
  <2>4. QED
    BY <1>4, <2>2, <2>3
<1>8. MBytes(p) = h
  BY DEF MBytes, h, s, g, n
<1>9. QED
  BY <1>5, <1>6, <1>7, <1>8 DEF n

Trips == [bytes : Seq(Nat), replies : Nat, must : BOOLEAN]

\* The frames of the bring-up.
LEMMA BringUpFacts ==
  /\ BringUp \in Seq(Trips) /\ Len(BringUp) = 5
  /\ BringUp[1] = Trip(Header(MODE_a, 0), 0, TRUE) /\ BringUp[2] = Trip(XBytes(CMD_NOP, 8), 8, FALSE)
  /\ BringUp[3] = Trip(Header(MODE_d, 0), 0, TRUE) /\ BringUp[4] = Trip(XBytes(CMD_NOP, 4), 4, FALSE)
  /\ BringUp[5] = Trip(XBytes(CMD_STATUS, 1), 1, TRUE)
<1>1. Header(MODE_a, 0) \in Seq(Nat) /\ Header(MODE_d, 0) \in Seq(Nat)
  <2>1. MODE_a \in Nat /\ MODE_d \in Nat /\ 0 \in Nat /\ <<>> \in Seq(Nat)
    BY DEF MODE_a, MODE_d
  <2>2. QED
    BY <2>1, HeaderFacts
<1>2. XBytes(CMD_NOP, 8) \in Seq(Nat) /\ XBytes(CMD_NOP, 4) \in Seq(Nat) /\ XBytes(CMD_STATUS, 1) \in Seq(Nat)
  <2>1. CMD_NOP \in Nat /\ CMD_STATUS \in Nat /\ 8 \in Nat \ {0} /\ 4 \in Nat \ {0} /\ 1 \in Nat \ {0}
    BY DEF CMD_NOP, CMD_STATUS
  <2>2. QED
    BY <2>1, XFacts, ZenonT(40) DEF IsX
<1>3. \A s \in Seq(Nat) : \A n \in Nat : \A m \in BOOLEAN : Trip(s, n, m) \in Trips
  BY DEF Trip, Trips
<1>4. /\ Trip(Header(MODE_a, 0), 0, TRUE) \in Trips /\ Trip(XBytes(CMD_NOP, 8), 8, FALSE) \in Trips
      /\ Trip(Header(MODE_d, 0), 0, TRUE) \in Trips /\ Trip(XBytes(CMD_NOP, 4), 4, FALSE) \in Trips
      /\ Trip(XBytes(CMD_STATUS, 1), 1, TRUE) \in Trips
  BY <1>1, <1>2, <1>3
<1>. DEFINE x1 == Trip(Header(MODE_a, 0), 0, TRUE)
            x2 == Trip(XBytes(CMD_NOP, 8), 8, FALSE)
            x3 == Trip(Header(MODE_d, 0), 0, TRUE)
            x4 == Trip(XBytes(CMD_NOP, 4), 4, FALSE)
            x5 == Trip(XBytes(CMD_STATUS, 1), 1, TRUE)
<1>5. x1 \in Trips /\ x2 \in Trips /\ x3 \in Trips /\ x4 \in Trips /\ x5 \in Trips
  BY <1>4
<1>6. BringUp = <<x1, x2, x3, x4, x5>>
  BY DEF BringUp
<1>. HIDE DEF x1, x2, x3, x4, x5
<1>7. /\ BringUp \in Seq(Trips) /\ Len(BringUp) = 5
      /\ BringUp[1] = x1 /\ BringUp[2] = x2 /\ BringUp[3] = x3 /\ BringUp[4] = x4 /\ BringUp[5] = x5
  BY ONLY <1>5, <1>6
<1>8. QED
  BY <1>7 DEF x1, x2, x3, x4, x5
-----------------------------------------------------------------------------
(* What the state is made of. *)

HostType ==
  /\ Wrapper \in Processes /\ wrapper \in [Wrapper -> {"none", "live", "dead"}]
  /\ conn \in [open : BOOLEAN, reset_done : BOOLEAN, reset_ok : BOOLEAN]
  /\ call # NoCall => call \in Call /\ call.w \in Wrapper /\ Len(call.trips) > 0
  /\ frames \in Nat /\ opens \in Nat

LinkType ==
  /\ rx_ff \in Seq(Byte) /\ tx_ff \in Seq(Reply) /\ ep_in \in Seq(Reply) /\ pend \in Seq(Reply)
  /\ Len(rx_ff) <= RXFIFO /\ Len(tx_ff) <= TXFIFO /\ Len(ep_in) <= PACKET

FwType ==
  /\ fw \in [mode : {"hdr", "X", "M"}, buf : Seq(Byte), left : Nat]
  /\ (fw.mode # "hdr" => fw.left > 0) /\ Len(fw.buf) <= Need

TypeInv == HostType /\ LinkType /\ FwType

\* The constants, without the plans.
LEMMA Sizes ==
  /\ PACKET \in Nat /\ PACKET >= 21 /\ XCHUNK \in Nat /\ XCHUNK >= 8 /\ MCHUNK \in Nat \ {0}
  /\ RXFIFO \in Nat /\ TXFIFO \in Nat /\ TXFIFO >= 13
BY LinkAssumption, Zenon

\* A plan's length.
LEMMA PlanFacts == \A p \in Plans : p \in Seq(BOOLEAN) /\ Len(p) \in Nat \ {0} /\ p[Len(p)] = TRUE
<1>1. SUFFICES ASSUME NEW p \in Plans PROVE p \in Seq(BOOLEAN) /\ Len(p) \in Nat \ {0} /\ p[Len(p)] = TRUE
  OBVIOUS
<1>2. p \in Seq(BOOLEAN) /\ p # <<>> /\ p[Len(p)] = TRUE
  BY LinkAssumption, Zenon
<1>3. Len(p) \in Nat \ {0}
  BY <1>2
<1>4. QED
  BY <1>2, <1>3

\* The initial state.
LEMMA TypeInit == Init => TypeInv
<1>. SUFFICES ASSUME Init PROVE TypeInv
  OBVIOUS
<1>1. PICK S \in Processes : wrapper = [w \in S |-> "none"]
  BY DEF Init
<1>2. Wrapper \in Processes /\ wrapper \in [Wrapper -> {"none", "live", "dead"}]
  BY <1>1 DEF Wrapper
<1>3. HostType
  BY <1>2 DEF Init, HostType
<1>4. LinkType
  BY Sizes DEF Init, LinkType
<1>5. FwType
  BY DEF Init, FwType, Need
<1>6. QED
  BY <1>3, <1>4, <1>5 DEF TypeInv

\* A call's record.
LEMMA CallFields ==
  ASSUME HostType, call # NoCall
  PROVE  /\ call.w \in Wrapper /\ call.kind \in {"create", "execute", "status"} /\ call.plan \in Seq(BOOLEAN)
         /\ call.trips \in Seq(Trips) /\ Len(call.trips) > 0 /\ call.got \in Seq(Reply)
         /\ call.tx \in Seq(Byte) /\ call.first \in Nat /\ call \in Call
         /\ Head(call.trips) \in Trips
<1>1. call \in Call /\ call.w \in Wrapper /\ Len(call.trips) > 0
  BY DEF HostType
<1>2. /\ call.kind \in {"create", "execute", "status"} /\ call.plan \in Seq(BOOLEAN)
      /\ call.trips \in Seq(Trips) /\ call.got \in Seq(Reply)
      /\ call.tx \in Seq(Byte) /\ call.first \in Nat
  BY <1>1 DEF Call, Trips, Byte, Reply
<1>3. Head(call.trips) \in Trips
  BY <1>1, <1>2
<1>4. QED
  BY <1>1, <1>2, <1>3

\* A call starts.
LEMMA BeginType ==
  ASSUME HostType, NEW w \in Wrapper, NEW kind \in {"create", "execute", "status"}, NEW plan \in Seq(BOOLEAN),
         NEW trips \in Seq(Trips), Len(trips) > 0, Begin(w, kind, plan, trips)
  PROVE  call' \in Call /\ call'.w = w /\ Len(call'.trips) > 0 /\ frames' \in Nat
<1>1. frames \in Nat /\ frames + 1 \in Nat /\ w \in UNION Processes
  BY DEF HostType
<1>2. Head(trips) \in Trips
  OBVIOUS
<1>3. Head(trips).bytes \in Seq(Nat)
  BY <1>2 DEF Trips
<1>4. Stamp(frames + 1, Head(trips).bytes) \in Seq(Byte)
  BY <1>1, <1>3, StampFacts
<1>5. <<>> \in Seq(Reply)
  OBVIOUS
<1>6. /\ call' = [w |-> w, kind |-> kind, plan |-> plan, trips |-> trips, got |-> <<>>,
                  tx |-> Stamp(frames + 1, Head(trips).bytes), first |-> frames + 1]
      /\ frames' = frames + 1
  BY DEF Begin
<1>7. call' \in Call
  BY <1>1, <1>4, <1>5, <1>6 DEF Call, Trips, Byte, Reply
<1>8. QED
  BY <1>1, <1>6, <1>7

\* The replies of a plan, op by op.
LEMMA UptoFacts ==
  ASSUME NEW p \in Plans
  PROVE  LET o == RepliesUpto(p)
         IN  /\ o \in [0 .. Len(p) -> Nat] /\ o[0] = 0
             /\ \A i \in 1 .. Len(p) : o[i] = o[i - 1] + (IF p[i] THEN 4 ELSE 0)
<1>. DEFINE n == Len(p)
            T(i) == IF p[i] THEN 4 ELSE 0
            S == [i \in 0 .. n |-> Nat]
            F == [i \in 1 .. n |-> [m \in Nat |-> m + T(i)]]
            Solves(f) == f = [i \in 0 .. n |-> IF i = 0 THEN 0 ELSE f[i - 1] + T(i)]
            d == CHOOSE f : Solves(f)
<1>1. n \in Nat
  BY PlanFacts
<1>. HIDE DEF n
<1>2. 0 \in 0 .. n /\ \A i \in 1 .. n : i \in 0 .. n /\ i - 1 \in 0 .. n /\ i # 0
  BY <1>1
<1>3. \A i \in 1 .. n : T(i) \in Nat
  OBVIOUS
<1>. HIDE DEF T
<1>4. /\ \A i \in 0 .. n : S[i] = Nat
      /\ \A i \in 1 .. n : \A m \in Nat : F[i][m] = m + T(i)
  OBVIOUS
<1>. HIDE DEF S, F
<1>5. \A i \in 1 .. n : \A m \in Nat : m + T(i) \in Nat
  BY <1>3
<1>6. \E f : Solves(f)
  <2>1. 0 \in S[0]
    BY <1>2, <1>4
  <2>2. \A i \in 1 .. n : \A m \in S[i - 1] : F[i][m] \in S[i]
    <3>1. SUFFICES ASSUME NEW i \in 1 .. n, NEW m \in S[i - 1] PROVE F[i][m] \in S[i]
      OBVIOUS
    <3>2. S[i - 1] = Nat /\ S[i] = Nat
      BY <1>2, <1>4
    <3>3. QED
      BY <1>4, <1>5, <3>2
  <2>3. PICK f : Iterates(f, n, 0, F, S)
    BY <1>1, <2>1, <2>2, IterationExists
  <2>4. /\ f = [i \in 0 .. n |-> f[i]] /\ f[0] = 0
        /\ \A i \in 1 .. n : f[i] = F[i][f[i - 1]]
        /\ \A i \in 0 .. n : f[i] \in S[i]
    BY <2>3, Zenon DEF Iterates
  <2>5. \A i \in 0 .. n : f[i] = IF i = 0 THEN 0 ELSE f[i - 1] + T(i)
    <3>1. SUFFICES ASSUME NEW i \in 0 .. n, i # 0 PROVE f[i] = f[i - 1] + T(i)
      BY <2>4
    <3>2. i \in 1 .. n /\ i - 1 \in 0 .. n
      BY <1>1, <3>1
    <3>3. f[i - 1] \in Nat /\ f[i] = F[i][f[i - 1]]
      BY <1>4, <2>4, <3>2
    <3>4. QED
      BY <1>4, <3>2, <3>3
  <2>6. [i \in 0 .. n |-> f[i]] = [i \in 0 .. n |-> IF i = 0 THEN 0 ELSE f[i - 1] + T(i)]
    BY <2>5
  <2>7. Solves(f)
    BY <2>4, <2>6
  <2>8. QED
    BY <2>7
<1>7. RepliesUpto(p) = d
  BY DEF RepliesUpto, T, n
<1>8. Solves(d)
  BY <1>6
<1>. HIDE DEF d
<1>9. d[0] = 0 /\ \A i \in 1 .. n : d[i] = d[i - 1] + T(i)
  BY <1>2, <1>8
<1>10. \A i \in 0 .. n : d[i] \in S[i]
  <2>1. d[0] \in S[0]
    BY <1>2, <1>4, <1>9
  <2>2. \A i \in 1 .. n : d[i - 1] \in S[i - 1] => d[i] \in S[i]
    <3>1. SUFFICES ASSUME NEW i \in 1 .. n, d[i - 1] \in S[i - 1] PROVE d[i] \in S[i]
      OBVIOUS
    <3>2. S[i - 1] = Nat /\ S[i] = Nat
      BY <1>2, <1>4
    <3>3. d[i - 1] \in Nat
      BY <3>1, <3>2
    <3>4. d[i] \in Nat
      BY <1>3, <1>9, <3>3
    <3>5. QED
      BY <3>2, <3>4
  <2>3. QED
    BY <1>1, <2>1, <2>2, IterationStays
<1>11. \A i \in 0 .. n : d[i] \in Nat
  BY <1>4, <1>10
<1>12. d = [i \in 0 .. n |-> d[i]]
  BY <1>8
<1>13. d \in [0 .. n -> Nat]
  BY <1>11, <1>12
<1>14. QED
  BY <1>7, <1>9, <1>13 DEF n, T

LEMMA ReplyBytesType == \A p \in Plans : ReplyBytes(p) \in Nat
<1>1. SUFFICES ASSUME NEW p \in Plans PROVE ReplyBytes(p) \in Nat
  OBVIOUS
<1>2. Len(p) \in 0 .. Len(p) /\ RepliesUpto(p) \in [0 .. Len(p) -> Nat]
  BY PlanFacts, UptoFacts
<1>3. QED
  BY <1>2 DEF ReplyBytes

\* A call ends.
LEMMA ReturnType ==
  ASSUME HostType, call # NoCall, NEW ok \in BOOLEAN, NEW got, Return(ok, got), opens' = opens
  PROVE  HostType' /\ Wrapper' = Wrapper /\ call' = NoCall
<1>1. call' = NoCall /\ wrapper' = [wrapper EXCEPT ![call.w] = IF ok THEN "live" ELSE "dead"] /\ frames' = frames
      /\ conn' = IF call.kind = "create" THEN [conn EXCEPT !.reset_done = TRUE, !.reset_ok = ok] ELSE conn
  BY DEF Return
<1>2. Wrapper' = Wrapper /\ wrapper' \in [Wrapper -> {"none", "live", "dead"}]
  BY <1>1 DEF HostType, Wrapper
<1>3. conn' \in [open : BOOLEAN, reset_done : BOOLEAN, reset_ok : BOOLEAN]
  <2>1. conn \in [open : BOOLEAN, reset_done : BOOLEAN, reset_ok : BOOLEAN]
    BY DEF HostType
  <2>2. QED
    BY ONLY <1>1, <2>1, ok \in BOOLEAN
<1>4. QED
  BY <1>1, <1>2, <1>3 DEF HostType

\* A round trip ends.
LEMMA EndTripType ==
  ASSUME HostType, call # NoCall, NEW got, EndTrip(got), opens' = opens
  PROVE  HostType' /\ Wrapper' = Wrapper
<1>. USE CallFields
<1>1. CASE Len(call.trips) > 1 /\ call' = [call EXCEPT !.trips = Tail(@), !.got = <<>>,
                                             !.tx = Stamp(frames + 1, call.trips[2].bytes)]
           /\ frames' = frames + 1 /\ UNCHANGED <<wrapper, conn, ret>>
  <2>1. call.trips \in Seq(Trips) /\ call.trips[2] \in Trips
    BY <1>1
  <2>2. Tail(call.trips) \in Seq(Trips) /\ Len(Tail(call.trips)) > 0
    BY <1>1, <2>1
  <2>3. frames + 1 \in Nat /\ frames \in Nat
    BY DEF HostType
  <2>4. Stamp(frames + 1, call.trips[2].bytes) \in Seq(Byte)
    <3>1. call.trips[2].bytes \in Seq(Nat)
      BY <2>1 DEF Trips
    <3>2. QED
      BY <2>3, <3>1, StampFacts
  <2>5. <<>> \in Seq(Reply) /\ call \in Call
    OBVIOUS
  <2>6. call' = [call EXCEPT !.trips = Tail(@), !.got = <<>>, !.tx = Stamp(frames + 1, call.trips[2].bytes)]
    BY <1>1
  <2>7. call' \in Call /\ call'.w = call.w /\ call'.trips = Tail(call.trips)
    BY ONLY <2>2, <2>4, <2>5, <2>6 DEF Call, Trips, Byte, Reply
  <2>8. QED
    BY <1>1, <2>2, <2>3, <2>7 DEF HostType, Wrapper
<1>2. CASE Return(TRUE, got)
  BY <1>2, ReturnType
<1>3. CASE \E ready \in BOOLEAN : (got[1].b = 0 => ready = chip_ok) /\ Return(ready, got)
  BY <1>3, ReturnType
<1>4. QED
  BY <1>1, <1>2, <1>3 DEF EndTrip

\* A round trip fails.
LEMMA FailTripType ==
  ASSUME HostType, call # NoCall, FailTrip, opens' = opens
  PROVE  HostType' /\ Wrapper' = Wrapper
<1>1. CASE Return(FALSE, <<>>)
  BY <1>1, ReturnType
<1>2. CASE EndTrip(<<>>)
  BY <1>2, EndTripType
<1>3. QED
  BY <1>1, <1>2 DEF FailTrip

\* A field of the call changes.
LEMMA CallUpdate ==
  ASSUME HostType, call # NoCall, UNCHANGED <<wrapper, conn, frames, opens>>,
         \/ \E s \in Seq(Byte) : call' = [call EXCEPT !.tx = s]
         \/ \E s \in Seq(Reply) : call' = [call EXCEPT !.got = s]
  PROVE  HostType' /\ Wrapper' = Wrapper
<1>1. call \in Call /\ call.w \in Wrapper /\ Len(call.trips) > 0
  BY CallFields
<1>2. call' \in Call /\ call'.w = call.w /\ call'.trips = call.trips
  <2>1. CASE \E s \in Seq(Byte) : call' = [call EXCEPT !.tx = s]
    <3>1. PICK s \in Seq(Byte) : call' = [call EXCEPT !.tx = s]
      BY <2>1
    <3>2. QED
      BY ONLY <1>1, <3>1 DEF Call, Byte
  <2>2. CASE \E s \in Seq(Reply) : call' = [call EXCEPT !.got = s]
    <3>1. PICK s \in Seq(Reply) : call' = [call EXCEPT !.got = s]
      BY <2>2
    <3>2. QED
      BY ONLY <1>1, <3>1 DEF Call, Reply
  <2>3. QED
    BY <2>1, <2>2
<1>3. QED
  BY <1>1, <1>2 DEF HostType, Wrapper

LEMMA OneTrip == \A t \in Trips : <<t>> \in Seq(Trips) /\ Len(<<t>>) = 1 /\ Len(<<t>>) > 0 /\ Head(<<t>>) = t
OBVIOUS

\* The calls of the host.
LEMMA HostStepType ==
  ASSUME HostType, NEW w \in Wrapper,
         \/ Create(w) \/ OpenFails(w) \/ Status(w) \/ Refuse(w) \/ Free(w)
         \/ \E plan \in Plans : Execute(w, plan)
  PROVE  HostType' /\ Wrapper' = Wrapper
<1>1. CASE Create(w)
  <2>1. CASE ~conn.open
    <3>1. Begin(w, "create", <<>>, BringUp) /\ wrapper' = wrapper /\ opens' = opens + 1
          /\ conn' = [open |-> TRUE, reset_done |-> FALSE, reset_ok |-> FALSE]
      BY <1>1, <2>1 DEF Create
    <3>2. BringUp \in Seq(Trips) /\ Len(BringUp) > 0
      BY BringUpFacts
    <3>3. call' \in Call /\ call'.w = w /\ Len(call'.trips) > 0 /\ frames' \in Nat
      <4>1. "create" \in {"create", "execute", "status"} /\ <<>> \in Seq(BOOLEAN)
        OBVIOUS
      <4>2. QED
        BY <3>1, <3>2, <4>1, BeginType
    <3>4. QED
      BY <3>1, <3>3 DEF HostType, Wrapper
  <2>2. CASE conn.open
    <3>1. /\ wrapper' = [wrapper EXCEPT ![w] = IF conn.reset_ok THEN "live" ELSE "dead"]
          /\ UNCHANGED <<conn, call, frames, opens>>
      BY <1>1, <2>2 DEF Create
    <3>2. Wrapper' = Wrapper /\ wrapper' \in [Wrapper -> {"none", "live", "dead"}]
      BY <3>1 DEF HostType, Wrapper
    <3>3. QED
      BY <3>1, <3>2 DEF HostType
  <2>3. QED
    BY <2>1, <2>2
<1>2. CASE OpenFails(w)
  BY <1>2 DEF OpenFails, HostType, Wrapper
<1>3. CASE Status(w)
  <2>. DEFINE trips == <<Trip(XBytes(CMD_STATUS, 1), 1, TRUE)>>
  <2>1. trips \in Seq(Trips) /\ Len(trips) > 0
    <3>1. Trip(XBytes(CMD_STATUS, 1), 1, TRUE) \in Trips
      <4>1. CMD_STATUS \in Nat /\ 1 \in Nat \ {0}
        BY DEF CMD_STATUS
      <4>2. QED
        BY <4>1, XFacts DEF Trip, Trips, IsX
    <3>2. QED
      BY <3>1, OneTrip, Zenon
  <2>. HIDE DEF trips
  <2>2. Begin(w, "status", <<>>, trips) /\ UNCHANGED <<wrapper, conn, opens>>
    BY <1>3 DEF Status, trips
  <2>3. call' \in Call /\ call'.w = w /\ Len(call'.trips) > 0 /\ frames' \in Nat
    <3>1. "status" \in {"create", "execute", "status"} /\ <<>> \in Seq(BOOLEAN)
      OBVIOUS
    <3>2. QED
      BY <2>1, <2>2, <3>1, BeginType
  <2>4. QED
    BY <2>2, <2>3 DEF HostType, Wrapper
<1>4. CASE Refuse(w)
  BY <1>4 DEF Refuse, HostType, Wrapper
<1>5. CASE Free(w)
  <2>1. /\ wrapper' = [wrapper EXCEPT ![w] = "none"]
        /\ conn' = [conn EXCEPT !.open = \E o \in Wrapper \ {w} : wrapper[o] # "none"]
        /\ UNCHANGED <<call, frames, opens>>
    BY <1>5 DEF Free
  <2>2. Wrapper' = Wrapper /\ wrapper' \in [Wrapper -> {"none", "live", "dead"}]
    BY <2>1 DEF HostType, Wrapper
  <2>3. conn' \in [open : BOOLEAN, reset_done : BOOLEAN, reset_ok : BOOLEAN]
    <3>. DEFINE e == \E o \in Wrapper \ {w} : wrapper[o] # "none"
    <3>1. e \in BOOLEAN /\ conn' = [conn EXCEPT !.open = e]
      BY <2>1
    <3>2. conn \in [open : BOOLEAN, reset_done : BOOLEAN, reset_ok : BOOLEAN]
      BY DEF HostType
    <3>. HIDE DEF e
    <3>3. QED
      BY ONLY <3>1, <3>2
  <2>4. QED
    BY <2>1, <2>2, <2>3 DEF HostType
<1>6. CASE \E plan \in Plans : Execute(w, plan)
  <2>1. PICK plan \in Plans : Execute(w, plan)
    BY <1>6
  <2>. DEFINE trips == <<Trip(MBytes(plan), ReplyBytes(plan), TRUE)>>
  <2>2. trips \in Seq(Trips) /\ Len(trips) > 0
    <3>1. Trip(MBytes(plan), ReplyBytes(plan), TRUE) \in Trips
      BY MFacts, ReplyBytesType DEF Trip, Trips
    <3>2. QED
      BY <3>1, OneTrip, Zenon
  <2>. HIDE DEF trips
  <2>3. Begin(w, "execute", plan, trips) /\ UNCHANGED <<wrapper, conn, opens>>
    BY <2>1 DEF Execute, trips
  <2>4. call' \in Call /\ call'.w = w /\ Len(call'.trips) > 0 /\ frames' \in Nat
    BY <2>2, <2>3, BeginType, PlanFacts
  <2>5. QED
    BY <2>3, <2>4 DEF HostType, Wrapper
<1>7. QED
  BY <1>1, <1>2, <1>3, <1>4, <1>5, <1>6

\* The reply bytes of a chunk.
LEMMA RepliesType ==
  ASSUME NEW s \in Seq(Byte), NEW n \in Nat \ {0}, NEW m,
         \/ m = "X" /\ Len(s) = 2 * n
         \/ m = "M" /\ Len(s) = 3 * n
  PROVE  Replies(m, s, n) \in Seq(Reply)
<1>. DEFINE P(j) == IF m = "X" THEN <<ReplyTo(s[2 * j - 1], 0)>>
                    ELSE IF (s[3 * j].v \div 32) % 2 = 1 THEN [b \in 1 .. 4 |-> ReplyTo(s[3 * j - 2], b)]
                    ELSE <<>>
            g == [j \in 1 .. n |-> P(j)]
<1>1. \A x \in Byte : \A b \in Nat : ReplyTo(x, b) \in Reply
  BY DEF ReplyTo, Byte, Reply
<1>2. \A j \in 1 .. n : P(j) \in Seq(Reply)
  <2>1. SUFFICES ASSUME NEW j \in 1 .. n PROVE P(j) \in Seq(Reply)
    OBVIOUS
  <2>2. CASE m = "X"
    <3>1. s[2 * j - 1] \in Byte
      BY <2>2
    <3>2. ReplyTo(s[2 * j - 1], 0) \in Reply
      BY <1>1, <3>1
    <3>3. QED
      BY <2>2, <3>2
  <2>3. CASE m # "X"
    <3>1. s[3 * j - 2] \in Byte
      BY <2>3
    <3>2. \A b \in 1 .. 4 : ReplyTo(s[3 * j - 2], b) \in Reply
      BY <1>1, <3>1
    <3>3. [b \in 1 .. 4 |-> ReplyTo(s[3 * j - 2], b)] \in Seq(Reply) /\ <<>> \in Seq(Reply)
      BY <3>2
    <3>4. QED
      BY <2>3, <3>3
  <2>4. QED
    BY <2>2, <2>3
<1>. HIDE DEF P
<1>3. g \in [1 .. n -> Seq(Reply)]
  BY <1>2
<1>. HIDE DEF g
<1>4. FlattenSeq(g) \in Seq(Reply)
  BY <1>3, FlattenType
<1>5. QED
  BY <1>4 DEF Replies, g, P

\* What the firmware waits for.
LEMMA NeedFacts ==
  ASSUME FwType
  PROVE  /\ fw.mode \in {"hdr", "X", "M"} /\ fw.buf \in Seq(Byte) /\ fw.left \in Nat
         /\ Len(fw.buf) \in Nat /\ Need \in Nat \ {0} /\ Len(fw.buf) <= Need
         /\ fw.mode = "hdr" => Need = 5
         /\ fw.mode # "hdr" => /\ Batch \in 1 .. fw.left
                               /\ fw.mode = "X" => Need = 2 * Batch
                               /\ fw.mode = "M" => Need = 3 * Batch
<1>1. /\ fw.mode \in {"hdr", "X", "M"} /\ fw.buf \in Seq(Byte) /\ fw.left \in Nat
      /\ (fw.mode # "hdr" => fw.left > 0) /\ Len(fw.buf) <= Need
  BY DEF FwType
<1>2. fw.mode # "hdr" => Batch \in 1 .. fw.left
  BY <1>1, Sizes DEF Batch, Least
<1>3. /\ fw.mode = "hdr" => Need = 5
      /\ fw.mode = "X" => Need = 2 * Batch
      /\ fw.mode = "M" => Need = 3 * Batch
  BY <1>1 DEF Need
<1>4. Need \in Nat \ {0}
  <2>1. CASE fw.mode = "hdr"
    BY <1>3, <2>1
  <2>2. CASE fw.mode # "hdr"
    <3>. DEFINE k == Batch
    <3>1. k \in Nat \ {0} /\ (Need = 2 * k \/ Need = 3 * k)
      BY <1>1, <1>2, <1>3, <2>2
    <3>. HIDE DEF k
    <3>2. QED
      BY <3>1
  <2>3. QED
    BY <2>1, <2>2
<1>5. QED
  BY <1>1, <1>2, <1>3, <1>4

\* The buffer may be empty.
LEMMA EmptyBuf ==
  ASSUME NEW m \in {"hdr", "X", "M"}, NEW l \in Nat, m # "hdr" => l > 0,
         fw' = [mode |-> m, buf |-> <<>>, left |-> l]
  PROVE  FwType'
<1>1. /\ fw' \in [mode : {"hdr", "X", "M"}, buf : Seq(Byte), left : Nat]
      /\ fw'.mode = m /\ fw'.left = l /\ fw'.buf = <<>> /\ Len(fw'.buf) = 0
  OBVIOUS
<1>2. Need' >= 0
  <2>1. CASE m = "hdr"
    BY <1>1, <2>1 DEF Need
  <2>2. CASE m # "hdr"
    <3>1. Batch' \in Nat
      BY <1>1, <2>2, Sizes DEF Batch, Least
    <3>2. Need' = 2 * Batch' \/ Need' = 3 * Batch'
      BY <1>1, <2>2 DEF Need
    <3>3. QED
      BY <3>1, <3>2
  <2>3. QED
    BY <2>1, <2>2
<1>3. QED
  BY <1>1, <1>2 DEF FwType

\* The firmware's steps.
LEMMA FwStepType ==
  ASSUME LinkType, FwType, FwRead \/ FwHeader \/ FwChunk
  PROVE  LinkType' /\ FwType'
<1>. USE NeedFacts
<1>1. CASE FwRead
  <2>. DEFINE k == Least(Need - Len(fw.buf), Len(rx_ff))
  <2>1. rx_ff \in Seq(Byte) /\ Len(rx_ff) \in Nat /\ Len(rx_ff) <= RXFIFO
    BY DEF LinkType
  <2>2. k \in Nat /\ k <= Need - Len(fw.buf) /\ k <= Len(rx_ff)
    BY <1>1, <2>1 DEF FwRead, Least
  <2>3. fw' = [fw EXCEPT !.buf = @ \o Take(rx_ff, k)] /\ rx_ff' = Drop(rx_ff, k) /\ UNCHANGED <<tx_ff, ep_in, pend>>
    BY <1>1 DEF FwRead
  <2>. HIDE DEF k
  <2>4. /\ Take(rx_ff, k) \in Seq(Byte) /\ Len(Take(rx_ff, k)) = k
        /\ Drop(rx_ff, k) \in Seq(Byte) /\ Len(Drop(rx_ff, k)) = Len(rx_ff) - k
    BY <2>1, <2>2, TakeDrop DEF Least
  <2>5. LinkType'
    BY <2>1, <2>2, <2>3, <2>4, Sizes, SMTT(30) DEF LinkType
  <2>. DEFINE s == fw.buf \o Take(rx_ff, k)
  <2>6. s \in Seq(Byte) /\ Len(s) = Len(fw.buf) + k
    <3>1. fw.buf \in Seq(Byte)
      OBVIOUS
    <3>2. QED
      BY ONLY <2>4, <3>1, SMTT(30)
  <2>. HIDE DEF s
  <2>7. /\ fw' \in [mode : {"hdr", "X", "M"}, buf : Seq(Byte), left : Nat]
        /\ fw'.mode = fw.mode /\ fw'.left = fw.left /\ fw'.buf = s
    <3>1. fw' = [fw EXCEPT !.buf = s] /\ fw \in [mode : {"hdr", "X", "M"}, buf : Seq(Byte), left : Nat]
      BY <2>3 DEF s, FwType
    <3>2. QED
      BY ONLY <2>6, <3>1
  <2>8. Need' = Need
    BY <2>7 DEF Need, Batch
  <2>9. Len(s) <= Need
    BY <2>2, <2>6
  <2>10. QED
    BY <2>5, <2>7, <2>8, <2>9 DEF FwType
<1>2. CASE FwHeader
  <2>. DEFINE n == fw.buf[2].v + 256 * (fw.buf[3].v + 256 * (fw.buf[4].v + 256 * fw.buf[5].v))
              m == IF n = 0 THEN "hdr" ELSE CASE fw.buf[1].v = MODE_X -> "X"
                                              [] fw.buf[1].v = MODE_M -> "M"
                                              [] OTHER                -> "hdr"
  <2>1. fw.buf \in Seq(Byte) /\ Len(fw.buf) = 5
    BY <1>2 DEF FwHeader
  <2>2. n \in Nat
    <3>1. fw.buf[2] \in Byte /\ fw.buf[3] \in Byte /\ fw.buf[4] \in Byte /\ fw.buf[5] \in Byte
      BY <2>1
    <3>2. fw.buf[2].v \in Nat /\ fw.buf[3].v \in Nat /\ fw.buf[4].v \in Nat /\ fw.buf[5].v \in Nat
      BY <3>1 DEF Byte
    <3>. DEFINE b2 == fw.buf[2].v
                b3 == fw.buf[3].v
                b4 == fw.buf[4].v
                b5 == fw.buf[5].v
    <3>3. b2 \in Nat /\ b3 \in Nat /\ b4 \in Nat /\ b5 \in Nat /\ n = b2 + 256 * (b3 + 256 * (b4 + 256 * b5))
      BY <3>2
    <3>. HIDE DEF n, b2, b3, b4, b5
    <3>4. QED
      BY ONLY <3>3
  <2>3. fw' = [mode |-> m, buf |-> <<>>, left |-> n] /\ UNCHANGED <<usb, pend>>
    BY <1>2 DEF FwHeader
  <2>. HIDE DEF n
  <2>4. m \in {"hdr", "X", "M"} /\ (m # "hdr" => n > 0)
    BY <2>2
  <2>. HIDE DEF m
  <2>5. FwType'
    BY <2>2, <2>3, <2>4, EmptyBuf
  <2>6. QED
    BY <2>3, <2>5 DEF LinkType, usb
<1>3. CASE FwChunk
  <2>1. fw.mode # "hdr" /\ Len(fw.buf) = Need /\ pend' = Replies(fw.mode, fw.buf, Batch) /\ UNCHANGED usb
        /\ fw' = [mode |-> IF fw.left = Batch THEN "hdr" ELSE fw.mode, buf |-> <<>>, left |-> fw.left - Batch]
    BY <1>3 DEF FwChunk
  <2>2. Batch \in Nat \ {0} /\ fw.left - Batch \in Nat
    BY <2>1
  <2>3. Replies(fw.mode, fw.buf, Batch) \in Seq(Reply)
    BY <2>1, <2>2, RepliesType
  <2>. DEFINE m == IF fw.left = Batch THEN "hdr" ELSE fw.mode
              l == fw.left - Batch
  <2>4. m \in {"hdr", "X", "M"} /\ l \in Nat /\ (m # "hdr" => l > 0) /\ fw' = [mode |-> m, buf |-> <<>>, left |-> l]
    BY <2>1, <2>2
  <2>. HIDE DEF m, l
  <2>5. FwType'
    BY <2>4, EmptyBuf
  <2>6. QED
    BY <2>1, <2>3, <2>5 DEF LinkType, usb
<1>4. QED
  BY <1>1, <1>2, <1>3

\* The replies move to the endpoint.
LEMMA ReplyStepType ==
  ASSUME LinkType, ArmPacket \/ FwWrite
  PROVE  LinkType'
<1>1. /\ tx_ff \in Seq(Reply) /\ ep_in \in Seq(Reply) /\ pend \in Seq(Reply)
      /\ Len(tx_ff) \in Nat /\ Len(tx_ff) <= TXFIFO /\ Len(pend) \in Nat
  BY DEF LinkType
<1>2. CASE ArmPacket
  <2>1. ep_in' = Take(tx_ff, PACKET) /\ tx_ff' = Drop(tx_ff, PACKET) /\ UNCHANGED <<rx_ff, pend>>
    BY <1>2 DEF ArmPacket, firmware
  <2>2. /\ ep_in' \in Seq(Reply) /\ Len(ep_in') = Least(PACKET, Len(tx_ff))
        /\ tx_ff' \in Seq(Reply) /\ Len(tx_ff') = Len(tx_ff) - Least(PACKET, Len(tx_ff))
    BY <1>1, <2>1, TakeDrop, Sizes
  <2>3. Len(ep_in') <= PACKET /\ Len(tx_ff') <= TXFIFO
    BY <1>1, <2>2, Sizes DEF Least
  <2>4. QED
    BY <2>1, <2>2, <2>3 DEF LinkType
<1>3. CASE FwWrite
  <2>. DEFINE k == TXFIFO - Len(tx_ff)
  <2>1. tx_ff' = tx_ff \o Take(pend, k) /\ pend' = Drop(pend, k) /\ UNCHANGED <<rx_ff, ep_in>> /\ k \in Nat
    BY <1>1, <1>3, Sizes DEF FwWrite
  <2>2. Take(pend, k) \in Seq(Reply) /\ Len(Take(pend, k)) = Least(k, Len(pend)) /\ pend' \in Seq(Reply)
    BY <1>1, <2>1, TakeDrop
  <2>3. tx_ff' \in Seq(Reply) /\ Len(tx_ff') = Len(tx_ff) + Len(Take(pend, k))
    BY <1>1, <2>1, <2>2
  <2>4. Len(tx_ff') <= TXFIFO
    BY <1>1, <2>2, <2>3, Sizes DEF Least
  <2>5. QED
    BY <2>1, <2>2, <2>3, <2>4 DEF LinkType
<1>4. QED
  BY <1>2, <1>3

\* A call's transfers.
LEMMA TransferType ==
  ASSUME HostType, LinkType, WritePacket \/ ReadPacket \/ Timeout
  PROVE  HostType' /\ LinkType' /\ Wrapper' = Wrapper
<1>1. rx_ff \in Seq(Byte) /\ ep_in \in Seq(Reply) /\ Len(rx_ff) \in Nat
  BY DEF LinkType
<1>2. call # NoCall /\ opens' = opens
  BY DEF WritePacket, ReadPacket, Timeout
<1>3. call.tx \in Seq(Byte) /\ call.got \in Seq(Reply)
  BY <1>2, CallFields
<1>4. /\ Take(call.tx, PACKET) \in Seq(Byte) /\ Len(Take(call.tx, PACKET)) \in Nat
      /\ Drop(call.tx, PACKET) \in Seq(Byte)
  <2>1. Take(call.tx, PACKET) \in Seq(Byte) /\ Drop(call.tx, PACKET) \in Seq(Byte)
    BY <1>3, TakeDrop, Sizes
  <2>2. QED
    BY <2>1
<1>5. CASE WritePacket
  <2>. DEFINE p == Take(call.tx, PACKET)
  <2>1. /\ Len(rx_ff) + Len(p) <= RXFIFO /\ rx_ff' = rx_ff \o p /\ UNCHANGED <<tx_ff, ep_in, pend>>
        /\ \/ EndTrip(<<>>)
           \/ call' = [call EXCEPT !.tx = Drop(@, PACKET)] /\ UNCHANGED <<wrapper, conn, frames>>
    BY <1>5 DEF WritePacket, firmware
  <2>. HIDE DEF p
  <2>2. rx_ff' \in Seq(Byte) /\ Len(rx_ff') = Len(rx_ff) + Len(p)
    <3>1. p \in Seq(Byte) /\ rx_ff' = rx_ff \o p
      BY <1>4, <2>1 DEF p
    <3>2. QED
      BY ONLY <1>1, <3>1
  <2>3. LinkType'
    BY <2>1, <2>2 DEF LinkType
  <2>4. HostType' /\ Wrapper' = Wrapper
    <3>1. CASE EndTrip(<<>>)
      BY <1>2, <3>1, EndTripType
    <3>2. CASE call' = [call EXCEPT !.tx = Drop(@, PACKET)] /\ UNCHANGED <<wrapper, conn, frames>>
      <4>1. call' = [call EXCEPT !.tx = Drop(call.tx, PACKET)]
        BY <3>2
      <4>2. QED
        BY <1>2, <1>4, <3>2, <4>1, CallUpdate
    <3>3. QED
      BY <2>1, <3>1, <3>2
  <2>5. QED
    BY <2>3, <2>4
<1>6. CASE ReadPacket
  <2>. DEFINE s == call.got \o ep_in
  <2>1. /\ ep_in' = <<>> /\ UNCHANGED <<rx_ff, tx_ff, pend>>
        /\ \/ FailTrip \/ EndTrip(s)
           \/ call' = [call EXCEPT !.got = s] /\ UNCHANGED <<wrapper, conn, frames>>
    BY <1>6 DEF ReadPacket, firmware
  <2>2. s \in Seq(Reply)
    BY ONLY <1>1, <1>3
  <2>. HIDE DEF s
  <2>3. LinkType'
    BY <2>1, Sizes DEF LinkType
  <2>4. HostType' /\ Wrapper' = Wrapper
    <3>1. CASE FailTrip
      BY <1>2, <3>1, FailTripType
    <3>2. CASE EndTrip(s)
      BY <1>2, <3>2, EndTripType
    <3>3. CASE call' = [call EXCEPT !.got = s] /\ UNCHANGED <<wrapper, conn, frames>>
      BY <1>2, <2>2, <3>3, CallUpdate
    <3>4. QED
      BY <2>1, <3>1, <3>2, <3>3
  <2>5. QED
    BY <2>3, <2>4
<1>7. CASE Timeout
  <2>1. FailTrip /\ UNCHANGED <<rx_ff, tx_ff, ep_in, pend>>
    BY <1>7 DEF Timeout, usb, firmware
  <2>2. LinkType'
    BY <2>1 DEF LinkType
  <2>3. QED
    BY <1>2, <2>1, <2>2, FailTripType
<1>8. QED
  BY <1>5, <1>6, <1>7

\* Every step keeps the types.
LEMMA TypeNext == TypeInv /\ [Next]_vars => TypeInv' /\ Wrapper' = Wrapper
<1>. SUFFICES ASSUME TypeInv, [Next]_vars PROVE TypeInv' /\ Wrapper' = Wrapper
  OBVIOUS
<1>1. HostType /\ LinkType /\ FwType
  BY DEF TypeInv
<1>2. ASSUME NEW w \in Wrapper,
             \/ Create(w) \/ OpenFails(w) \/ Status(w) \/ Refuse(w) \/ Free(w)
             \/ \E plan \in Plans : Execute(w, plan)
      PROVE  TypeInv' /\ Wrapper' = Wrapper
  <2>1. HostType' /\ Wrapper' = Wrapper
    BY <1>1, <1>2, HostStepType
  <2>2. /\ fw' = fw /\ pend' = pend
        /\ \/ rx_ff' = <<>> /\ tx_ff' = <<>> /\ ep_in' = <<>>
           \/ UNCHANGED <<rx_ff, tx_ff, ep_in>>
    BY <1>2 DEF Create, OpenFails, Status, Refuse, Free, Execute, usb, firmware
  <2>3. LinkType'
    <3>1. CASE rx_ff' = <<>> /\ tx_ff' = <<>> /\ ep_in' = <<>>
      <4>1. pend \in Seq(Reply)
        BY <1>1 DEF LinkType
      <4>2. QED
        BY <2>2, <3>1, <4>1, Sizes DEF LinkType
    <3>2. CASE UNCHANGED <<rx_ff, tx_ff, ep_in>>
      BY <1>1, <2>2, <3>2 DEF LinkType
    <3>3. QED
      BY <2>2, <3>1, <3>2
  <2>4. FwType'
    BY <1>1, <2>2 DEF FwType, Need, Batch
  <2>5. QED
    BY <2>1, <2>3, <2>4 DEF TypeInv
<1>3. CASE Crash
  <2>1. /\ wrapper' = [w \in Wrapper |-> "none"] /\ conn' = [conn EXCEPT !.open = FALSE] /\ call' = NoCall
        /\ UNCHANGED <<rx_ff, tx_ff, ep_in, fw, pend, frames, opens>>
    BY <1>3 DEF Crash, usb, firmware
  <2>2. Wrapper' = Wrapper /\ wrapper' \in [Wrapper -> {"none", "live", "dead"}]
    BY <2>1 DEF Wrapper
  <2>3. conn' \in [open : BOOLEAN, reset_done : BOOLEAN, reset_ok : BOOLEAN]
    <3>1. conn \in [open : BOOLEAN, reset_done : BOOLEAN, reset_ok : BOOLEAN]
      BY <1>1 DEF HostType
    <3>2. QED
      BY ONLY <2>1, <3>1
  <2>4. HostType'
    BY <1>1, <2>1, <2>2, <2>3 DEF HostType
  <2>5. LinkType' /\ FwType'
    BY <1>1, <2>1 DEF LinkType, FwType, Need, Batch
  <2>6. QED
    BY <2>2, <2>4, <2>5 DEF TypeInv
<1>4. CASE Link
  <2>1. fw' = fw
    BY <1>4 DEF Link, WritePacket, ReadPacket, Timeout, firmware
  <2>2. FwType'
    BY <1>1, <2>1 DEF FwType, Need, Batch
  <2>3. QED
    BY <1>1, <1>4, <2>2, TransferType DEF Link, TypeInv
<1>5. CASE Device
  <2>1. UNCHANGED <<wrapper, conn, call, frames, opens>>
    BY <1>5 DEF Device, ArmPacket, FwRead, FwHeader, FwChunk, FwWrite
  <2>2. HostType' /\ Wrapper' = Wrapper
    BY <1>1, <2>1 DEF HostType, Wrapper
  <2>3. CASE ArmPacket \/ FwWrite
    <3>1. fw' = fw
      BY <2>3 DEF ArmPacket, FwWrite, firmware
    <3>2. FwType'
      BY <1>1, <3>1 DEF FwType, Need, Batch
    <3>3. QED
      BY <1>1, <2>2, <2>3, <3>2, ReplyStepType DEF TypeInv
  <2>4. CASE FwRead \/ FwHeader \/ FwChunk
    BY <1>1, <2>2, <2>4, FwStepType DEF TypeInv
  <2>5. QED
    BY <1>5, <2>3, <2>4 DEF Device
<1>6. CASE UNCHANGED vars
  <2>1. UNCHANGED <<wrapper, conn, call, rx_ff, tx_ff, ep_in, fw, pend, frames, opens>>
    BY <1>6 DEF vars, usb, firmware
  <2>2. HostType' /\ LinkType' /\ FwType' /\ Wrapper' = Wrapper
    BY <1>1, <2>1 DEF HostType, LinkType, FwType, Need, Batch, Wrapper
  <2>3. QED
    BY <2>2 DEF TypeInv
<1>7. QED
  BY <1>2, <1>3, <1>4, <1>5, <1>6 DEF Next

\* The buffers keep their bounds and the firmware never reads more than the header or the chunk it
\* waits for, whatever is opened, timed out, freed or killed (UsbTransport, TinyUSB, main.c).
THEOREM TypeCorrect == Spec => []TypeOK
<1>1. TypeInv => TypeOK
  BY DEF TypeInv, HostType, LinkType, FwType, TypeOK
<1>2. QED
  BY <1>1, TypeInit, TypeNext, PTL DEF Spec
-----------------------------------------------------------------------------
(* The replies to a plan. *)

\* The replies to op i of plan p, sent as frame f.
OpReplies(f, p, i) == IF p[i] THEN [b \in 1 .. 4 |-> [f |-> f, i |-> 3 + 3 * i, b |-> b]] ELSE <<>>

\* The replies of the ops are the pieces of the expected replies, and RepliesUpto counts them.
LEMMA PlanPieces ==
  ASSUME NEW p \in Plans, NEW f \in Nat
  PROVE  Pieces([i \in 1 .. Len(p) |-> OpReplies(f, p, i)], RepliesUpto(p), Len(p), Reply)
<1>. DEFINE n == Len(p)
            o == RepliesUpto(p)
            g == [i \in 1 .. n |-> OpReplies(f, p, i)]
<1>1. p \in Seq(BOOLEAN) /\ n \in Nat \ {0}
  BY PlanFacts
<1>2. /\ o \in [0 .. n -> Nat] /\ o[0] = 0
      /\ \A i \in 1 .. n : o[i] = o[i - 1] + (IF p[i] THEN 4 ELSE 0)
  BY UptoFacts
<1>3. \A i \in 1 .. n : OpReplies(f, p, i) \in Seq(Reply) /\ Len(OpReplies(f, p, i)) = IF p[i] THEN 4 ELSE 0
  <2>1. SUFFICES ASSUME NEW i \in 1 .. n
                 PROVE  OpReplies(f, p, i) \in Seq(Reply) /\ Len(OpReplies(f, p, i)) = IF p[i] THEN 4 ELSE 0
    OBVIOUS
  <2>. DEFINE r == [b \in 1 .. 4 |-> [f |-> f, i |-> 3 + 3 * i, b |-> b]]
  <2>2. \A b \in 1 .. 4 : [f |-> f, i |-> 3 + 3 * i, b |-> b] \in Reply
    <3>1. 3 + 3 * i \in Nat
      BY <1>1
    <3>2. QED
      BY <3>1 DEF Reply
  <2>3. r \in Seq(Reply) /\ Len(r) = 4
    BY <2>2
  <2>4. OpReplies(f, p, i) = IF p[i] THEN r ELSE <<>>
    BY DEF OpReplies
  <2>. HIDE DEF r
  <2>5. <<>> \in Seq(Reply) /\ Len(<<>>) = 0
    OBVIOUS
  <2>6. QED
    BY <2>3, <2>4, <2>5
<1>4. g \in [1 .. n -> Seq(Reply)] /\ \A i \in 1 .. n : Len(g[i]) = IF p[i] THEN 4 ELSE 0
  BY <1>3
<1>. HIDE DEF g, o, n
<1>5. \A i \in 1 .. n : o[i] = o[i - 1] + Len(g[i])
  BY <1>2, <1>4
<1>6. Pieces(g, o, n, Reply)
  BY <1>1, <1>2, <1>4, <1>5 DEF Pieces
<1>7. QED
  BY <1>6 DEF g, o, n

\* The expected replies end with those of the last op.
LEMMA ExpectedFacts ==
  ASSUME NEW p \in Plans, NEW f \in Nat
  PROVE  /\ Expected(f, p) = FlattenSeq([i \in 1 .. Len(p) |-> OpReplies(f, p, i)])
         /\ Expected(f, p) \in Seq(Reply) /\ Len(Expected(f, p)) = ReplyBytes(p)
         /\ \A d \in 0 .. Len(p) : RepliesUpto(p)[d] \in 0 .. ReplyBytes(p) 
         /\ \A d \in 0 .. Len(p) : d < Len(p) => RepliesUpto(p)[d] < ReplyBytes(p)
<1>. DEFINE n == Len(p)
            o == RepliesUpto(p)
            g == [i \in 1 .. n |-> OpReplies(f, p, i)]
<1>1. Expected(f, p) = FlattenSeq(g)
  BY DEF Expected, OpReplies
<1>2. Pieces(g, o, n, Reply)
  BY PlanPieces
<1>3. p[n] = TRUE /\ n \in Nat \ {0}
  BY PlanFacts
<1>4. o[n] = o[n - 1] + (IF p[n] THEN 4 ELSE 0) /\ ReplyBytes(p) = o[n]
  BY <1>3, UptoFacts DEF ReplyBytes
<1>. HIDE DEF g, o, n
<1>5. Laid(FlattenSeq(g), g, o, n, Reply)
  BY <1>2, FlattenBlocks
<1>6. /\ \A i \in 0 .. n : o[i] \in Nat
      /\ \A i, j \in 0 .. n : j <= i => o[j] <= o[i]
  BY <1>2, PiecesGrow
<1>7. n \in 0 .. n /\ n - 1 \in 0 .. n
  BY <1>3
<1>8. \A d \in 0 .. n : o[d] \in 0 .. o[n]
  BY <1>3, <1>6, <1>7
<1>9. ASSUME NEW d \in 0 .. n, d < n PROVE o[d] < o[n]
  <2>1. o[d] <= o[n - 1]
    BY <1>3, <1>6, <1>7, <1>9
  <2>2. o[n] = o[n - 1] + 4 /\ o[n - 1] \in Nat /\ o[d] \in Nat
    BY <1>3, <1>4, <1>6, <1>7
  <2>3. QED
    BY ONLY <2>1, <2>2
<1>10. FlattenSeq(g) \in Seq(Reply) /\ Len(FlattenSeq(g)) = o[n]
  BY <1>5 DEF Laid
<1>11. QED
  BY <1>1, <1>4, <1>8, <1>9, <1>10, Zenon DEF g, o, n

\* The replies to a chunk of a plan are a slice of the expected ones.
LEMMA ChunkOfPlan ==
  ASSUME NEW p \in Plans, NEW f \in Nat, NEW d \in 0 .. Len(p) - 1, NEW k \in 1 .. Len(p) - d
  PROVE  Replies("M", Slice(Stamp(f, MBytes(p)), 5 + 3 * d, 5 + 3 * (d + k)), k)
           = Slice(Expected(f, p), RepliesUpto(p)[d], RepliesUpto(p)[d + k])
<1>. DEFINE n == Len(p)
            S == Stamp(f, MBytes(p))
            a == 5 + 3 * d
            e == 5 + 3 * (d + k)
            s == Slice(S, a, e)
            g == [i \in 1 .. n |-> OpReplies(f, p, i)]
            P(j) == IF (s[3 * j].v \div 32) % 2 = 1 THEN [b \in 1 .. 4 |-> ReplyTo(s[3 * j - 2], b)] ELSE <<>>
<1>1. n \in Nat \ {0} /\ d \in 0 .. n - 1 /\ k \in 1 .. n - d /\ d + k <= n /\ d + k \in Nat /\ k \in Nat
  BY PlanFacts
<1>2. /\ MBytes(p) \in Seq(Nat) /\ Len(MBytes(p)) = 5 + 3 * n
      /\ \A j \in 1 .. n : MBytes(p)[5 + 3 * j] = EndsFlag(p[j])
  BY MFacts
<1>. HIDE DEF n
<1>3. /\ S \in Seq(Byte) /\ Len(S) = 5 + 3 * n
      /\ \A i \in 1 .. 5 + 3 * n : S[i] = [f |-> f, i |-> i, v |-> MBytes(p)[i]]
  BY <1>2, StampFacts
<1>. HIDE DEF S
<1>4. a \in 0 .. Len(S) /\ e \in a .. Len(S) /\ e - a = 3 * k
  BY <1>1, <1>3
<1>5. s \in Seq(Byte) /\ Len(s) = e - a /\ \A i \in 1 .. e - a : s[i] = S[a + i]
  <2>. HIDE DEF a, e
  <2>1. QED
    BY <1>3, <1>4, SliceFacts
<1>. HIDE DEF s
<1>6. ASSUME NEW j \in 1 .. k PROVE P(j) = g[d + j]
  <2>1. d + j \in 1 .. n
    BY <1>1
  <2>2. /\ 3 * j \in 1 .. e - a /\ 3 * j - 2 \in 1 .. e - a
        /\ a + 3 * j = 5 + 3 * (d + j) /\ a + (3 * j - 2) = 3 + 3 * (d + j)
        /\ a + 3 * j \in 1 .. 5 + 3 * n /\ a + (3 * j - 2) \in 1 .. 5 + 3 * n
    BY <1>1, <1>4
  <2>3. s[3 * j] = [f |-> f, i |-> 5 + 3 * (d + j), v |-> EndsFlag(p[d + j])]
    <3>1. s[3 * j] = S[a + 3 * j]
      BY <1>5, <2>2
    <3>2. S[a + 3 * j] = [f |-> f, i |-> a + 3 * j, v |-> MBytes(p)[a + 3 * j]]
      BY <1>3, <2>2
    <3>3. MBytes(p)[a + 3 * j] = EndsFlag(p[d + j])
      BY <1>2, <2>1, <2>2
    <3>4. QED
      BY <2>2, <3>1, <3>2, <3>3
  <2>4. s[3 * j - 2] = [f |-> f, i |-> 3 + 3 * (d + j), v |-> MBytes(p)[a + (3 * j - 2)]]
    <3>1. s[3 * j - 2] = S[a + (3 * j - 2)]
      BY <1>5, <2>2
    <3>2. S[a + (3 * j - 2)] = [f |-> f, i |-> a + (3 * j - 2), v |-> MBytes(p)[a + (3 * j - 2)]]
      BY <1>3, <2>2
    <3>3. QED
      BY <2>2, <3>1, <3>2
  <2>. DEFINE x == s[3 * j]
              y == s[3 * j - 2]
              q == d + j
  <2>5. x.v = EndsFlag(p[q]) /\ y.f = f /\ y.i = 3 + 3 * q
    BY <2>3, <2>4
  <2>6. P(j) = IF (x.v \div 32) % 2 = 1 THEN [b \in 1 .. 4 |-> ReplyTo(y, b)] ELSE <<>>
    OBVIOUS
  <2>7. g[q] = OpReplies(f, p, q)
    BY <2>1
  <2>. HIDE DEF x, y, q, P, g
  <2>8. (x.v \div 32) % 2 = 1 <=> p[q]
    <3>1. (48 \div 32) % 2 = 1 /\ (16 \div 32) % 2 = 0
      OBVIOUS
    <3>2. QED
      BY <2>5, <3>1 DEF EndsFlag
  <2>9. [b \in 1 .. 4 |-> ReplyTo(y, b)] = [b \in 1 .. 4 |-> [f |-> f, i |-> 3 + 3 * q, b |-> b]]
    BY <2>5 DEF ReplyTo
  <2>10. P(j) = OpReplies(f, p, q)
    BY <2>6, <2>8, <2>9, Zenon DEF OpReplies
  <2>11. QED
    BY <2>7, <2>10 DEF q
<1>7. Replies("M", s, k) = FlattenSeq([j \in 1 .. k |-> P(j)])
  BY DEF Replies
<1>8. [j \in 1 .. k |-> P(j)] = [j \in 1 .. k |-> g[d + j]]
  <2>. HIDE DEF P, g
  <2>1. QED
    BY <1>6
<1>9. Pieces(g, RepliesUpto(p), n, Reply)
  BY PlanPieces DEF n
<1>. HIDE DEF P, g
<1>10. FlattenSeq([j \in 1 .. k |-> g[d + j]]) = Slice(FlattenSeq(g), RepliesUpto(p)[d], RepliesUpto(p)[d + k])
  BY <1>1, <1>9, FlattenSlice
<1>11. FlattenSeq(g) = Expected(f, p)
  BY ExpectedFacts DEF g, n
<1>12. QED
  BY <1>7, <1>8, <1>10, <1>11, Zenon DEF s, S, a, e
-----------------------------------------------------------------------------
(* A stream in transit, cut at the places where it waits. *)

\* S from place a on: read into the firmware's buffer, in the FIFO, still to be written.
Going(S, a, buf, rx, tx) ==
  \E b, d \in 0 .. Len(S) :
    /\ a <= b /\ b <= d
    /\ buf = Slice(S, a, b) /\ rx = Slice(S, b, d) /\ tx = Slice(S, d, Len(S))

\* E up to place s: read by the host, in the endpoint, in the FIFO, still to be placed there.
Coming(E, s, got, ep, tx, pd) ==
  \E g, q, r \in 0 .. s :
    /\ g <= q /\ q <= r
    /\ got = Slice(E, 0, g) /\ ep = Slice(E, g, q) /\ tx = Slice(E, q, r) /\ pd = Slice(E, r, s)

\* A slice is cut wherever Take and Drop cut it.
LEMMA SliceCut ==
  ASSUME NEW T, NEW S \in Seq(T), NEW a \in 0 .. Len(S), NEW b \in a .. Len(S), NEW n \in Nat
  PROVE  \E m \in a .. b : Take(Slice(S, a, b), n) = Slice(S, a, m) /\ Drop(Slice(S, a, b), n) = Slice(S, m, b)
<1>1. Slice(S, a, b) \in Seq(T) /\ Len(Slice(S, a, b)) = b - a
  BY SliceFacts
<1>2. CASE a + n <= b
  <2>1. a + n \in a .. b
    BY <1>2
  <2>2. QED
    BY <1>2, <2>1, SliceSplit
<1>3. CASE a + n > b
  <2>1. n >= b - a /\ b \in a .. b /\ b \in 0 .. Len(S)
    BY <1>3
  <2>2. Take(Slice(S, a, b), n) = Slice(S, a, b) /\ Drop(Slice(S, a, b), n) = <<>>
    BY <1>1, <2>1, TakeDrop
  <2>3. Slice(S, b, b) = <<>>
    BY <2>1, SliceEnds
  <2>4. QED
    BY <2>1, <2>2, <2>3
<1>4. QED
  BY <1>2, <1>3

\* The host writes.
LEMMA GoingWrite ==
  ASSUME NEW T, NEW S \in Seq(T), NEW a \in 0 .. Len(S), NEW buf, NEW rx, NEW tx, Going(S, a, buf, rx, tx), NEW n \in Nat
  PROVE  Going(S, a, buf, rx \o Take(tx, n), Drop(tx, n))
<1>1. PICK b, d \in 0 .. Len(S) : /\ a <= b /\ b <= d
                                  /\ buf = Slice(S, a, b) /\ rx = Slice(S, b, d) /\ tx = Slice(S, d, Len(S))
  BY DEF Going
<1>0. b \in a .. Len(S) /\ d \in b .. Len(S)
  BY <1>1
<1>. USE <1>0
<1>2. b \in 0 .. Len(S) /\ d \in 0 .. Len(S) /\ Len(S) \in d .. Len(S)
  OBVIOUS
<1>3. PICK m \in d .. Len(S) : Take(tx, n) = Slice(S, d, m) /\ Drop(tx, n) = Slice(S, m, Len(S))
  BY <1>1, <1>2, SliceCut
<1>4. Slice(S, b, d) \o Slice(S, d, m) = Slice(S, b, m) /\ m \in b .. Len(S)
  <2>1. m \in b .. Len(S)
    BY <1>2
  <2>2. QED
    BY <1>2, <2>1, SliceJoin
<1>5. b \in 0 .. Len(S) /\ m \in 0 .. Len(S) /\ a <= b /\ b <= m
  BY <1>4
<1>6. QED
  BY <1>1, <1>3, <1>4, <1>5, Zenon DEF Going

\* The firmware reads.
LEMMA GoingRead ==
  ASSUME NEW T, NEW S \in Seq(T), NEW a \in 0 .. Len(S), NEW buf, NEW rx, NEW tx, Going(S, a, buf, rx, tx), NEW n \in Nat
  PROVE  Going(S, a, buf \o Take(rx, n), Drop(rx, n), tx)
<1>1. PICK b, d \in 0 .. Len(S) : /\ a <= b /\ b <= d
                                  /\ buf = Slice(S, a, b) /\ rx = Slice(S, b, d) /\ tx = Slice(S, d, Len(S))
  BY DEF Going
<1>0. b \in a .. Len(S) /\ d \in b .. Len(S)
  BY <1>1
<1>. USE <1>0
<1>2. b \in 0 .. Len(S) /\ d \in 0 .. Len(S)
  OBVIOUS
<1>3. PICK m \in b .. d : Take(rx, n) = Slice(S, b, m) /\ Drop(rx, n) = Slice(S, m, d)
  BY <1>1, <1>2, SliceCut
<1>4. m \in b .. Len(S) /\ m \in a .. Len(S) /\ d \in m .. Len(S)
  BY <1>2
<1>5. Slice(S, a, b) \o Slice(S, b, m) = Slice(S, a, m)
  BY <1>2, <1>4, SliceJoin
<1>6. m \in 0 .. Len(S) /\ d \in 0 .. Len(S) /\ a <= m /\ m <= d
  BY <1>4
<1>7. QED
  BY <1>1, <1>3, <1>5, <1>6, Zenon DEF Going

\* The firmware is done with what it has read.
LEMMA GoingUse ==
  ASSUME NEW T, NEW S \in Seq(T), NEW a \in 0 .. Len(S), NEW buf, NEW rx, NEW tx, Going(S, a, buf, rx, tx)
  PROVE  /\ a + Len(buf) \in a .. Len(S) /\ buf = Slice(S, a, a + Len(buf)) /\ Len(buf) \in Nat
         /\ Going(S, a + Len(buf), <<>>, rx, tx)
<1>1. PICK b, d \in 0 .. Len(S) : /\ a <= b /\ b <= d
                                  /\ buf = Slice(S, a, b) /\ rx = Slice(S, b, d) /\ tx = Slice(S, d, Len(S))
  BY DEF Going
<1>0. b \in a .. Len(S) /\ d \in b .. Len(S)
  BY <1>1
<1>. USE <1>0
<1>2. b \in 0 .. Len(S) /\ b \in b .. Len(S)
  OBVIOUS
<1>3. Len(buf) = b - a
  BY <1>1, SliceFacts
<1>4. a + Len(buf) = b /\ Len(buf) \in Nat
  BY <1>3
<1>5. Slice(S, b, b) = <<>>
  BY <1>2, SliceEnds
<1>6. Going(S, b, <<>>, rx, tx)
  <2>1. b <= b
    OBVIOUS
  <2>2. QED
    BY <1>1, <1>2, <1>5, <2>1, Zenon DEF Going
<1>7. QED
  BY <1>1, <1>4, <1>6

\* Nothing is behind the end.
LEMMA GoingEnd ==
  ASSUME NEW T, NEW S \in Seq(T), NEW buf, NEW rx, NEW tx, Going(S, Len(S), buf, rx, tx)
  PROVE  buf = <<>> /\ rx = <<>> /\ tx = <<>>
<1>1. PICK b, d \in 0 .. Len(S) : /\ Len(S) <= b /\ b <= d
                                  /\ buf = Slice(S, Len(S), b) /\ rx = Slice(S, b, d) /\ tx = Slice(S, d, Len(S))
  BY DEF Going
<1>0. b \in Len(S) .. Len(S) /\ d \in b .. Len(S)
  BY <1>1
<1>. USE <1>0
<1>2. b = Len(S) /\ d = Len(S) /\ Len(S) \in 0 .. Len(S)
  OBVIOUS
<1>3. QED
  BY <1>1, <1>2, SliceEnds

\* The host reads: the replies so far, and when they are complete nothing else is there.
LEMMA ComingRead ==
  ASSUME NEW T, NEW E \in Seq(T), NEW s \in 0 .. Len(E), NEW got, NEW ep, NEW tx, NEW pd, Coming(E, s, got, ep, tx, pd)
  PROVE  /\ Coming(E, s, got \o ep, <<>>, tx, pd)
         /\ Len(got \o ep) <= Len(E)
         /\ Len(got \o ep) = Len(E) => got \o ep = E /\ s = Len(E) /\ tx = <<>> /\ pd = <<>>
<1>1. PICK g, q, r \in 0 .. s : /\ g <= q /\ q <= r
                                /\ got = Slice(E, 0, g) /\ ep = Slice(E, g, q) /\ tx = Slice(E, q, r) /\ pd = Slice(E, r, s)
  BY DEF Coming
<1>0. g \in 0 .. s /\ q \in g .. s /\ r \in q .. s
  BY <1>1
<1>. USE <1>0
<1>2. /\ 0 \in 0 .. Len(E) /\ g \in 0 .. Len(E) /\ q \in g .. Len(E) /\ q \in 0 .. Len(E) /\ q \in 0 .. s
      /\ q \in q .. s /\ q - 0 = q
  OBVIOUS
<1>3. got \o ep = Slice(E, 0, q)
  BY <1>1, <1>2, SliceJoin
<1>4. Slice(E, q, q) = <<>> /\ Len(Slice(E, 0, q)) = q
  BY <1>2, SliceEnds, SliceFacts
<1>5. Coming(E, s, got \o ep, <<>>, tx, pd)
  <2>1. q <= q /\ q <= r /\ r \in 0 .. s
    OBVIOUS
  <2>2. QED
    BY <1>1, <1>2, <1>3, <1>4, <2>1, Zenon DEF Coming
<1>6. ASSUME q = Len(E) PROVE got \o ep = E /\ s = Len(E) /\ tx = <<>> /\ pd = <<>>
  <2>1. r = Len(E) /\ s = Len(E) /\ Len(E) \in 0 .. Len(E)
    BY <1>6
  <2>2. QED
    BY <1>1, <1>3, <1>6, <2>1, SliceEnds
<1>7. QED
  BY <1>2, <1>3, <1>4, <1>5, <1>6

\* A packet is armed.
LEMMA ComingArm ==
  ASSUME NEW T, NEW E \in Seq(T), NEW s \in 0 .. Len(E), NEW got, NEW tx, NEW pd, Coming(E, s, got, <<>>, tx, pd),
         NEW n \in Nat
  PROVE  Coming(E, s, got, Take(tx, n), Drop(tx, n), pd)
<1>1. PICK g, q, r \in 0 .. s : /\ g <= q /\ q <= r
                                /\ got = Slice(E, 0, g) /\ <<>> = Slice(E, g, q) /\ tx = Slice(E, q, r) /\ pd = Slice(E, r, s)
  BY DEF Coming
<1>0. g \in 0 .. s /\ q \in g .. s /\ r \in q .. s
  BY <1>1
<1>. USE <1>0
<1>2. g \in 0 .. Len(E) /\ q \in g .. Len(E) /\ q \in 0 .. Len(E) /\ r \in q .. Len(E)
  OBVIOUS
<1>3. q = g
  <2>1. Len(Slice(E, g, q)) = q - g
    BY <1>2, SliceFacts
  <2>2. q - g = 0
    BY <1>1, <2>1
  <2>3. QED
    BY <1>2, <2>2
<1>4. PICK m \in q .. r : Take(tx, n) = Slice(E, q, m) /\ Drop(tx, n) = Slice(E, m, r)
  BY <1>1, <1>2, SliceCut
<1>5. m \in 0 .. s /\ r \in 0 .. s /\ g <= m /\ m <= r
  BY <1>2, <1>3
<1>6. QED
  BY <1>1, <1>3, <1>4, <1>5, Zenon DEF Coming

\* The firmware places replies in the FIFO.
LEMMA ComingWrite ==
  ASSUME NEW T, NEW E \in Seq(T), NEW s \in 0 .. Len(E), NEW got, NEW ep, NEW tx, NEW pd, Coming(E, s, got, ep, tx, pd),
         NEW n \in Nat
  PROVE  Coming(E, s, got, ep, tx \o Take(pd, n), Drop(pd, n))
<1>1. PICK g, q, r \in 0 .. s : /\ g <= q /\ q <= r
                                /\ got = Slice(E, 0, g) /\ ep = Slice(E, g, q) /\ tx = Slice(E, q, r) /\ pd = Slice(E, r, s)
  BY DEF Coming
<1>0. g \in 0 .. s /\ q \in g .. s /\ r \in q .. s
  BY <1>1
<1>. USE <1>0
<1>2. q \in 0 .. Len(E) /\ r \in q .. Len(E) /\ r \in 0 .. Len(E) /\ s \in r .. Len(E)
  OBVIOUS
<1>3. PICK m \in r .. s : Take(pd, n) = Slice(E, r, m) /\ Drop(pd, n) = Slice(E, m, s)
  BY <1>1, <1>2, SliceCut
<1>4. m \in q .. s /\ m \in r .. Len(E)
  BY <1>2
<1>5. Slice(E, q, r) \o Slice(E, r, m) = Slice(E, q, m)
  BY <1>2, <1>4, SliceJoin
<1>6. m \in 0 .. s /\ q <= m
  BY <1>4
<1>7. QED
  BY <1>1, <1>3, <1>5, <1>6, Zenon DEF Coming

\* The firmware has new replies.
LEMMA ComingMake ==
  ASSUME NEW T, NEW E \in Seq(T), NEW s \in 0 .. Len(E), NEW got, NEW ep, NEW tx, Coming(E, s, got, ep, tx, <<>>),
         NEW e \in s .. Len(E)
  PROVE  Coming(E, e, got, ep, tx, Slice(E, s, e))
<1>1. PICK g, q, r \in 0 .. s : /\ g <= q /\ q <= r
                                /\ got = Slice(E, 0, g) /\ ep = Slice(E, g, q) /\ tx = Slice(E, q, r) /\ <<>> = Slice(E, r, s)
  BY DEF Coming
<1>0. g \in 0 .. s /\ q \in g .. s /\ r \in q .. s
  BY <1>1
<1>. USE <1>0
<1>2. r \in 0 .. Len(E) /\ s \in r .. Len(E)
  OBVIOUS
<1>3. r = s
  <2>1. Len(Slice(E, r, s)) = s - r
    BY <1>2, SliceFacts
  <2>2. s - r = 0
    BY <1>1, <2>1
  <2>3. QED
    BY <1>2, <2>2
<1>4. g \in 0 .. e /\ q \in 0 .. e /\ r \in 0 .. e
  BY <1>2
<1>5. QED
  BY <1>1, <1>3, <1>4, Zenon DEF Coming
-----------------------------------------------------------------------------
(* A call of execute or status. *)

Items(c)  == IF c.kind = "execute" THEN Len(c.plan) ELSE 1
Size(c)   == IF c.kind = "execute" THEN 3 ELSE 2
ModeOf(c) == IF c.kind = "execute" THEN "M" ELSE "X"
Upto(c)   == IF c.kind = "execute" THEN RepliesUpto(c.plan) ELSE [d \in 0 .. 1 |-> d]
Bytes(c)  == IF c.kind = "execute" THEN MBytes(c.plan) ELSE XBytes(CMD_STATUS, 1)
Sent(c)   == Stamp(c.first, Bytes(c))
Due(c)    == IF c.kind = "execute" THEN Expected(c.first, c.plan)
             ELSE <<[f |-> c.first, i |-> 6, b |-> 0]>>

Fits(c) == c.first \in Nat /\ (c.kind = "status" \/ (c.kind = "execute" /\ c.plan \in Plans))

\* The replies to a chunk of cycles.
LEMMA XReplies ==
  ASSUME NEW s \in Seq(Byte), NEW n \in Nat \ {0}, Len(s) = 2 * n
  PROVE  /\ Replies("X", s, n) \in Seq(Reply) /\ Len(Replies("X", s, n)) = n
         /\ \A j \in 1 .. n : Replies("X", s, n)[j] = ReplyTo(s[2 * j - 1], 0)
<1>. DEFINE g == [j \in 1 .. n |-> <<ReplyTo(s[2 * j - 1], 0)>>]
            t == FlattenSeq(g)
<1>1. \A j \in 1 .. n : ReplyTo(s[2 * j - 1], 0) \in Reply
  <2>1. SUFFICES ASSUME NEW j \in 1 .. n PROVE ReplyTo(s[2 * j - 1], 0) \in Reply
    OBVIOUS
  <2>2. s[2 * j - 1] \in Byte
    OBVIOUS
  <2>3. QED
    BY <2>2 DEF ReplyTo, Reply, Byte
<1>2. \A j \in 1 .. n : g[j] = <<ReplyTo(s[2 * j - 1], 0)>>
  OBVIOUS
<1>3. \A x \in Reply : <<x>> \in Seq(Reply) /\ Len(<<x>>) = 1 /\ <<x>>[1] = x
  OBVIOUS
<1>4. \A j \in 1 .. n : g[j] \in Seq(Reply) /\ Len(g[j]) = 1 /\ g[j][1] = ReplyTo(s[2 * j - 1], 0)
  <2>. HIDE DEF g
  <2>1. QED
    BY <1>1, <1>2, <1>3, ZenonT(40)
<1>5. g \in [1 .. n -> Seq(Reply)]
  <2>1. g = [j \in 1 .. n |-> g[j]]
    OBVIOUS
  <2>. HIDE DEF g
  <2>2. QED
    BY <1>4, <2>1
<1>. HIDE DEF g
<1>6. Even(g, n, 1, Reply)
  BY <1>4, <1>5 DEF Even
<1>7. LaidEven(t, g, n, 1, Reply)
  BY <1>6, FlattenEven
<1>8. t \in Seq(Reply) /\ Len(t) = 1 * n /\ \A i \in 1 .. n : \A k \in 1 .. 1 : t[1 * (i - 1) + k] = g[i][k]
  BY <1>7 DEF LaidEven
<1>9. Replies("X", s, n) = t
  BY DEF Replies, t, g
<1>. HIDE DEF t
<1>10. \A j \in 1 .. n : t[j] = g[j][1]
  <2>1. \A j \in 1 .. n : 1 * (j - 1) + 1 = j /\ 1 \in 1 .. 1
    OBVIOUS
  <2>2. QED
    BY <1>8, <2>1
<1>11. Len(t) = n
  BY <1>8
<1>12. QED
  BY <1>4, <1>8, <1>9, <1>10, <1>11

\* The frame and the replies of a call.
LEMMA ShapeFacts ==
  ASSUME NEW c, Fits(c)
  PROVE  /\ Items(c) \in Nat \ {0} /\ Size(c) \in {2, 3} /\ ModeOf(c) = IF Size(c) = 2 THEN "X" ELSE "M"
         /\ Bytes(c) \in Seq(Nat) /\ Sent(c) \in Seq(Byte) /\ Len(Sent(c)) = 5 + Size(c) * Items(c)
         /\ Sent(c)[1].v = IF Size(c) = 2 THEN MODE_X ELSE MODE_M
         /\ Sent(c)[2].v = (Items(c) % 256) /\ Sent(c)[3].v = Items(c) \div 256
         /\ Sent(c)[4].v = 0 /\ Sent(c)[5].v = 0
<1>1. CASE c.kind = "status"
  <2>1. 0 \in Nat /\ 1 \in Nat \ {0} /\ CMD_STATUS \in Nat
    BY DEF CMD_STATUS
  <2>2. /\ Items(c) = 1 /\ Size(c) = 2 /\ ModeOf(c) = "X" /\ Bytes(c) = XBytes(CMD_STATUS, 1)
    BY <1>1 DEF Items, Size, ModeOf, Bytes
  <2>. DEFINE x == XBytes(CMD_STATUS, 1)
  <2>3. /\ x \in Seq(Nat) /\ Len(x) = 5 + 2 * 1 /\ x[1] = MODE_X /\ x[2] = (1 % 256) /\ x[3] = 1 \div 256
        /\ x[4] = 0 /\ x[5] = 0
    <3>1. IsX(x, 1)
      BY <2>1, XFacts
    <3>. HIDE DEF x
    <3>2. QED
      BY ONLY <3>1 DEF IsX
  <2>. HIDE DEF x
  <2>4. Sent(c) = Stamp(c.first, x)
    BY <2>2 DEF Sent, x
  <2>5. c.first \in Nat
    BY DEF Fits
  <2>6. /\ Stamp(c.first, x) \in Seq(Byte) /\ Len(Stamp(c.first, x)) = Len(x)
        /\ \A i \in 1 .. Len(x) : Stamp(c.first, x)[i] = [f |-> c.first, i |-> i, v |-> x[i]]
    BY <2>3, <2>5, StampFacts
  <2>. DEFINE S == Stamp(c.first, x)
  <2>. HIDE DEF S
  <2>7. \A i \in 1 .. 5 : S[i].v = x[i]
    BY <2>3, <2>6, SMTT(30) DEF S
  <2>8. S \in Seq(Byte) /\ Len(S) = 5 + 2 * 1 /\ Sent(c) = S
    BY <2>3, <2>4, <2>6 DEF S
  <2>9. QED
    BY <2>2, <2>3, <2>7, <2>8 DEF x
<1>2. CASE c.kind = "execute" /\ c.plan \in Plans
  <2>. DEFINE p == c.plan
              n == Len(c.plan)
              x == MBytes(c.plan)
  <2>1. n \in Nat \ {0}
    BY <1>2, PlanFacts
  <2>2. Items(c) = n /\ Size(c) = 3 /\ ModeOf(c) = "M" /\ Bytes(c) = x
    BY <1>2 DEF Items, Size, ModeOf, Bytes
  <2>3. /\ x \in Seq(Nat) /\ Len(x) = 5 + 3 * n /\ x[1] = MODE_M /\ x[2] = (n % 256) /\ x[3] = n \div 256
        /\ x[4] = 0 /\ x[5] = 0
    BY <1>2, MFacts, ZenonT(40)
  <2>. HIDE DEF x, n
  <2>4. Sent(c) = Stamp(c.first, x)
    BY <2>2 DEF Sent
  <2>5. c.first \in Nat
    BY DEF Fits
  <2>6. /\ Stamp(c.first, x) \in Seq(Byte) /\ Len(Stamp(c.first, x)) = Len(x)
        /\ \A i \in 1 .. Len(x) : Stamp(c.first, x)[i] = [f |-> c.first, i |-> i, v |-> x[i]]
    BY <2>3, <2>5, StampFacts
  <2>. DEFINE S == Stamp(c.first, x)
  <2>. HIDE DEF S
  <2>7. \A i \in 1 .. 5 : S[i].v = x[i]
    <3>1. \A i \in 1 .. 5 : i \in 1 .. Len(x)
      BY <2>1, <2>3
    <3>2. \A i \in 1 .. 5 : S[i] = [f |-> c.first, i |-> i, v |-> x[i]]
      BY <2>6, <3>1 DEF S
    <3>3. QED
      BY ONLY <3>2
  <2>8. S \in Seq(Byte) /\ Len(S) = 5 + 3 * n /\ Sent(c) = S
    BY <2>3, <2>4, <2>6 DEF S
  <2>9. QED
    BY <2>1, <2>2, <2>3, <2>7, <2>8
<1>3. QED
  BY <1>1, <1>2 DEF Fits

LEMMA DueFacts ==
  ASSUME NEW c, Fits(c)
  PROVE  /\ Due(c) \in Seq(Reply) /\ Len(Due(c)) \in Nat \ {0}
         /\ c.kind = "execute" => Len(Due(c)) = ReplyBytes(c.plan)
         /\ c.kind = "status" => Len(Due(c)) = 1
         /\ Upto(c)[0] = 0 /\ Upto(c)[Items(c)] = Len(Due(c))
         /\ \A d \in 0 .. Items(c) : Upto(c)[d] \in 0 .. Len(Due(c))
         /\ \A d, e \in 0 .. Items(c) : d <= e => Upto(c)[d] <= Upto(c)[e]
         /\ \A d \in 0 .. Items(c) : d < Items(c) => Upto(c)[d] < Len(Due(c))
<1>1. CASE c.kind = "status"
  <2>1. Items(c) = 1 /\ Due(c) = <<[f |-> c.first, i |-> 6, b |-> 0]>> /\ Upto(c) = [d \in 0 .. 1 |-> d]
    BY <1>1 DEF Items, Due, Upto
  <2>. DEFINE r == [f |-> c.first, i |-> 6, b |-> 0]
  <2>2. r \in Reply
    BY DEF Fits, Reply
  <2>. HIDE DEF r
  <2>3. Due(c) \in Seq(Reply) /\ Len(Due(c)) = 1
    BY <2>1, <2>2 DEF r
  <2>4. \A d \in 0 .. 1 : Upto(c)[d] = d
    BY <2>1
  <2>5. QED
    BY <1>1, <2>1, <2>3, <2>4
<1>2. CASE c.kind = "execute" /\ c.plan \in Plans
  <2>. DEFINE p == c.plan
              n == Len(c.plan)
              o == RepliesUpto(c.plan)
              E == Expected(c.first, c.plan)
  <2>1. n \in Nat \ {0} /\ c.first \in Nat
    BY <1>2, PlanFacts DEF Fits
  <2>2. Items(c) = n /\ Due(c) = E /\ Upto(c) = o
    BY <1>2 DEF Items, Due, Upto
  <2>3. /\ E \in Seq(Reply) /\ Len(E) = ReplyBytes(p)
        /\ \A d \in 0 .. n : o[d] \in 0 .. ReplyBytes(p)
        /\ \A d \in 0 .. n : d < n => o[d] < ReplyBytes(p)
    BY <1>2, <2>1, ExpectedFacts
  <2>4. o[0] = 0 /\ o[n] = ReplyBytes(p)
    BY <1>2, UptoFacts DEF ReplyBytes
  <2>5. ReplyBytes(p) \in Nat
    BY <1>2, ReplyBytesType
  <2>6. \A d, e \in 0 .. n : d <= e => o[d] <= o[e]
    <3>1. Pieces([i \in 1 .. n |-> OpReplies(c.first, p, i)], o, n, Reply)
      BY <1>2, <2>1, PlanPieces
    <3>. DEFINE g == [i \in 1 .. n |-> OpReplies(c.first, p, i)]
    <3>. HIDE DEF g, o, n
    <3>2. Pieces(g, o, n, Reply)
      BY <3>1 DEF g
    <3>3. QED
      BY <3>2, PiecesGrow
  <2>. HIDE DEF n, o, E
  <2>7. ReplyBytes(p) > 0
    <3>1. 0 \in 0 .. n /\ 0 < n
      BY <2>1
    <3>2. o[0] < ReplyBytes(p)
      BY <2>3, <3>1
    <3>3. QED
      BY <2>4, <2>5, <3>2
  <2>8. QED
    BY <1>2, <2>2, <2>3, <2>4, <2>5, <2>6, <2>7
<1>3. QED
  BY <1>1, <1>2 DEF Fits

\* The replies to a chunk are a slice of those to the call.
LEMMA ChunkFacts ==
  ASSUME NEW c, Fits(c), NEW d \in 0 .. Items(c) - 1, NEW k \in 1 .. Items(c) - d
  PROVE  Replies(ModeOf(c), Slice(Sent(c), 5 + Size(c) * d, 5 + Size(c) * (d + k)), k)
           = Slice(Due(c), Upto(c)[d], Upto(c)[d + k])
<1>1. CASE c.kind = "status"
  <2>1. /\ Items(c) = 1 /\ Size(c) = 2 /\ ModeOf(c) = "X" /\ Upto(c) = [x \in 0 .. 1 |-> x]
        /\ Due(c) = <<[f |-> c.first, i |-> 6, b |-> 0]>> /\ Sent(c) = Stamp(c.first, Bytes(c))
    BY <1>1 DEF Items, Size, ModeOf, Upto, Due, Sent
  <2>2. d = 0 /\ k = 1 /\ 5 + 2 * d = 5 /\ 5 + 2 * (d + k) = 7 /\ Upto(c)[d] = 0 /\ Upto(c)[d + k] = 1
    BY <2>1
  <2>. DEFINE S == Sent(c)
              s == Slice(S, 5, 7)
  <2>3. S \in Seq(Byte) /\ Len(S) = 7 /\ Bytes(c) \in Seq(Nat)
    <3>1. S \in Seq(Byte) /\ Len(S) = 5 + Size(c) * Items(c) /\ Bytes(c) \in Seq(Nat)
      BY ShapeFacts
    <3>2. QED
      BY <2>1, <3>1
  <2>4. S[6] = [f |-> c.first, i |-> 6, v |-> Bytes(c)[6]]
    <3>1. c.first \in Nat
      BY DEF Fits
    <3>2. /\ Len(S) = Len(Bytes(c))
          /\ \A i \in 1 .. Len(Bytes(c)) : S[i] = [f |-> c.first, i |-> i, v |-> Bytes(c)[i]]
      <4>. DEFINE x == Bytes(c)
                  y == c.first
      <4>1. x \in Seq(Nat) /\ y \in Nat /\ S = Stamp(y, x)
        BY <2>1, <2>3, <3>1, Zenon
      <4>. HIDE DEF x, y, S
      <4>2. /\ Len(Stamp(y, x)) = Len(x)
            /\ \A i \in 1 .. Len(x) : Stamp(y, x)[i] = [f |-> y, i |-> i, v |-> x[i]]
        BY ONLY <4>1, StampFacts
      <4>3. /\ Len(S) = Len(x)
            /\ \A i \in 1 .. Len(x) : S[i] = [f |-> y, i |-> i, v |-> x[i]]
        BY <4>1, <4>2, Zenon
      <4>4. QED
        BY <4>3, Zenon DEF x, y
    <3>3. 6 \in 1 .. Len(Bytes(c))
      <4>1. Len(Bytes(c)) = 7
        BY <2>3, <3>2
      <4>2. QED
        BY <4>1
    <3>4. QED
      BY <3>2, <3>3
  <2>. HIDE DEF S
  <2>5. s \in Seq(Byte) /\ Len(s) = 2 /\ s[1] = S[6]
    <3>1. 5 \in 0 .. Len(S) /\ 7 \in 5 .. Len(S) /\ 1 \in 1 .. 7 - 5 /\ 7 - 5 = 2 /\ 5 + 1 = 6
      BY <2>3
    <3>2. s \in Seq(Byte) /\ Len(s) = 7 - 5 /\ \A i \in 1 .. 7 - 5 : s[i] = S[5 + i]
      BY <2>3, <3>1, SliceFacts, ZenonT(40)
    <3>3. QED
      BY <3>1, <3>2
  <2>. HIDE DEF s
  <2>. DEFINE t == Replies("X", s, 1)
  <2>6. t \in Seq(Reply) /\ Len(t) = 1 /\ t[1] = ReplyTo(s[1], 0)
    <3>1. 1 \in Nat \ {0} /\ Len(s) = 2 * 1 /\ 1 \in 1 .. 1 /\ 2 * 1 - 1 = 1
      BY <2>5
    <3>2. Len(t) = 1 /\ t \in Seq(Reply) /\ \A j \in 1 .. 1 : t[j] = ReplyTo(s[2 * j - 1], 0)
      BY <2>5, <3>1, XReplies
    <3>3. QED
      BY <3>1, <3>2
  <2>7. ReplyTo(s[1], 0) = [f |-> c.first, i |-> 6, b |-> 0]
    BY <2>4, <2>5 DEF ReplyTo
  <2>. HIDE DEF t
  <2>8. t = Due(c)
    <3>. DEFINE r == [f |-> c.first, i |-> 6, b |-> 0]
    <3>1. t[1] = r /\ Due(c) = <<r>>
      BY <2>1, <2>6, <2>7
    <3>. HIDE DEF r
    <3>2. QED
      BY ONLY <2>6, <3>1
  <2>9. Due(c) \in Seq(Reply) /\ Len(Due(c)) = 1
    BY <2>6, <2>8
  <2>10. Slice(Due(c), 0, 1) = Due(c)
    <3>1. Slice(Due(c), 0, Len(Due(c))) = Due(c)
      <4>1. 0 \in 0 .. Len(Due(c))
        BY <2>9
      <4>2. QED
        BY <2>9, <4>1, SliceEnds
    <3>2. QED
      BY <2>9, <3>1
  <2>11. QED
    BY <2>1, <2>2, <2>8, <2>10 DEF t, s, S
<1>2. CASE c.kind = "execute" /\ c.plan \in Plans
  <2>1. /\ Items(c) = Len(c.plan) /\ Size(c) = 3 /\ ModeOf(c) = "M" /\ Upto(c) = RepliesUpto(c.plan)
        /\ Due(c) = Expected(c.first, c.plan) /\ Sent(c) = Stamp(c.first, MBytes(c.plan))
    BY <1>2 DEF Items, Size, ModeOf, Upto, Due, Sent, Bytes
  <2>2. c.first \in Nat /\ d \in 0 .. Len(c.plan) - 1 /\ k \in 1 .. Len(c.plan) - d
    BY <2>1 DEF Fits
  <2>3. Replies("M", Slice(Stamp(c.first, MBytes(c.plan)), 5 + 3 * d, 5 + 3 * (d + k)), k)
           = Slice(Expected(c.first, c.plan), RepliesUpto(c.plan)[d], RepliesUpto(c.plan)[d + k])
    BY <1>2, <2>2, ChunkOfPlan
  <2>4. QED
    BY <2>1, <2>3
<1>3. QED
  BY <1>1, <1>2 DEF Fits

\* Where the firmware is in the call's frame, a, and in its replies, s: at the header, behind some of
\* the items, or at the end.
Place(c, a, s, m, l) ==
  \/ m = "hdr" /\ a = 0 /\ s = 0
  \/ /\ m = ModeOf(c) /\ l \in 1 .. Items(c)
     /\ a = 5 + Size(c) * (Items(c) - l) /\ s = Upto(c)[Items(c) - l]
  \/ m = "hdr" /\ a = Len(Sent(c)) /\ s = Len(Due(c))

\* Nothing but the frame of the call is on its way to the firmware, nothing but the replies to it on
\* the way back.
InFlight(c) ==
  \E a \in 0 .. Len(Sent(c)), s \in 0 .. Len(Due(c)) :
    /\ Place(c, a, s, fw.mode, fw.left)
    /\ Going(Sent(c), a, fw.buf, rx_ff, c.tx)
    /\ Coming(Due(c), s, c.got, ep_in, tx_ff, pend)

CallInv(c) == Fits(c) /\ c.trips = <<Trip(Bytes(c), Len(Due(c)), TRUE)>> /\ InFlight(c)

\* The firmware and TinyUSB keep to it.
LEMMA DeviceKeepsCall ==
  ASSUME TypeInv, CallInv(call), Device
  PROVE  CallInv(call)'
<1>. DEFINE c == call
            S == Sent(c)
            E == Due(c)
            n == Items(c)
            z == Size(c)
            o == Upto(c)
<1>1. Fits(c) /\ c.trips = <<Trip(Bytes(c), Len(Due(c)), TRUE)>>
  BY DEF CallInv
<1>2. PICK a \in 0 .. Len(S), s \in 0 .. Len(E) :
        /\ Place(c, a, s, fw.mode, fw.left)
        /\ Going(S, a, fw.buf, rx_ff, c.tx)
        /\ Coming(E, s, c.got, ep_in, tx_ff, pend)
  BY DEF CallInv, InFlight
<1>3. /\ n \in Nat \ {0} /\ z \in {2, 3} /\ ModeOf(c) = IF z = 2 THEN "X" ELSE "M"
      /\ S \in Seq(Byte) /\ Len(S) = 5 + z * n
      /\ S[1].v = IF z = 2 THEN MODE_X ELSE MODE_M
      /\ S[2].v = (n % 256) /\ S[3].v = n \div 256 /\ S[4].v = 0 /\ S[5].v = 0
  BY <1>1, ShapeFacts
<1>4. /\ E \in Seq(Reply) /\ Len(E) \in Nat \ {0} /\ o[0] = 0 /\ o[n] = Len(E)
      /\ \A d \in 0 .. n : o[d] \in 0 .. Len(E)
      /\ \A d, e \in 0 .. n : d <= e => o[d] <= o[e]
  BY <1>1, DueFacts
<1>5. call' = call
  BY DEF Device, ArmPacket, FwRead, FwHeader, FwChunk, FwWrite
<1>6. ASSUME NEW a2 \in 0 .. Len(S), NEW s2 \in 0 .. Len(E),
             Place(c, a2, s2, fw'.mode, fw'.left),
             Going(S, a2, fw'.buf, rx_ff', c.tx),
             Coming(E, s2, c.got, ep_in', tx_ff', pend')
      PROVE  CallInv(call)'
  <2>1. Sent(call') = S /\ Due(call') = E /\ Fits(call') /\ call'.trips = <<Trip(Bytes(call'), Len(Due(call')), TRUE)>>
    BY <1>1, <1>5
  <2>2. InFlight(call)'
    BY <1>5, <1>6, <2>1 DEF InFlight
  <2>3. QED
    BY <2>1, <2>2 DEF CallInv
<1>7. LinkType /\ FwType
  BY DEF TypeInv
<1>. HIDE DEF S, E, n, z, o
<1>8. CASE ArmPacket
  <2>1. ep_in = <<>> /\ ep_in' = Take(tx_ff, PACKET) /\ tx_ff' = Drop(tx_ff, PACKET) /\ UNCHANGED <<rx_ff, fw, pend>>
    BY <1>8 DEF ArmPacket, firmware
  <2>2. Coming(E, s, c.got, ep_in', tx_ff', pend)
    BY <1>2, <1>4, <2>1, ComingArm, Sizes
  <2>3. QED
    BY <1>2, <1>6, <2>1, <2>2
<1>9. CASE FwWrite
  <2>. DEFINE k == TXFIFO - Len(tx_ff)
  <2>1. tx_ff' = tx_ff \o Take(pend, k) /\ pend' = Drop(pend, k) /\ UNCHANGED <<rx_ff, fw, ep_in>>
    BY <1>9 DEF FwWrite
  <2>2. k \in Nat
    BY <1>7, Sizes DEF LinkType
  <2>. HIDE DEF k
  <2>3. Coming(E, s, c.got, ep_in, tx_ff', pend')
    BY <1>2, <1>4, <2>1, <2>2, ComingWrite
  <2>4. QED
    BY <1>2, <1>6, <2>1, <2>3
<1>10. CASE FwRead
  <2>. DEFINE k == Least(Need - Len(fw.buf), Len(rx_ff))
  <2>1. fw' = [fw EXCEPT !.buf = @ \o Take(rx_ff, k)] /\ rx_ff' = Drop(rx_ff, k) /\ UNCHANGED <<tx_ff, ep_in, pend>>
    BY <1>10 DEF FwRead
  <2>2. k \in Nat
    <3>1. Need \in Nat /\ Len(fw.buf) \in Nat /\ Len(fw.buf) <= Need
      BY <1>7, NeedFacts
    <3>2. Len(rx_ff) \in Nat
      BY <1>7 DEF LinkType
    <3>3. QED
      BY ONLY <3>1, <3>2 DEF Least
  <2>. HIDE DEF k
  <2>3. Going(S, a, fw.buf \o Take(rx_ff, k), Drop(rx_ff, k), c.tx)
    BY <1>2, <1>3, <2>2, GoingRead
  <2>4. fw'.mode = fw.mode /\ fw'.left = fw.left /\ fw'.buf = fw.buf \o Take(rx_ff, k)
    BY <1>7, <2>1 DEF FwType
  <2>5. Place(c, a, s, fw'.mode, fw'.left)
    BY <1>2, <2>4
  <2>6. Going(S, a, fw'.buf, rx_ff', c.tx)
    BY <2>1, <2>3, <2>4
  <2>7. Coming(E, s, c.got, ep_in', tx_ff', pend')
    BY <1>2, <2>1
  <2>8. QED
    BY <1>6, <2>5, <2>6, <2>7
<1>11. CASE FwHeader
  <2>. DEFINE b == fw.buf
              x == b[2].v + 256 * (b[3].v + 256 * (b[4].v + 256 * b[5].v))
  <2>1. /\ fw.mode = "hdr" /\ Len(b) = 5 /\ UNCHANGED <<rx_ff, tx_ff, ep_in, pend>>
        /\ fw' = [mode |-> IF x = 0 THEN "hdr" ELSE CASE b[1].v = MODE_X -> "X"
                                                     [] b[1].v = MODE_M -> "M"
                                                     [] OTHER           -> "hdr",
                  buf |-> <<>>, left |-> x]
    BY <1>7, <1>11, NeedFacts DEF FwHeader, usb
  <2>2. a + 5 \in a .. Len(S) /\ b = Slice(S, a, a + 5) /\ Going(S, a + 5, <<>>, rx_ff, c.tx)
    <3>1. a + Len(b) \in a .. Len(S) /\ b = Slice(S, a, a + Len(b)) /\ Going(S, a + Len(b), <<>>, rx_ff, c.tx)
      <4>1. S \in Seq(Byte) /\ a \in 0 .. Len(S) /\ Going(S, a, b, rx_ff, c.tx)
        BY <1>2, <1>3
      <4>2. QED
        BY ONLY <4>1, GoingUse
    <3>2. QED
      BY <2>1, <3>1
  <2>3. a = 0 /\ s = 0
    <3>1. ModeOf(c) # "hdr"
      BY <1>3
    <3>2. a # Len(S)
      BY <1>3, <2>2
    <3>3. QED
      BY <1>2, <2>1, <3>1, <3>2 DEF Place, S
  <2>4. b[1] = S[1] /\ b[2] = S[2] /\ b[3] = S[3] /\ b[4] = S[4] /\ b[5] = S[5]
    <3>1. 0 \in 0 .. Len(S) /\ 5 \in 0 .. Len(S) /\ b = Slice(S, 0, 5)
      BY <1>3, <2>2, <2>3
    <3>2. \A i \in 1 .. 5 - 0 : b[i] = S[0 + i]
      <4>1. S \in Seq(Byte) /\ 0 \in 0 .. Len(S) /\ 5 \in 0 .. Len(S)
        BY <1>3, <3>1
      <4>2. \A i \in 1 .. 5 - 0 : Slice(S, 0, 5)[i] = S[0 + i]
        BY ONLY <4>1, SliceFacts
      <4>3. QED
        BY <3>1, <4>2
    <3>3. \A i \in 1 .. 5 : b[i] = S[i]
      BY <3>2
    <3>4. QED
      BY <3>3
  <2>5. x = n
    <3>1. x = (n % 256) + 256 * (n \div 256 + 256 * (0 + 256 * 0))
      BY <1>3, <2>4
    <3>2. n \in Nat
      BY <1>3
    <3>3. QED
      BY <3>1, <3>2, CountBack
  <2>. DEFINE v == b[1].v
  <2>6. v = IF z = 2 THEN MODE_X ELSE MODE_M
    BY <1>3, <2>4
  <2>. HIDE DEF x, b, v
  <2>7. /\ fw'.buf = <<>> /\ fw'.left = x
        /\ fw'.mode = IF x = 0 THEN "hdr" ELSE CASE v = MODE_X -> "X" [] v = MODE_M -> "M" [] OTHER -> "hdr"
    BY <2>1 DEF v
  <2>8. fw'.mode = ModeOf(c) /\ fw'.left = n /\ fw'.buf = <<>>
    BY <1>3, <2>5, <2>6, <2>7 DEF MODE_X, MODE_M
  <2>9. n \in 1 .. n /\ n - n = 0 /\ 5 = 5 + z * (n - n) /\ o[n - n] = 0 /\ 5 \in 0 .. Len(S)
    BY <1>3, <1>4, <2>2, <2>3
  <2>10. Place(c, 5, 0, fw'.mode, fw'.left)
    BY <2>8, <2>9 DEF Place, n, z, o
  <2>11. Going(S, 5, fw'.buf, rx_ff', c.tx)
    BY <2>1, <2>2, <2>3, <2>8
  <2>12. Coming(E, 0, c.got, ep_in', tx_ff', pend') /\ 0 \in 0 .. Len(E)
    BY <1>2, <2>1, <2>3
  <2>13. QED
    BY <1>6, <2>9, <2>10, <2>11, <2>12
<1>12. CASE FwChunk
  <2>. DEFINE k == Batch
              d == n - fw.left
  <2>1. /\ fw.mode # "hdr" /\ pend = <<>> /\ Len(fw.buf) = Need /\ UNCHANGED <<rx_ff, tx_ff, ep_in>>
        /\ pend' = Replies(fw.mode, fw.buf, k)
        /\ fw' = [mode |-> IF fw.left = k THEN "hdr" ELSE fw.mode, buf |-> <<>>, left |-> fw.left - k]
    BY <1>12 DEF FwChunk, usb
  <2>2. /\ fw.mode = ModeOf(c) /\ fw.left \in 1 .. n /\ a = 5 + z * d /\ s = o[d]
    BY <1>2, <2>1 DEF Place, n, z, o
  <2>3. k \in 1 .. fw.left /\ Need = z * k /\ fw.left \in Nat
    BY <1>3, <1>7, <2>1, <2>2, NeedFacts
  <2>. HIDE DEF k
  <2>4. d \in 0 .. n - 1 /\ k \in 1 .. n - d /\ d + k \in 0 .. n /\ d \in 0 .. n /\ n - (fw.left - k) = d + k
        /\ d <= d + k /\ (fw.left = k => d + k = n) /\ (fw.left # k => fw.left - k \in 1 .. n)
    <3>. DEFINE L == fw.left
    <3>1. n \in Nat /\ L \in 1 .. n /\ k \in 1 .. L /\ d = n - L
      BY <1>3, <2>2, <2>3
    <3>. HIDE DEF d, L
    <3>2. /\ d \in 0 .. n - 1 /\ k \in 1 .. n - d /\ d + k \in 0 .. n /\ d \in 0 .. n /\ n - (L - k) = d + k
          /\ d <= d + k /\ (L = k => d + k = n) /\ (L # k => L - k \in 1 .. n)
      BY ONLY <3>1
    <3>3. QED
      BY <3>2 DEF L
  <2>. HIDE DEF d
  <2>5. 5 + z * (d + k) = (5 + z * d) + z * k
    BY <1>3, <2>3, <2>4
  <2>6. /\ a + Len(fw.buf) \in a .. Len(S) /\ fw.buf = Slice(S, a, a + Len(fw.buf))
        /\ Going(S, a + Len(fw.buf), <<>>, rx_ff, c.tx)
    <3>1. S \in Seq(Byte) /\ a \in 0 .. Len(S) /\ Going(S, a, fw.buf, rx_ff, c.tx)
      BY <1>2, <1>3
    <3>2. QED
      BY ONLY <3>1, GoingUse
  <2>. DEFINE e == 5 + z * (d + k)
  <2>7. a + Len(fw.buf) = e
    BY <2>1, <2>2, <2>3, <2>5
  <2>8. pend' = Slice(E, o[d], o[d + k])
    <3>1. Replies(ModeOf(c), Slice(S, 5 + z * d, 5 + z * (d + k)), k) = Slice(E, o[d], o[d + k])
      BY <1>1, <2>4, ChunkFacts DEF S, E, n, z, o
    <3>2. QED
      BY <2>1, <2>2, <2>6, <2>7, <3>1
  <2>. DEFINE t == o[d + k]
  <2>9. t \in s .. Len(E) /\ t \in 0 .. Len(E)
    <3>1. o[d] \in 0 .. Len(E) /\ o[d + k] \in 0 .. Len(E) /\ o[d] <= o[d + k]
      BY <1>4, <2>4
    <3>2. QED
      BY <2>2, <3>1
  <2>10. e \in 0 .. Len(S)
    <3>. HIDE DEF e
    <3>1. QED
      BY <2>6, <2>7
  <2>. HIDE DEF e, t
  <2>11. Coming(E, t, c.got, ep_in', tx_ff', pend')
    <3>1. Coming(E, s, c.got, ep_in, tx_ff, <<>>)
      BY <1>2, <2>1
    <3>2. Coming(E, t, c.got, ep_in, tx_ff, Slice(E, s, t))
      BY <1>4, <2>9, <3>1, ComingMake
    <3>3. QED
      BY <2>1, <2>2, <2>8, <3>2 DEF t
  <2>12. Going(S, e, fw'.buf, rx_ff', c.tx)
    BY <2>1, <2>6, <2>7
  <2>13. Place(c, e, t, fw'.mode, fw'.left)
    <3>1. CASE fw.left = k
      <4>1. fw'.mode = "hdr" /\ e = Len(S) /\ t = Len(E)
        BY <1>3, <1>4, <2>1, <2>4, <3>1 DEF e, t
      <4>2. QED
        BY <4>1 DEF Place, S, E
    <3>2. CASE fw.left # k
      <4>1. fw'.mode = ModeOf(c) /\ fw'.left = fw.left - k
        BY <2>1, <2>2, <3>2
      <4>2. fw'.left \in 1 .. n /\ e = 5 + z * (n - fw'.left) /\ t = o[n - fw'.left]
        BY <2>4, <3>2, <4>1 DEF e, t
      <4>3. QED
        BY <4>1, <4>2 DEF Place, n, z, o
    <3>3. QED
      BY <3>1, <3>2
  <2>14. QED
    BY <1>6, <2>9, <2>10, <2>11, <2>12, <2>13
<1>13. QED
  BY <1>8, <1>9, <1>10, <1>11, <1>12 DEF Device

\* A call that starts in step has its frame still to write.
LEMMA CallStarts ==
  ASSUME TypeInv, InStep, NEW w \in Wrapper, Status(w) \/ \E plan \in Plans : Execute(w, plan)
  PROVE  CallInv(call)' /\ call'.w = w
<1>. DEFINE c == call'
            S == Sent(c)
            E == Due(c)
<1>1. frames + 1 \in Nat
  BY DEF TypeInv, HostType
<1>2. /\ c.first = frames + 1 /\ c.got = <<>> /\ c.tx = Stamp(frames + 1, Head(c.trips).bytes) /\ c.w = w
      /\ \/ c.kind = "status" /\ c.trips = <<Trip(XBytes(CMD_STATUS, 1), 1, TRUE)>>
         \/ /\ c.kind = "execute" /\ c.plan \in Plans
            /\ c.trips = <<Trip(MBytes(c.plan), ReplyBytes(c.plan), TRUE)>>
      /\ UNCHANGED <<fw, rx_ff, tx_ff, ep_in, pend>>
  <2>1. CASE Status(w)
    BY <2>1 DEF Status, Begin, usb, firmware
  <2>2. CASE \E plan \in Plans : Execute(w, plan)
    <3>1. PICK plan \in Plans : Execute(w, plan)
      BY <2>2
    <3>2. QED
      BY <3>1 DEF Execute, Begin, usb, firmware
  <2>3. QED
    BY <2>1, <2>2
<1>3. Fits(c)
  BY <1>1, <1>2 DEF Fits
<1>4. c.trips = <<Trip(Bytes(c), Len(E), TRUE)>>
  <2>1. CASE c.kind = "status"
    <3>1. Bytes(c) = XBytes(CMD_STATUS, 1) /\ Len(E) = 1 /\ c.trips = <<Trip(XBytes(CMD_STATUS, 1), 1, TRUE)>>
      BY <1>2, <1>3, <2>1, DueFacts DEF Bytes
    <3>2. QED
      BY <3>1
  <2>2. CASE c.kind = "execute"
    <3>1. Bytes(c) = MBytes(c.plan) /\ Len(E) = ReplyBytes(c.plan) /\ c.trips = <<Trip(MBytes(c.plan), ReplyBytes(c.plan), TRUE)>>
      BY <1>2, <1>3, <2>2, DueFacts DEF Bytes
    <3>2. QED
      BY <3>1
  <2>3. QED
    BY <1>2, <2>1, <2>2
<1>5. c.tx = S
  <2>. DEFINE t == Trip(Bytes(c), Len(E), TRUE)
  <2>1. Head(<<t>>) = t
    <3>. HIDE DEF t
    <3>1. QED
      OBVIOUS
  <2>2. t.bytes = Bytes(c)
    BY DEF Trip
  <2>3. QED
    BY <1>2, <1>4, <2>1, <2>2 DEF Sent
<1>6. S \in Seq(Byte) /\ E \in Seq(Reply)
  BY <1>3, ShapeFacts, DueFacts
<1>7. fw'.mode = "hdr" /\ fw'.buf = <<>> /\ rx_ff' = <<>> /\ tx_ff' = <<>> /\ ep_in' = <<>> /\ pend' = <<>>
  BY <1>2 DEF InStep, Quiet
<1>8. /\ 0 \in 0 .. Len(S) /\ 0 \in 0 .. Len(E) /\ 0 <= 0 /\ 0 \in 0 .. 0
  BY <1>6
<1>. HIDE DEF S, E, c
<1>9. Going(S, 0, <<>>, <<>>, S)
  <2>1. Slice(S, 0, 0) = <<>> /\ Slice(S, 0, Len(S)) = S
    BY <1>6, <1>8, SliceEnds
  <2>2. QED
    BY <1>8, <2>1, Zenon DEF Going
<1>10. Coming(E, 0, <<>>, <<>>, <<>>, <<>>)
  <2>1. Slice(E, 0, 0) = <<>>
    BY <1>6, <1>8, SliceEnds
  <2>2. QED
    BY <1>8, <2>1, Zenon DEF Coming
<1>11. Place(c, 0, 0, fw'.mode, fw'.left)
  BY <1>7 DEF Place
<1>12. /\ Going(S, 0, fw'.buf, rx_ff', c.tx) /\ Coming(E, 0, c.got, ep_in', tx_ff', pend')
  BY <1>2, <1>5, <1>7, <1>9, <1>10
<1>13. InFlight(call)'
  BY <1>8, <1>11, <1>12 DEF InFlight, c, S, E
<1>14. QED
  BY <1>2, <1>3, <1>4, <1>13 DEF CallInv, c, E

\* What stays the same when a call writes and reads.
LEMMA SameCall ==
  ASSUME NEW c, NEW e, e.kind = c.kind, e.plan = c.plan, e.first = c.first
  PROVE  /\ Items(e) = Items(c) /\ Size(e) = Size(c) /\ ModeOf(e) = ModeOf(c) /\ Upto(e) = Upto(c)
         /\ Bytes(e) = Bytes(c) /\ Sent(e) = Sent(c) /\ Due(e) = Due(c) /\ (Fits(c) => Fits(e))
         /\ \A a, s, m, l : Place(c, a, s, m, l) => Place(e, a, s, m, l)
<1>1. /\ Items(e) = Items(c) /\ Size(e) = Size(c) /\ ModeOf(e) = ModeOf(c) /\ Upto(e) = Upto(c)
      /\ Bytes(e) = Bytes(c) /\ Due(e) = Due(c) /\ (Fits(c) => Fits(e))
  BY DEF Items, Size, ModeOf, Upto, Bytes, Due, Fits
<1>2. Sent(e) = Sent(c)
  BY <1>1 DEF Sent
<1>3. QED
  BY <1>1, <1>2 DEF Place

\* The round trip of a call.
LEMMA CallTrip ==
  ASSUME TypeInv, call # NoCall, CallInv(call)
  PROVE  /\ Len(call.trips) = 1 /\ Head(call.trips).replies = Len(Due(call)) /\ Head(call.trips).must = TRUE
         /\ call.kind # "create" /\ Len(Due(call)) \in Nat \ {0}
<1>. DEFINE t == Trip(Bytes(call), Len(Due(call)), TRUE)
<1>1. call.trips = <<t>> /\ Fits(call)
  BY DEF CallInv
<1>2. t.replies = Len(Due(call)) /\ t.must = TRUE
  BY DEF Trip
<1>. HIDE DEF t
<1>3. Len(<<t>>) = 1 /\ Head(<<t>>) = t
  OBVIOUS
<1>4. call.kind # "create" /\ Len(Due(call)) \in Nat \ {0}
  BY <1>1, DueFacts DEF Fits
<1>5. QED
  BY <1>1, <1>2, <1>3, <1>4

\* The host writes a packet of its frame.
LEMMA WriteKeepsCall ==
  ASSUME TypeInv, CallInv(call), WritePacket
  PROVE  CallInv(call)' /\ call' # NoCall /\ call'.w = call.w /\ call'.kind = call.kind
         /\ UNCHANGED <<wrapper, conn, ret, frames, opens>>
<1>. DEFINE S == Sent(call)
            E == Due(call)
<1>1. /\ call # NoCall /\ rx_ff' = rx_ff \o Take(call.tx, PACKET) /\ UNCHANGED <<tx_ff, ep_in, fw, pend, opens>>
      /\ \/ Head(call.trips).replies = 0
         \/ call' = [call EXCEPT !.tx = Drop(@, PACKET)] /\ UNCHANGED <<wrapper, conn, ret, frames>>
  BY DEF WritePacket, firmware
<1>2. Fits(call) /\ call.trips = <<Trip(Bytes(call), Len(E), TRUE)>> /\ InFlight(call)
  BY DEF CallInv
<1>3. call' = [call EXCEPT !.tx = Drop(call.tx, PACKET)] /\ UNCHANGED <<wrapper, conn, ret, frames>>
  <2>1. Head(call.trips).replies = Len(E) /\ Len(E) # 0
    BY <1>1, CallTrip
  <2>2. QED
    BY <1>1, <2>1
<1>4. call \in Call
  BY <1>1 DEF TypeInv, HostType
<1>5. /\ call'.kind = call.kind /\ call'.plan = call.plan /\ call'.first = call.first /\ call'.trips = call.trips
      /\ call'.w = call.w /\ call'.got = call.got /\ call'.tx = Drop(call.tx, PACKET)
  BY ONLY <1>3, <1>4 DEF Call
<1>6. PICK a \in 0 .. Len(S), s \in 0 .. Len(E) :
        /\ Place(call, a, s, fw.mode, fw.left)
        /\ Going(S, a, fw.buf, rx_ff, call.tx)
        /\ Coming(E, s, call.got, ep_in, tx_ff, pend)
  BY <1>2 DEF InFlight
<1>7. S \in Seq(Byte)
  BY <1>2, ShapeFacts
<1>. HIDE DEF S, E
<1>8. Going(S, a, fw.buf, rx_ff \o Take(call.tx, PACKET), Drop(call.tx, PACKET))
  BY <1>6, <1>7, GoingWrite, Sizes
<1>9. /\ Sent(call') = S /\ Due(call') = E /\ Fits(call') /\ Bytes(call') = Bytes(call)
      /\ Place(call', a, s, fw'.mode, fw'.left)
  BY <1>1, <1>2, <1>5, <1>6, SameCall DEF S, E
<1>10. Going(S, a, fw'.buf, rx_ff', call'.tx) /\ Coming(E, s, call'.got, ep_in', tx_ff', pend')
  BY <1>1, <1>5, <1>6, <1>8
<1>11. InFlight(call)'
  BY <1>9, <1>10 DEF InFlight
<1>12. CallInv(call)'
  BY <1>2, <1>5, <1>9, <1>11 DEF CallInv, E
<1>13. call' # NoCall
  <2>1. call'.tx \in Seq(Byte)
    <3>1. call.tx \in Seq(Byte)
      BY <1>1, CallFields DEF TypeInv
    <3>2. QED
      BY <1>5, <3>1, TakeDrop, Sizes
  <2>2. call' \in Call
    BY ONLY <1>3, <1>4, <1>5, <2>1 DEF Call, Byte
  <2>3. QED
    BY <2>2, NoCallAssumption
<1>14. QED
  BY <1>1, <1>3, <1>5, <1>12, <1>13

\* The host reads a packet: more of the replies to its frame, or the last of them, and then nothing is
\* in flight.
LEMMA ReadKeepsCall ==
  ASSUME TypeInv, CallInv(call), ReadPacket
  PROVE  \/ /\ CallInv(call)' /\ call' # NoCall /\ call'.w = call.w /\ call'.kind = call.kind
            /\ UNCHANGED <<wrapper, conn, ret, frames, opens>>
         \/ Return(TRUE, Due(call)) /\ InStep' /\ UNCHANGED opens
<1>. DEFINE S == Sent(call)
            E == Due(call)
            r == call.got \o ep_in
<1>1. /\ call # NoCall /\ ep_in' = <<>> /\ UNCHANGED <<rx_ff, tx_ff, fw, pend, opens>>
      /\ \/ Len(r) > Head(call.trips).replies
         \/ Len(r) = Head(call.trips).replies /\ EndTrip(r)
         \/ call' = [call EXCEPT !.got = r] /\ UNCHANGED <<wrapper, conn, ret, frames>>
  BY DEF ReadPacket, firmware
<1>2. Fits(call) /\ call.trips = <<Trip(Bytes(call), Len(E), TRUE)>> /\ InFlight(call)
  BY DEF CallInv
<1>3. Head(call.trips).replies = Len(E) /\ Len(call.trips) = 1 /\ call.kind # "create" /\ Len(E) \in Nat \ {0}
  BY <1>1, CallTrip
<1>4. call \in Call /\ call.got \in Seq(Reply) /\ ep_in \in Seq(Reply)
  BY <1>1, CallFields DEF TypeInv, HostType, LinkType
<1>5. r \in Seq(Reply)
  BY ONLY <1>4
<1>6. PICK a \in 0 .. Len(S), s \in 0 .. Len(E) :
        /\ Place(call, a, s, fw.mode, fw.left)
        /\ Going(S, a, fw.buf, rx_ff, call.tx)
        /\ Coming(E, s, call.got, ep_in, tx_ff, pend)
  BY <1>2 DEF InFlight
<1>7. S \in Seq(Byte) /\ E \in Seq(Reply)
  BY <1>2, ShapeFacts, DueFacts
<1>. HIDE DEF S, E
<1>8. /\ Coming(E, s, r, <<>>, tx_ff, pend)
      /\ Len(r) <= Len(E)
      /\ Len(r) = Len(E) => r = E /\ s = Len(E) /\ tx_ff = <<>> /\ pend = <<>>
  BY <1>6, <1>7, ComingRead
<1>. HIDE DEF r
<1>9. CASE Len(r) = Len(E) /\ EndTrip(r)
  <2>1. r = E /\ s = Len(E) /\ tx_ff = <<>> /\ pend = <<>>
    BY <1>8, <1>9
  <2>2. Return(TRUE, E)
    <3>1. ~(Len(call.trips) > 1)
      BY <1>3
    <3>2. Return(TRUE, r)
      BY <1>3, <1>9, <3>1, Zenon DEF EndTrip
    <3>3. QED
      BY <2>1, <3>2
  <2>3. fw.mode = "hdr" /\ a = Len(S)
    <3>1. s # 0
      BY <1>3, <2>1
    <3>2. ASSUME fw.left \in 1 .. Items(call), s = Upto(call)[Items(call) - fw.left] PROVE FALSE
      <4>1. Items(call) \in Nat \ {0}
        BY <1>2, ShapeFacts
      <4>2. Items(call) - fw.left \in 0 .. Items(call) /\ Items(call) - fw.left < Items(call)
        BY <3>2, <4>1
      <4>3. Upto(call)[Items(call) - fw.left] < Len(E)
        BY <1>2, <4>2, DueFacts DEF E
      <4>4. QED
        BY <1>3, <2>1, <3>2, <4>3
    <3>3. QED
      BY <1>6, <3>1, <3>2 DEF Place, S
  <2>4. fw.buf = <<>> /\ rx_ff = <<>>
    BY <1>6, <1>7, <2>3, GoingEnd
  <2>5. InStep'
    BY <1>1, <2>1, <2>3, <2>4 DEF InStep, Quiet
  <2>6. QED
    BY <1>1, <2>2, <2>5 DEF E
<1>10. CASE call' = [call EXCEPT !.got = r] /\ UNCHANGED <<wrapper, conn, ret, frames>>
  <2>1. /\ call'.kind = call.kind /\ call'.plan = call.plan /\ call'.first = call.first /\ call'.trips = call.trips
        /\ call'.w = call.w /\ call'.got = r /\ call'.tx = call.tx /\ call' \in Call
    BY ONLY <1>4, <1>5, <1>10 DEF Call, Reply
  <2>2. call' # NoCall
    BY <2>1, NoCallAssumption
  <2>3. /\ Sent(call') = S /\ Due(call') = E /\ Fits(call') /\ Bytes(call') = Bytes(call)
        /\ Place(call', a, s, fw'.mode, fw'.left)
    BY <1>1, <1>2, <1>6, <2>1, SameCall DEF S, E
  <2>4. Going(S, a, fw'.buf, rx_ff', call'.tx) /\ Coming(E, s, call'.got, ep_in', tx_ff', pend')
    BY <1>1, <1>6, <1>8, <2>1
  <2>5. InFlight(call)'
    BY <2>3, <2>4 DEF InFlight
  <2>6. CallInv(call)'
    BY <1>2, <2>1, <2>3, <2>5 DEF CallInv, E
  <2>7. QED
    BY <1>1, <1>10, <2>1, <2>2, <2>6
<1>11. ~(Len(r) > Len(E))
  <2>1. Len(r) \in Nat
    BY <1>5
  <2>2. QED
    BY <1>3, <1>8, <2>1
<1>12. QED
  BY <1>1, <1>3, <1>9, <1>10, <1>11 DEF r
-----------------------------------------------------------------------------
(* The bring-up: five frames, of which the two NOP frames may be lost to a timeout. *)

Frame(t) == Stamp(t, BringUp[t].bytes)
Hdr(t)   == Slice(Frame(t), 0, 5)
Body(t)  == Slice(Frame(t), 5, Len(Frame(t)))

\* The cycles of frame t, and so its replies.
Pairs(t) == IF t = 2 THEN 8 ELSE IF t = 4 THEN 4 ELSE IF t = 5 THEN 1 ELSE 0

\* The frames of W, one behind the other.
Part(W, t) == IF t \in W THEN Frame(t) ELSE <<>>
Cat(W)     == Part(W, 1) \o (Part(W, 2) \o (Part(W, 3) \o (Part(W, 4) \o Part(W, 5))))

\* The replies to the frames of K.
Weight(K)    == (IF 2 \in K THEN 8 ELSE 0) + (IF 4 \in K THEN 4 ELSE 0) + (IF 5 \in K THEN 1 ELSE 0)
Before(K, L) == \A x \in K : \A y \in L : x < y

IsFrame(s, n) ==
  /\ s \in Seq(Nat) /\ Len(s) = 5 + 2 * n /\ (n > 0 => s[1] = MODE_X)
  /\ s[2] = n /\ s[3] = 0 /\ s[4] = 0 /\ s[5] = 0

\* The trips of the bring-up.
LEMMA TripFacts ==
  ASSUME NEW t \in 1 .. 5
  PROVE  /\ IsFrame(BringUp[t].bytes, Pairs(t)) /\ BringUp[t].replies = Pairs(t)
         /\ (BringUp[t].must <=> t \notin {2, 4}) /\ Pairs(t) \in 0 .. 8 /\ (Pairs(t) > 0 <=> t \in {2, 4, 5})
<1>1. ASSUME NEW m \in Nat PROVE IsFrame(Header(m, 0), 0)
  <2>1. 0 \in Nat /\ <<>> \in Seq(Nat) /\ Len(<<>>) = 0
    OBVIOUS
  <2>2. HeadedBy(Header(m, 0) \o <<>>, m, 0, <<>>) /\ Header(m, 0) \in Seq(Nat)
    BY <1>1, <2>1, HeaderFacts
  <2>3. Header(m, 0) \o <<>> = Header(m, 0)
    BY <2>2
  <2>. DEFINE h == Header(m, 0)
  <2>4. HeadedBy(h, m, 0, <<>>)
    BY <2>2, <2>3
  <2>. HIDE DEF h
  <2>5. (0 % 256) = 0 /\ 0 \div 256 = 0 /\ 5 + 0 = 5 + 2 * 0 /\ ~(0 > 0)
    OBVIOUS
  <2>6. QED
    BY <2>1, <2>4, <2>5 DEF HeadedBy, IsFrame, h
<1>2. ASSUME NEW m \in Nat, NEW n \in {1, 4, 8} PROVE IsFrame(XBytes(m, n), n)
  <2>1. IsX(XBytes(m, n), n)
    <3>1. n \in Nat \ {0}
      OBVIOUS
    <3>2. QED
      BY <1>2, <3>1, XFacts
  <2>. DEFINE x == XBytes(m, n)
  <2>2. (n % 256) = n /\ n \div 256 = 0
    OBVIOUS
  <2>. HIDE DEF x
  <2>3. IsX(x, n)
    BY <2>1 DEF x
  <2>4. IsFrame(x, n)
    BY <2>2, <2>3 DEF IsX, IsFrame
  <2>5. QED
    BY <2>4 DEF x
<1>3. MODE_a \in Nat /\ MODE_d \in Nat /\ CMD_NOP \in Nat /\ CMD_STATUS \in Nat
  BY DEF MODE_a, MODE_d, CMD_NOP, CMD_STATUS
<1>5. CASE t = 1
  <2>1. IsFrame(Header(MODE_a, 0), 0)
    BY <1>1, <1>3
  <2>2. BringUp[t] = Trip(Header(MODE_a, 0), 0, TRUE) /\ Pairs(t) = 0
    BY <1>5, BringUpFacts DEF Pairs
  <2>3. BringUp[t].bytes = Header(MODE_a, 0) /\ BringUp[t].replies = 0 /\ BringUp[t].must = TRUE
    BY ONLY <2>2 DEF Trip
  <2>4. Pairs(t) \in 0 .. 8 /\ (Pairs(t) > 0 <=> t \in {2, 4, 5}) /\ t \notin {2, 4}
    BY ONLY <1>5, <2>2
  <2>5. QED
    BY ONLY <2>1, <2>2, <2>3, <2>4, Zenon
<1>6. CASE t = 2
  <2>1. IsFrame(XBytes(CMD_NOP, 8), 8)
    BY <1>2, <1>3
  <2>2. BringUp[t] = Trip(XBytes(CMD_NOP, 8), 8, FALSE) /\ Pairs(t) = 8
    BY <1>6, BringUpFacts DEF Pairs
  <2>3. BringUp[t].bytes = XBytes(CMD_NOP, 8) /\ BringUp[t].replies = 8 /\ BringUp[t].must = FALSE
    BY ONLY <2>2 DEF Trip
  <2>4. Pairs(t) \in 0 .. 8 /\ (Pairs(t) > 0 <=> t \in {2, 4, 5}) /\ ~(t \notin {2, 4})
    BY ONLY <1>6, <2>2
  <2>5. QED
    BY ONLY <2>1, <2>2, <2>3, <2>4, Zenon
<1>7. CASE t = 3
  <2>1. IsFrame(Header(MODE_d, 0), 0)
    BY <1>1, <1>3
  <2>2. BringUp[t] = Trip(Header(MODE_d, 0), 0, TRUE) /\ Pairs(t) = 0
    BY <1>7, BringUpFacts DEF Pairs
  <2>3. BringUp[t].bytes = Header(MODE_d, 0) /\ BringUp[t].replies = 0 /\ BringUp[t].must = TRUE
    BY ONLY <2>2 DEF Trip
  <2>4. Pairs(t) \in 0 .. 8 /\ (Pairs(t) > 0 <=> t \in {2, 4, 5}) /\ t \notin {2, 4}
    BY ONLY <1>7, <2>2
  <2>5. QED
    BY ONLY <2>1, <2>2, <2>3, <2>4, Zenon
<1>8. CASE t = 4
  <2>1. IsFrame(XBytes(CMD_NOP, 4), 4)
    BY <1>2, <1>3
  <2>2. BringUp[t] = Trip(XBytes(CMD_NOP, 4), 4, FALSE) /\ Pairs(t) = 4
    BY <1>8, BringUpFacts DEF Pairs
  <2>3. BringUp[t].bytes = XBytes(CMD_NOP, 4) /\ BringUp[t].replies = 4 /\ BringUp[t].must = FALSE
    BY ONLY <2>2 DEF Trip
  <2>4. Pairs(t) \in 0 .. 8 /\ (Pairs(t) > 0 <=> t \in {2, 4, 5}) /\ ~(t \notin {2, 4})
    BY ONLY <1>8, <2>2
  <2>5. QED
    BY ONLY <2>1, <2>2, <2>3, <2>4, Zenon
<1>9. CASE t = 5
  <2>1. IsFrame(XBytes(CMD_STATUS, 1), 1)
    BY <1>2, <1>3
  <2>2. BringUp[t] = Trip(XBytes(CMD_STATUS, 1), 1, TRUE) /\ Pairs(t) = 1
    BY <1>9, BringUpFacts DEF Pairs
  <2>3. BringUp[t].bytes = XBytes(CMD_STATUS, 1) /\ BringUp[t].replies = 1 /\ BringUp[t].must = TRUE
    BY ONLY <2>2 DEF Trip
  <2>4. Pairs(t) \in 0 .. 8 /\ (Pairs(t) > 0 <=> t \in {2, 4, 5}) /\ t \notin {2, 4}
    BY ONLY <1>9, <2>2
  <2>5. QED
    BY ONLY <2>1, <2>2, <2>3, <2>4, Zenon
<1>10. QED
  BY <1>5, <1>6, <1>7, <1>8, <1>9

\* The frames of the bring-up, header and body.
LEMMA FrameFacts ==
  ASSUME NEW t \in 1 .. 5
  PROVE  /\ Frame(t) \in Seq(Byte) /\ Len(Frame(t)) = 5 + 2 * Pairs(t) /\ Len(Frame(t)) \in 5 .. 21
         /\ Hdr(t) \in Seq(Byte) /\ Len(Hdr(t)) = 5 /\ Body(t) \in Seq(Byte) /\ Len(Body(t)) = 2 * Pairs(t)
         /\ Frame(t) = Hdr(t) \o Body(t) /\ (Pairs(t) = 0 => Body(t) = <<>>)
         /\ (Pairs(t) > 0 => Hdr(t)[1].v = MODE_X)
         /\ Hdr(t)[2].v = Pairs(t) /\ Hdr(t)[3].v = 0 /\ Hdr(t)[4].v = 0 /\ Hdr(t)[5].v = 0
<1>. DEFINE s == BringUp[t].bytes
            n == Pairs(t)
            F == Frame(t)
<1>1. s \in Seq(Nat) /\ Len(s) = 5 + 2 * n /\ (n > 0 => s[1] = MODE_X) /\ s[2] = n /\ s[3] = 0 /\ s[4] = 0 /\ s[5] = 0
      /\ n \in 0 .. 8
  <2>. HIDE DEF n, s
  <2>1. IsFrame(s, n) /\ n \in 0 .. 8
    BY TripFacts DEF n, s
  <2>2. QED
    BY <2>1 DEF IsFrame
<1>. HIDE DEF n, s
<1>2. F \in Seq(Byte) /\ Len(F) = Len(s) /\ \A i \in 1 .. Len(s) : F[i] = [f |-> t, i |-> i, v |-> s[i]]
  <2>1. t \in Nat
    OBVIOUS
  <2>2. QED
    BY <1>1, <2>1, StampFacts DEF Frame, s
<1>. HIDE DEF F
<1>3. 0 \in 0 .. Len(F) /\ 5 \in 0 .. Len(F) /\ Len(F) \in 5 .. Len(F) /\ Len(F) = 5 + 2 * n /\ Len(F) \in 5 .. 21
  BY <1>1, <1>2
<1>4. Slice(F, 0, 5) \in Seq(Byte) /\ Len(Slice(F, 0, 5)) = 5 - 0 /\ \A i \in 1 .. 5 - 0 : Slice(F, 0, 5)[i] = F[0 + i]
  BY <1>2, <1>3, SliceFacts
<1>5. Slice(F, 5, Len(F)) \in Seq(Byte) /\ Len(Slice(F, 5, Len(F))) = Len(F) - 5
  BY <1>2, <1>3, SliceFacts, ZenonT(40)
<1>6. Slice(F, 0, 5) \o Slice(F, 5, Len(F)) = Slice(F, 0, Len(F)) /\ Slice(F, 0, Len(F)) = F
  BY <1>2, <1>3, SliceJoin, SliceEnds
<1>7. Slice(F, 0, 5) = Hdr(t) /\ Slice(F, 5, Len(F)) = Body(t)
  BY DEF Hdr, Body, F
<1>8. \A i \in 1 .. 5 : Hdr(t)[i].v = s[i]
  <2>1. \A i \in 1 .. 5 : i \in 1 .. Len(s) /\ i \in 1 .. 5 - 0 /\ 0 + i = i
    BY <1>1
  <2>2. \A i \in 1 .. 5 : Hdr(t)[i] = [f |-> t, i |-> i, v |-> s[i]]
    BY <1>2, <1>4, <1>7, <2>1
  <2>3. QED
    BY ONLY <2>2
<1>9. Hdr(t) \in Seq(Byte) /\ Len(Hdr(t)) = 5 /\ Body(t) \in Seq(Byte) /\ Len(Body(t)) = 2 * n
  <2>1. Len(Hdr(t)) = 5 - 0 /\ Len(Body(t)) = Len(F) - 5 /\ Hdr(t) \in Seq(Byte) /\ Body(t) \in Seq(Byte)
    BY <1>4, <1>5, <1>7, Zenon
  <2>2. QED
    BY ONLY <1>1, <1>3, <2>1
<1>10. n = 0 => Body(t) = <<>>
  BY ONLY <1>9
<1>11. /\ Hdr(t)[1].v = s[1] /\ Hdr(t)[2].v = s[2] /\ Hdr(t)[3].v = s[3] /\ Hdr(t)[4].v = s[4] /\ Hdr(t)[5].v = s[5]
  BY ONLY <1>8
<1>12. F = Hdr(t) \o Body(t)
  BY <1>6, <1>7, Zenon
<1>13. /\ F \in Seq(Byte) /\ Len(F) = 5 + 2 * n /\ Len(F) \in 5 .. 21
       /\ Hdr(t) \in Seq(Byte) /\ Len(Hdr(t)) = 5 /\ Body(t) \in Seq(Byte) /\ Len(Body(t)) = 2 * n
       /\ F = Hdr(t) \o Body(t) /\ (n = 0 => Body(t) = <<>>)
       /\ (n > 0 => Hdr(t)[1].v = MODE_X)
       /\ Hdr(t)[2].v = n /\ Hdr(t)[3].v = 0 /\ Hdr(t)[4].v = 0 /\ Hdr(t)[5].v = 0
  BY <1>1, <1>2, <1>3, <1>9, <1>10, <1>11, <1>12, Zenon
<1>14. QED
  BY ONLY <1>13 DEF F, n

\* A sequence behind another is cut off where it starts.
LEMMA TakeFront ==
  ASSUME NEW T, NEW s \in Seq(T), NEW u \in Seq(T)
  PROVE  Take(s \o u, Len(s)) = s /\ Drop(s \o u, Len(s)) = u
<1>. DEFINE c == s \o u
            n == Len(s)
<1>1. /\ c \in Seq(T) /\ Len(c) = n + Len(u) /\ n \in Nat /\ Len(u) \in Nat
      /\ \A i \in 1 .. n + Len(u) : c[i] = IF i <= n THEN s[i] ELSE u[i - n]
  BY ConcatProperties
<1>. HIDE DEF c, n
<1>2. Least(n, Len(c)) = n
  BY <1>1 DEF Least
<1>3. n \in 0 .. Len(c) /\ 0 \in 0 .. Len(c) /\ n \in 0 .. Len(c) /\ Len(c) \in n .. Len(c)
  BY <1>1
<1>4. /\ Slice(c, 0, n) \in Seq(T) /\ Len(Slice(c, 0, n)) = n - 0
      /\ \A i \in 1 .. n - 0 : Slice(c, 0, n)[i] = c[0 + i]
  BY <1>1, <1>3, SliceFacts
<1>5. /\ Slice(c, n, Len(c)) \in Seq(T) /\ Len(Slice(c, n, Len(c))) = Len(c) - n
      /\ \A i \in 1 .. Len(c) - n : Slice(c, n, Len(c))[i] = c[n + i]
  BY <1>1, <1>3, SliceFacts
<1>6. Slice(c, 0, n) = s
  <2>. DEFINE f == Slice(c, 0, n)
  <2>1. f \in Seq(T) /\ Len(f) = n /\ \A i \in 1 .. n : f[i] = c[i]
    BY <1>1, <1>4
  <2>2. \A i \in 1 .. n : c[i] = s[i]
    BY <1>1
  <2>. HIDE DEF f
  <2>3. f = s
    BY <2>1, <2>2, SeqEqual DEF n
  <2>4. QED
    BY <2>3 DEF f
<1>7. Slice(c, n, Len(c)) = u
  <2>. DEFINE f == Slice(c, n, Len(c))
  <2>1. f \in Seq(T) /\ Len(f) = Len(u) /\ \A i \in 1 .. Len(u) : f[i] = c[n + i]
    BY <1>1, <1>5
  <2>2. \A i \in 1 .. Len(u) : c[n + i] = u[i]
    BY <1>1
  <2>. HIDE DEF f
  <2>3. f = u
    BY <2>1, <2>2, SeqEqual
  <2>4. QED
    BY <2>3 DEF f
<1>8. Take(c, n) = Slice(c, 0, n) /\ Drop(c, n) = Slice(c, n, Len(c))
  <2>1. 0 + 1 = 1
    OBVIOUS
  <2>2. QED
    BY <1>2, <2>1 DEF Take, Drop, Slice
<1>9. QED
  BY <1>6, <1>7, <1>8 DEF c, n

LEMMA PartFacts ==
  ASSUME NEW W, NEW t \in 1 .. 5
  PROVE  /\ Part(W, t) \in Seq(Byte) /\ (t \notin W => Part(W, t) = <<>>) /\ (t \in W => Part(W, t) = Frame(t))
         /\ Part(W, t) \o <<>> = Part(W, t)
<1>1. Frame(t) \in Seq(Byte)
  BY FrameFacts
<1>2. <<>> \in Seq(Byte)
  OBVIOUS
<1>3. Part(W, t) \in Seq(Byte)
  BY <1>1, <1>2, Zenon DEF Part
<1>4. Part(W, t) \o <<>> = Part(W, t)
  BY <1>3, ConcatEmptySeq
<1>5. QED
  BY <1>3, <1>4, Zenon DEF Part

\* The frames from the t-th on.
From(W, t) == IF t = 1 THEN Cat(W)
              ELSE IF t = 2 THEN Part(W, 2) \o (Part(W, 3) \o (Part(W, 4) \o Part(W, 5)))
              ELSE IF t = 3 THEN Part(W, 3) \o (Part(W, 4) \o Part(W, 5))
              ELSE IF t = 4 THEN Part(W, 4) \o Part(W, 5)
              ELSE IF t = 5 THEN Part(W, 5) ELSE <<>>

LEMMA FromStep ==
  ASSUME NEW W, NEW t \in 1 .. 5
  PROVE  /\ From(W, t) \in Seq(Byte) /\ From(W, t) = Part(W, t) \o From(W, t + 1)
         /\ From(W, 6) = <<>> /\ From(W, 1) = Cat(W)
<1>1. \A x \in 1 .. 5 : Part(W, x) \in Seq(Byte) /\ Part(W, x) \o <<>> = Part(W, x)
  BY PartFacts
<1>. DEFINE p1 == Part(W, 1)
            p2 == Part(W, 2)
            p3 == Part(W, 3)
            p4 == Part(W, 4)
            p5 == Part(W, 5)
<1>2. p1 \in Seq(Byte) /\ p2 \in Seq(Byte) /\ p3 \in Seq(Byte) /\ p4 \in Seq(Byte) /\ p5 \in Seq(Byte) /\ p5 \o <<>> = p5
  BY <1>1
<1>3. /\ From(W, 6) = <<>> /\ From(W, 5) = p5 /\ From(W, 4) = p4 \o p5 /\ From(W, 3) = p3 \o (p4 \o p5)
      /\ From(W, 2) = p2 \o (p3 \o (p4 \o p5)) /\ From(W, 1) = p1 \o (p2 \o (p3 \o (p4 \o p5))) /\ From(W, 1) = Cat(W)
  BY DEF From, Cat
<1>4. \A s, u \in Seq(Byte) : s \o u \in Seq(Byte)
  BY ConcatProperties
<1>. HIDE DEF p1, p2, p3, p4, p5
<1>5. /\ p4 \o p5 \in Seq(Byte) /\ p3 \o (p4 \o p5) \in Seq(Byte) /\ p2 \o (p3 \o (p4 \o p5)) \in Seq(Byte)
      /\ p1 \o (p2 \o (p3 \o (p4 \o p5))) \in Seq(Byte)
  BY <1>2, <1>4, Zenon
<1>6. /\ t = 1 \/ t = 2 \/ t = 3 \/ t = 4 \/ t = 5
      /\ 1 + 1 = 2 /\ 2 + 1 = 3 /\ 3 + 1 = 4 /\ 4 + 1 = 5 /\ 5 + 1 = 6
  OBVIOUS
<1>7. CASE t = 1
  BY <1>3, <1>5, <1>6, <1>7, Zenon DEF p1
<1>8. CASE t = 2
  BY <1>3, <1>5, <1>6, <1>8, Zenon DEF p2
<1>9. CASE t = 3
  BY <1>3, <1>5, <1>6, <1>9, Zenon DEF p3
<1>10. CASE t = 4
  BY <1>3, <1>5, <1>6, <1>10, Zenon DEF p4
<1>11. CASE t = 5
  BY <1>2, <1>3, <1>6, <1>11, Zenon DEF p5
<1>12. QED
  BY <1>6, <1>7, <1>8, <1>9, <1>10, <1>11, Zenon

LEMMA Downwards ==
  ASSUME NEW K, 6 \in K, \A x \in 1 .. 5 : x + 1 \in K => x \in K
  PROVE  \A x \in 1 .. 6 : x \in K
<1>1. 5 \in 1 .. 5 /\ 4 \in 1 .. 5 /\ 3 \in 1 .. 5 /\ 2 \in 1 .. 5 /\ 1 \in 1 .. 5 /\ 5 + 1 = 6 /\ 4 + 1 = 5 /\ 3 + 1 = 4 /\ 2 + 1 = 3 /\ 1 + 1 = 2
  OBVIOUS
<1>2. 5 \in K
  BY <1>1
<1>3. 4 \in K
  BY <1>1, <1>2
<1>4. 3 \in K
  BY <1>1, <1>3
<1>5. 2 \in K
  BY <1>1, <1>4
<1>6. 1 \in K
  BY <1>1, <1>5
<1>7. \A x \in 1 .. 6 : x = 1 \/ x = 2 \/ x = 3 \/ x = 4 \/ x = 5 \/ x = 6
  OBVIOUS
<1>8. QED
  BY <1>2, <1>3, <1>4, <1>5, <1>6, <1>7, Zenon

LEMMA CatType ==
  ASSUME NEW W
  PROVE  Cat(W) \in Seq(Byte)
BY FromStep

\* No frames are no bytes.
LEMMA CatNone == Cat({}) = <<>>
<1>. DEFINE K == {x \in 1 .. 6 : From({}, x) = <<>>}
<1>1. From({}, 6) = <<>> /\ From({}, 1) = Cat({})
  BY FromStep
<1>2. ASSUME NEW x \in 1 .. 5, From({}, x + 1) = <<>> PROVE From({}, x) = <<>>
  <2>1. From({}, x) = Part({}, x) \o From({}, x + 1) /\ Part({}, x) = <<>>
    BY FromStep, PartFacts
  <2>2. <<>> \o <<>> = <<>>
    OBVIOUS
  <2>3. QED
    BY <1>2, <2>1, <2>2
<1>3. \A x \in 1 .. 6 : x \in K
  <2>1. 6 \in K
    BY <1>1
  <2>2. \A x \in 1 .. 5 : x + 1 \in K => x \in K
    BY <1>2
  <2>. HIDE DEF K
  <2>3. QED
    BY <2>1, <2>2, Downwards
<1>4. From({}, 1) = <<>>
  BY <1>3
<1>5. QED
  BY <1>1, <1>4

\* The first of the frames is in front.
LEMMA CatHead ==
  ASSUME NEW W \in SUBSET (1 .. 5), NEW h \in W, \A x \in W : x >= h
  PROVE  Cat(W) = Frame(h) \o Cat(W \ {h})
<1>. DEFINE V == W \ {h}
<1>1. h \in 1 .. 5
  OBVIOUS
<1>2. \A x \in 1 .. 5 : /\ x > h => Part(W, x) = Part(V, x)
                        /\ x < h => x \notin W
                        /\ x <= h => x \notin V
  <2>1. \A x \in 1 .. 5 : /\ x > h => (x \in W <=> x \in V)
                          /\ x < h => x \notin W
                          /\ x <= h => x \notin V
    BY <1>1
  <2>2. \A x \in 1 .. 5 : x > h => Part(W, x) = Part(V, x)
    BY <2>1, Zenon DEF Part
  <2>3. QED
    BY <2>1, <2>2, Zenon
<1>3. \A x \in 1 .. 5 : /\ x < h => From(W, x) = From(W, x + 1)
                        /\ x <= h => From(V, x) = From(V, x + 1)
  <2>. HIDE DEF V
  <2>1. SUFFICES ASSUME NEW x \in 1 .. 5, NEW Y, x \notin Y PROVE From(Y, x) = From(Y, x + 1)
    BY <1>2, Zenon
  <2>2. From(Y, x) = <<>> \o From(Y, x + 1)
    BY <2>1, FromStep, PartFacts
  <2>3. From(Y, x + 1) \in Seq(Byte)
    <3>1. CASE x = 5
      <4>1. x + 1 = 6 /\ <<>> \in Seq(Byte)
        BY <3>1
      <4>2. From(Y, 6) = <<>>
        BY FromStep
      <4>3. QED
        BY <4>1, <4>2
    <3>2. CASE x # 5
      <4>1. x + 1 \in 1 .. 5
        BY <3>2
      <4>2. QED
        BY <4>1, FromStep
    <3>3. QED
      BY <3>1, <3>2
  <2>4. QED
    BY <2>2, <2>3, ConcatEmptySeq
<1>. HIDE DEF V
<1>4. \A x \in 1 .. 6 : x > h => From(W, x) = From(V, x)
  <2>. DEFINE K == {x \in 1 .. 6 : x > h => From(W, x) = From(V, x)}
  <2>1. 6 \in K
    <3>1. From(W, 6) = From(V, 6)
      BY FromStep
    <3>2. QED
      BY <3>1
  <2>2. ASSUME NEW x \in 1 .. 5, x + 1 \in K PROVE x \in K
    <3>1. CASE x > h
      <4>1. x + 1 > h /\ x \in 1 .. 6
        BY <1>1, <3>1
      <4>2. From(W, x + 1) = From(V, x + 1) /\ Part(W, x) = Part(V, x)
        BY <1>2, <2>2, <3>1, <4>1
      <4>3. From(W, x) = Part(W, x) \o From(W, x + 1) /\ From(V, x) = Part(V, x) \o From(V, x + 1)
        BY FromStep
      <4>4. From(W, x) = From(V, x)
        BY <4>2, <4>3, Zenon
      <4>5. QED
        BY <4>1, <4>4
    <3>2. CASE ~(x > h)
      BY <3>2
    <3>3. QED
      BY <3>1, <3>2
  <2>. HIDE DEF K
  <2>3. \A x \in 1 .. 6 : x \in K
    BY <2>1, <2>2, Downwards
  <2>4. QED
    BY <2>3 DEF K
<1>5. \A x \in 1 .. 6 : /\ x <= h => From(W, x) = From(W, h)
                        /\ x <= h + 1 => From(V, x) = From(V, h + 1)
  <2>. DEFINE K == {x \in 1 .. 6 : /\ x <= h => From(W, x) = From(W, h)
                                   /\ x <= h + 1 => From(V, x) = From(V, h + 1)}
  <2>1. 6 \in K
    BY <1>1
  <2>2. ASSUME NEW x \in 1 .. 5, x + 1 \in K PROVE x \in K
    <3>1. x \in 1 .. 6 /\ (x < h => x + 1 <= h) /\ (x <= h => x + 1 <= h + 1) /\ (x <= h => x < h \/ x = h)
          /\ (x <= h + 1 => x <= h \/ x = h + 1)
      BY <1>1
    <3>2. x + 1 <= h => From(W, x + 1) = From(W, h)
      BY <2>2
    <3>3. x + 1 <= h + 1 => From(V, x + 1) = From(V, h + 1)
      BY <2>2
    <3>4. x <= h => From(W, x) = From(W, h)
      BY <1>3, <3>1, <3>2, Zenon
    <3>5. x <= h + 1 => From(V, x) = From(V, h + 1)
      BY <1>3, <3>1, <3>3, Zenon
    <3>6. QED
      BY <3>1, <3>4, <3>5
  <2>. HIDE DEF K
  <2>3. \A x \in 1 .. 6 : x \in K
    BY <2>1, <2>2, Downwards
  <2>4. QED
    BY <2>3 DEF K
<1>6. 1 \in 1 .. 6 /\ 1 <= h /\ 1 <= h + 1 /\ h + 1 \in 1 .. 6 /\ h + 1 > h
  BY <1>1
<1>7. Cat(W) = From(W, h) /\ Cat(V) = From(V, h + 1) /\ From(W, h + 1) = From(V, h + 1)
  BY <1>1, <1>4, <1>5, <1>6, FromStep
<1>8. From(W, h) = Part(W, h) \o From(W, h + 1) /\ Part(W, h) = Frame(h)
  BY <1>1, FromStep, PartFacts
<1>9. QED
  BY <1>7, <1>8, Zenon DEF V

\* A frame later than all others goes behind them.
LEMMA CatAppend ==
  ASSUME NEW W \in SUBSET (1 .. 5), NEW t \in 1 .. 5, \A x \in W : x < t
  PROVE  Cat(W) \o Frame(t) = Cat(W \cup {t})
<1>. DEFINE V == W \cup {t}
            F == Frame(t)
<1>1. \A x \in 1 .. 5 : /\ x < t => Part(V, x) = Part(W, x)
                        /\ x >= t => Part(W, x) = <<>>
                        /\ x > t => Part(V, x) = <<>>
                        /\ x = t => Part(V, x) = F
  <2>1. \A x \in 1 .. 5 : /\ x < t => (x \in V <=> x \in W)
                          /\ x >= t => x \notin W
                          /\ x > t => x \notin V
                          /\ x = t => x \in V
    OBVIOUS
  <2>. HIDE DEF V
  <2>2. QED
    BY <2>1, Zenon DEF Part
<1>2. F \in Seq(Byte) /\ <<>> \in Seq(Byte) /\ <<>> \o <<>> = <<>> /\ F \o <<>> = F /\ <<>> \o F = F
  <2>1. F \in Seq(Byte)
    BY FrameFacts
  <2>. HIDE DEF F
  <2>2. <<>> \in Seq(Byte) /\ <<>> \o <<>> = <<>>
    OBVIOUS
  <2>3. QED
    BY <2>1, <2>2, ConcatEmptySeq
<1>. HIDE DEF V, F
<1>. DEFINE K == {x \in 1 .. 6 : /\ x > t => From(W, x) = <<>> /\ From(V, x) = <<>>
                                 /\ x <= t => From(V, x) = From(W, x) \o F}
<1>3. 6 \in K
  <2>1. From(W, 6) = <<>> /\ From(V, 6) = <<>>
    BY FromStep
  <2>2. QED
    BY <2>1
<1>4. ASSUME NEW x \in 1 .. 5, x + 1 \in K PROVE x \in K
  <2>1. From(W, x) = Part(W, x) \o From(W, x + 1) /\ From(V, x) = Part(V, x) \o From(V, x + 1)
    BY FromStep
  <2>2. /\ x + 1 > t => From(W, x + 1) = <<>> /\ From(V, x + 1) = <<>>
        /\ x + 1 <= t => From(V, x + 1) = From(W, x + 1) \o F
    BY <1>4
  <2>3. CASE x > t
    <3>1. x + 1 > t /\ x \in 1 .. 6 /\ ~(x <= t) /\ x >= t
      BY <2>3
    <3>2. From(W, x) = <<>> /\ From(V, x) = <<>>
      BY <1>1, <1>2, <2>1, <2>2, <2>3, <3>1, Zenon
    <3>3. QED
      BY <3>1, <3>2
  <2>4. CASE x = t
    <3>1. x + 1 > t /\ x \in 1 .. 6 /\ ~(x > t) /\ x >= t
      BY <2>4
    <3>2. From(W, x) = <<>> /\ From(V, x) = F
      BY <1>1, <1>2, <2>1, <2>2, <2>4, <3>1, Zenon
    <3>3. From(V, x) = From(W, x) \o F
      BY <1>2, <3>2, Zenon
    <3>4. QED
      BY <3>1, <3>3
  <2>5. CASE x < t
    <3>1. x + 1 <= t /\ x \in 1 .. 6 /\ ~(x > t) /\ x + 1 \in 1 .. 5
      BY <2>5
    <3>2. Part(W, x) \in Seq(Byte) /\ From(W, x + 1) \in Seq(Byte)
      BY <3>1, PartFacts, FromStep
    <3>3. (Part(W, x) \o From(W, x + 1)) \o F = Part(W, x) \o (From(W, x + 1) \o F)
      BY <1>2, <3>2, ConcatAssociative, SMTT(30)
    <3>4. From(V, x) = From(W, x) \o F
      BY <1>1, <2>1, <2>2, <2>5, <3>1, <3>3, Zenon
    <3>5. QED
      BY <3>1, <3>4
  <2>6. QED
    BY <2>3, <2>4, <2>5
<1>. HIDE DEF K
<1>5. \A x \in 1 .. 6 : x \in K
  BY <1>3, <1>4, Downwards
<1>6. From(V, 1) = From(W, 1) \o F
  BY <1>5 DEF K
<1>7. QED
  BY <1>6, FromStep DEF V, F

\* The firmware waits for a header, has one, or has its body before it: that of frame h, with the
\* frames of W behind it.
AtFrame(h, W, m, buf, l, rx) ==
  \/ h = 0 /\ m = "hdr" /\ buf = <<>> /\ rx = Cat(W)
  \/ h # 0 /\ m = "hdr" /\ buf = Hdr(h) /\ rx = Body(h) \o Cat(W)
  \/ /\ h # 0 /\ Pairs(h) > 0 /\ m = "X" /\ l = Pairs(h)
     /\ \/ buf = <<>> /\ rx = Body(h) \o Cat(W)
        \/ buf = Body(h) /\ rx = Cat(W)

\* The replies in the endpoint, in the FIFO and still to be placed there are those to whole frames,
\* in the order of the frames and to none behind the z-th.
RepliedBy(z, e, t, p, Ke, Kt, Kp) ==
  /\ \A x \in Ke \cup (Kt \cup Kp) : x <= z
  /\ e = Weight(Ke) /\ t = Weight(Kt) /\ p = Weight(Kp)
  /\ Before(Ke, Kt) /\ Before(Ke, Kp) /\ Before(Kt, Kp)
Replied(z, e, t, p) == \E Ke, Kt, Kp \in SUBSET {2, 4, 5} : RepliedBy(z, e, t, p, Ke, Kt, Kp)

InOrder(z, h, W) == (h = 0 \/ h > z) /\ \A x \in W : x > z /\ x > h

\* The first n frames of the bring-up, as far as they are on their way.
OnWire(n) ==
  \E z, h \in 0 .. n : \E W \in SUBSET (1 .. n) :
    /\ InOrder(z, h, W) /\ AtFrame(h, W, fw.mode, fw.buf, fw.left, rx_ff)
    /\ Replied(z, Len(ep_in), Len(tx_ff), Len(pend))

\* The create is at its frames-th trip.
Bring(c) ==
  /\ c.kind = "create" /\ c.got = <<>> /\ frames \in 1 .. 5 /\ c.trips = SubSeq(BringUp, frames, 5)
  /\ \/ c.tx = Frame(frames) /\ OnWire(frames - 1)
     \/ c.tx = <<>> /\ Pairs(frames) > 0 /\ OnWire(frames)

\* The firmware's next header is that of the first frame.
LEMMA FirstFrame ==
  ASSUME NEW W \in SUBSET (1 .. 5), Cat(W) # <<>>
  PROVE  \E h \in W : (\A x \in W : x >= h) /\ Cat(W) = Hdr(h) \o (Body(h) \o Cat(W \ {h}))
<1>1. W # {}
  BY CatNone
<1>2. PICK h \in W : \A x \in W : x >= h
  <2>1. 1 \in W \/ 2 \in W \/ 3 \in W \/ 4 \in W \/ 5 \in W
    <3>1. PICK y \in W : TRUE
      BY <1>1
    <3>2. y = 1 \/ y = 2 \/ y = 3 \/ y = 4 \/ y = 5
      OBVIOUS
    <3>3. QED
      BY <3>2
  <2>2. QED
    BY <2>1
<1>3. h \in 1 .. 5
  OBVIOUS
<1>4. Cat(W) = Frame(h) \o Cat(W \ {h})
  BY <1>2, CatHead
<1>5. Frame(h) = Hdr(h) \o Body(h) /\ Hdr(h) \in Seq(Byte) /\ Body(h) \in Seq(Byte) /\ Cat(W \ {h}) \in Seq(Byte)
  BY <1>3, FrameFacts, CatType
<1>6. (Hdr(h) \o Body(h)) \o Cat(W \ {h}) = Hdr(h) \o (Body(h) \o Cat(W \ {h}))
  BY <1>5, ConcatAssociative
<1>7. QED
  BY <1>2, <1>4, <1>5, <1>6, Zenon

\* A frame written whole goes behind the others.
LEMMA WriteFrame ==
  ASSUME NEW t \in 1 .. 5, NEW h \in 0 .. t - 1, NEW W \in SUBSET (1 .. t - 1),
         NEW m, NEW buf, NEW l, NEW rx, AtFrame(h, W, m, buf, l, rx)
  PROVE  AtFrame(h, W \cup {t}, m, buf, l, rx \o Frame(t))
<1>1. W \in SUBSET (1 .. 5) /\ \A x \in W : x < t
  OBVIOUS
<1>2. Cat(W) \o Frame(t) = Cat(W \cup {t})
  BY <1>1, CatAppend
<1>3. ASSUME h # 0 PROVE (Body(h) \o Cat(W)) \o Frame(t) = Body(h) \o Cat(W \cup {t})
  <2>1. h \in 1 .. 5
    BY <1>3
  <2>2. Body(h) \in Seq(Byte) /\ Cat(W) \in Seq(Byte) /\ Frame(t) \in Seq(Byte)
    BY <2>1, FrameFacts, CatType
  <2>3. (Body(h) \o Cat(W)) \o Frame(t) = Body(h) \o (Cat(W) \o Frame(t))
    BY <2>2, ConcatAssociative
  <2>4. QED
    BY <1>2, <2>3
<1>4. QED
  BY <1>2, <1>3, Zenon DEF AtFrame

LEMMA WireKeeps ==
  ASSUME NEW n \in 0 .. 5, OnWire(n), UNCHANGED <<fw, rx_ff, tx_ff, pend>>, ep_in' = ep_in \/ ep_in' = <<>>
  PROVE  OnWire(n)'
<1>1. PICK z \in 0 .. n, h \in 0 .. n : \E W \in SUBSET (1 .. n) :
        /\ InOrder(z, h, W) /\ AtFrame(h, W, fw.mode, fw.buf, fw.left, rx_ff)
        /\ Replied(z, Len(ep_in), Len(tx_ff), Len(pend))
  BY DEF OnWire
<1>2. PICK W \in SUBSET (1 .. n) :
        /\ InOrder(z, h, W) /\ AtFrame(h, W, fw.mode, fw.buf, fw.left, rx_ff)
        /\ Replied(z, Len(ep_in), Len(tx_ff), Len(pend))
  BY <1>1
<1>3. Replied(z, Len(ep_in'), Len(tx_ff), Len(pend))
  <2>1. CASE ep_in' = ep_in
    BY <1>2, <2>1
  <2>2. CASE ep_in' = <<>>
    <3>1. PICK Ke, Kt, Kp \in SUBSET {2, 4, 5} :
            /\ \A x \in Ke \cup (Kt \cup Kp) : x <= z
            /\ Len(ep_in) = Weight(Ke) /\ Len(tx_ff) = Weight(Kt) /\ Len(pend) = Weight(Kp)
            /\ Before(Ke, Kt) /\ Before(Ke, Kp) /\ Before(Kt, Kp)
      BY <1>2 DEF Replied, RepliedBy
    <3>2. Len(ep_in') = Weight({})
      BY <2>2 DEF Weight
    <3>3. Before({}, Kt) /\ Before({}, Kp) /\ {} \in SUBSET {2, 4, 5} /\ \A x \in {} \cup (Kt \cup Kp) : x <= z
      BY <3>1 DEF Before
    <3>4. RepliedBy(z, Len(ep_in'), Len(tx_ff), Len(pend), {}, Kt, Kp)
      BY <3>1, <3>2, <3>3, Zenon DEF RepliedBy
    <3>5. QED
      BY <3>3, <3>4, Zenon DEF Replied
  <2>3. QED
    BY <2>1, <2>2
<1>4. InOrder(z, h, W) /\ AtFrame(h, W, fw'.mode, fw'.buf, fw'.left, rx_ff') /\ Replied(z, Len(ep_in'), Len(tx_ff'), Len(pend'))
  BY <1>2, <1>3
<1>5. QED
  BY <1>4, Zenon DEF OnWire

LEMMA WriteKeepsWire ==
  ASSUME NEW t \in 1 .. 5, OnWire(t - 1), rx_ff' = rx_ff \o Frame(t), UNCHANGED <<fw, tx_ff, ep_in, pend>>
  PROVE  OnWire(t)'
<1>1. PICK z \in 0 .. t - 1, h \in 0 .. t - 1 : \E W \in SUBSET (1 .. t - 1) :
        /\ InOrder(z, h, W) /\ AtFrame(h, W, fw.mode, fw.buf, fw.left, rx_ff)
        /\ Replied(z, Len(ep_in), Len(tx_ff), Len(pend))
  BY DEF OnWire
<1>2. PICK W \in SUBSET (1 .. t - 1) :
        /\ InOrder(z, h, W) /\ AtFrame(h, W, fw.mode, fw.buf, fw.left, rx_ff)
        /\ Replied(z, Len(ep_in), Len(tx_ff), Len(pend))
  BY <1>1
<1>3. AtFrame(h, W \cup {t}, fw'.mode, fw'.buf, fw'.left, rx_ff')
  BY <1>2, WriteFrame
<1>4. InOrder(z, h, W \cup {t})
  BY <1>2 DEF InOrder
<1>5. z \in 0 .. t /\ h \in 0 .. t /\ W \cup {t} \in SUBSET (1 .. t)
  OBVIOUS
<1>6. Replied(z, Len(ep_in'), Len(tx_ff'), Len(pend'))
  BY <1>2
<1>7. QED
  BY <1>3, <1>4, <1>5, <1>6, Zenon DEF OnWire

LEMMA WireGrows ==
  ASSUME NEW t \in 1 .. 5, OnWire(t - 1)
  PROVE  OnWire(t)
<1>1. PICK z \in 0 .. t - 1, h \in 0 .. t - 1 : \E W \in SUBSET (1 .. t - 1) :
        /\ InOrder(z, h, W) /\ AtFrame(h, W, fw.mode, fw.buf, fw.left, rx_ff)
        /\ Replied(z, Len(ep_in), Len(tx_ff), Len(pend))
  BY DEF OnWire
<1>2. PICK W \in SUBSET (1 .. t - 1) :
        /\ InOrder(z, h, W) /\ AtFrame(h, W, fw.mode, fw.buf, fw.left, rx_ff)
        /\ Replied(z, Len(ep_in), Len(tx_ff), Len(pend))
  BY <1>1
<1>3. z \in 0 .. t /\ h \in 0 .. t /\ W \in SUBSET (1 .. t)
  OBVIOUS
<1>4. QED
  BY <1>2, <1>3, Zenon DEF OnWire

\* What the sizes of the replies tell.
LEMMA Weights ==
  ASSUME NEW K \in SUBSET {2, 4, 5}
  PROVE  /\ Weight(K) \in 0 .. 13 /\ (Weight(K) = 0 <=> K = {})
         /\ Weight(K) = 1 <=> K = {5}
         /\ (5 \notin K /\ K # {} => Weight(K) >= 4) /\ (4 \notin K /\ 5 \notin K /\ K # {} => Weight(K) = 8)
<1>1. K = {} <=> 2 \notin K /\ 4 \notin K /\ 5 \notin K
  OBVIOUS
<1>2. K = {5} <=> 2 \notin K /\ 4 \notin K /\ 5 \in K
  <2>1. ASSUME 2 \notin K, 4 \notin K, 5 \in K PROVE K = {5}
    BY <2>1
  <2>2. ASSUME K = {5} PROVE 2 \notin K /\ 4 \notin K /\ 5 \in K
    BY <2>2
  <2>3. QED
    BY <2>1, <2>2
<1>. DEFINE a == IF 2 \in K THEN 8 ELSE 0
            b == IF 4 \in K THEN 4 ELSE 0
            c == IF 5 \in K THEN 1 ELSE 0
<1>3. /\ a \in {0, 8} /\ b \in {0, 4} /\ c \in {0, 1} /\ Weight(K) = a + b + c
      /\ (a = 8 <=> 2 \in K) /\ (b = 4 <=> 4 \in K) /\ (c = 1 <=> 5 \in K)
  BY DEF Weight
<1>. HIDE DEF a, b, c
<1>4. /\ Weight(K) \in 0 .. 13 /\ (Weight(K) = 0 <=> (a = 0 /\ b = 0 /\ c = 0))
      /\ (Weight(K) = 1 <=> (a = 0 /\ b = 0 /\ c = 1))
      /\ (a = 8 \/ b = 4 => Weight(K) >= 4) /\ (a = 8 /\ b = 0 /\ c = 0 => Weight(K) = 8)
      /\ (a = 0 <=> ~(a = 8)) /\ (b = 0 <=> ~(b = 4)) /\ (c = 0 <=> ~(c = 1))
  BY ONLY <1>3
<1>5. QED
  BY <1>1, <1>2, <1>3, <1>4, Zenon

LEMMA JoinWeights ==
  ASSUME NEW K \in SUBSET {2, 4, 5}, NEW L \in SUBSET {2, 4, 5}, Before(K, L)
  PROVE  Weight(K \cup L) = Weight(K) + Weight(L) /\ Weight(K) + Weight(L) <= 13
<1>1. \A x \in {2, 4, 5} : (x \in K \cup L <=> x \in K \/ x \in L) /\ ~(x \in K /\ x \in L)
  BY DEF Before
<1>2. QED
  BY <1>1 DEF Weight

\* The steps of the replies.
LEMMA ReplyMoves ==
  ASSUME NEW z \in Nat, NEW e, NEW t, NEW p, Replied(z, e, t, p)
  PROVE  /\ e = 0 => Replied(z, t, 0, p)
         /\ Replied(z, e, t + p, 0) /\ t + p <= 13 /\ t \in 0 .. 13 /\ p \in 0 .. 13
<1>1. PICK Ke, Kt, Kp \in SUBSET {2, 4, 5} :
        /\ \A x \in Ke \cup (Kt \cup Kp) : x <= z
        /\ e = Weight(Ke) /\ t = Weight(Kt) /\ p = Weight(Kp)
        /\ Before(Ke, Kt) /\ Before(Ke, Kp) /\ Before(Kt, Kp)
  BY DEF Replied, RepliedBy
<1>2. {} \in SUBSET {2, 4, 5} /\ Weight({}) = 0
  BY DEF Weight
<1>3. Replied(z, t, 0, p)
  <2>1. Before(Kt, {}) /\ Before({}, Kp) /\ \A x \in Kt \cup ({} \cup Kp) : x <= z
    BY <1>1 DEF Before
  <2>2. RepliedBy(z, t, 0, p, Kt, {}, Kp)
    BY <1>1, <1>2, <2>1, Zenon DEF RepliedBy
  <2>3. QED
    BY <1>1, <1>2, <2>2, ZenonT(40) DEF Replied
<1>4. Weight(Kt \cup Kp) = t + p /\ t + p <= 13 /\ t \in 0 .. 13 /\ p \in 0 .. 13
  BY <1>1, JoinWeights, Weights
<1>5. Replied(z, e, t + p, 0)
  <2>1. /\ Before(Ke, Kt \cup Kp) /\ Before(Ke, {}) /\ Before(Kt \cup Kp, {})
        /\ \A x \in Ke \cup ((Kt \cup Kp) \cup {}) : x <= z
    BY <1>1 DEF Before
  <2>2. Kt \cup Kp \in SUBSET {2, 4, 5}
    OBVIOUS
  <2>3. RepliedBy(z, e, t + p, 0, Ke, Kt \cup Kp, {})
    BY <1>1, <1>2, <1>4, <2>1, Zenon DEF RepliedBy
  <2>4. QED
    BY <1>1, <1>2, <2>2, <2>3, Zenon DEF Replied
<1>6. QED
  BY <1>3, <1>4, <1>5

LEMMA ReplyMade ==
  ASSUME NEW z \in Nat, NEW h \in {2, 4, 5}, h > z, NEW e, NEW t, Replied(z, e, t, 0)
  PROVE  Replied(h, e, t, Pairs(h))
<1>1. PICK Ke, Kt, Kp \in SUBSET {2, 4, 5} :
        /\ \A x \in Ke \cup (Kt \cup Kp) : x <= z
        /\ e = Weight(Ke) /\ t = Weight(Kt) /\ 0 = Weight(Kp)
        /\ Before(Ke, Kt) /\ Before(Ke, Kp) /\ Before(Kt, Kp)
  BY DEF Replied, RepliedBy
<1>2. Weight({h}) = Pairs(h) /\ {h} \in SUBSET {2, 4, 5}
  BY DEF Weight, Pairs
<1>3. /\ Before(Ke, {h}) /\ Before(Kt, {h}) /\ \A x \in Ke \cup (Kt \cup {h}) : x <= h
  BY <1>1 DEF Before
<1>4. RepliedBy(h, e, t, Pairs(h), Ke, Kt, {h})
  BY <1>1, <1>2, <1>3, Zenon DEF RepliedBy
<1>5. QED
  BY <1>1, <1>2, <1>4, Zenon DEF Replied

\* A packet holds at least the replies the host waits for, and a single byte is the last of all.
LEMMA ReplySizes ==
  ASSUME NEW z \in Nat, NEW e, NEW t, NEW p, Replied(z, e, t, p), e # 0
  PROVE  /\ z <= 2 => e >= 8
         /\ z <= 4 => e >= 4
         /\ e >= 1
         /\ e = 1 => z >= 5 /\ (z = 5 => t = 0 /\ p = 0)
<1>1. PICK Ke, Kt, Kp \in SUBSET {2, 4, 5} :
        /\ \A x \in Ke \cup (Kt \cup Kp) : x <= z
        /\ e = Weight(Ke) /\ t = Weight(Kt) /\ p = Weight(Kp)
        /\ Before(Ke, Kt) /\ Before(Ke, Kp) /\ Before(Kt, Kp)
  BY DEF Replied, RepliedBy
<1>2. /\ e \in 0 .. 13 /\ Ke # {} /\ (e = 1 => Ke = {5})
      /\ (5 \notin Ke => e >= 4) /\ (4 \notin Ke /\ 5 \notin Ke => e = 8)
  BY <1>1, Weights
<1>3. (z <= 2 => 4 \notin Ke /\ 5 \notin Ke) /\ (z <= 4 => 5 \notin Ke) /\ (5 \in Ke => z >= 5)
  BY <1>1
<1>4. ASSUME e = 1 PROVE Kt = {} /\ Kp = {}
  <2>1. 5 \in Ke
    BY <1>2, <1>4
  <2>2. \A x \in {2, 4, 5} : ~(5 < x)
    OBVIOUS
  <2>3. QED
    BY <1>1, <2>1, <2>2 DEF Before
<1>5. Weight({}) = 0
  BY DEF Weight
<1>6. e = 1 => t = 0 /\ p = 0
  BY <1>1, <1>4, <1>5
<1>7. QED
  BY <1>2, <1>3, <1>6

\* The firmware and TinyUSB take the frames whole and one after the other.
LEMMA DeviceKeepsWire ==
  ASSUME LinkType, FwType, NEW n \in 0 .. 5, OnWire(n), Device
  PROVE  OnWire(n)'
<1>1. PICK z \in 0 .. n, h \in 0 .. n : \E W \in SUBSET (1 .. n) :
        /\ InOrder(z, h, W) /\ AtFrame(h, W, fw.mode, fw.buf, fw.left, rx_ff)
        /\ Replied(z, Len(ep_in), Len(tx_ff), Len(pend))
  BY DEF OnWire
<1>2. PICK W \in SUBSET (1 .. n) :
        /\ InOrder(z, h, W) /\ AtFrame(h, W, fw.mode, fw.buf, fw.left, rx_ff)
        /\ Replied(z, Len(ep_in), Len(tx_ff), Len(pend))
  BY <1>1
<1>3. ASSUME NEW z2 \in 0 .. n, NEW h2 \in 0 .. n, NEW W2 \in SUBSET (1 .. n), InOrder(z2, h2, W2),
             AtFrame(h2, W2, fw'.mode, fw'.buf, fw'.left, rx_ff'), Replied(z2, Len(ep_in'), Len(tx_ff'), Len(pend'))
      PROVE  OnWire(n)'
  BY <1>3, Zenon DEF OnWire
<1>4. /\ rx_ff \in Seq(Byte) /\ tx_ff \in Seq(Reply) /\ ep_in \in Seq(Reply) /\ pend \in Seq(Reply)
      /\ z \in Nat /\ h \in 0 .. 5 /\ W \in SUBSET (1 .. 5) /\ 0 \in 0 .. n
  BY DEF LinkType
<1>5. /\ Len(ep_in) = 0 => Replied(z, Len(tx_ff), 0, Len(pend))
      /\ Replied(z, Len(ep_in), Len(tx_ff) + Len(pend), 0) /\ Len(tx_ff) + Len(pend) <= 13
      /\ Len(tx_ff) \in 0 .. 13 /\ Len(pend) \in 0 .. 13
  BY <1>2, <1>4, ReplyMoves
<1>6. ASSUME h # 0
      PROVE  /\ Hdr(h) \in Seq(Byte) /\ Len(Hdr(h)) = 5 /\ Body(h) \in Seq(Byte) /\ Len(Body(h)) = 2 * Pairs(h)
             /\ Pairs(h) \in 0 .. 8 /\ (Pairs(h) > 0 => h \in {2, 4, 5}) /\ h \in 1 .. 5
  <2>1. h \in 1 .. 5
    BY <1>4, <1>6
  <2>2. QED
    BY <2>1, FrameFacts, TripFacts
<1>7. CASE ArmPacket
  <2>1. ep_in = <<>> /\ ep_in' = Take(tx_ff, PACKET) /\ tx_ff' = Drop(tx_ff, PACKET) /\ UNCHANGED <<rx_ff, fw, pend>>
    BY <1>7 DEF ArmPacket, firmware
  <2>2. Take(tx_ff, PACKET) = tx_ff /\ Drop(tx_ff, PACKET) = <<>>
    <3>1. PACKET \in Nat /\ PACKET >= Len(tx_ff)
      BY <1>5, Sizes
    <3>2. QED
      BY <1>4, <3>1, TakeDrop
  <2>3. Len(ep_in) = 0 /\ Len(ep_in') = Len(tx_ff) /\ Len(tx_ff') = 0 /\ Len(pend') = Len(pend)
    BY <2>1, <2>2
  <2>4. Replied(z, Len(ep_in'), Len(tx_ff'), Len(pend'))
    BY <1>5, <2>3
  <2>5. AtFrame(h, W, fw'.mode, fw'.buf, fw'.left, rx_ff')
    BY <1>2, <2>1
  <2>6. QED
    BY <1>2, <1>3, <2>4, <2>5, Zenon
<1>8. CASE FwWrite
  <2>. DEFINE k == TXFIFO - Len(tx_ff)
  <2>1. tx_ff' = tx_ff \o Take(pend, k) /\ pend' = Drop(pend, k) /\ UNCHANGED <<rx_ff, fw, ep_in>>
    BY <1>8 DEF FwWrite
  <2>2. k \in Nat /\ k >= Len(pend)
    BY <1>5, Sizes
  <2>. HIDE DEF k
  <2>3. Take(pend, k) = pend /\ Drop(pend, k) = <<>>
    BY <1>4, <2>2, TakeDrop
  <2>4. Len(tx_ff') = Len(tx_ff) + Len(pend) /\ Len(pend') = 0 /\ Len(ep_in') = Len(ep_in)
    BY <1>4, <2>1, <2>3, ConcatProperties
  <2>5. Replied(z, Len(ep_in'), Len(tx_ff'), Len(pend'))
    BY <1>5, <2>4
  <2>6. AtFrame(h, W, fw'.mode, fw'.buf, fw'.left, rx_ff')
    BY <1>2, <2>1
  <2>7. QED
    BY <1>2, <1>3, <2>5, <2>6, Zenon
<1>9. CASE FwRead
  <2>. DEFINE k == Least(Need - Len(fw.buf), Len(rx_ff))
  <2>1. /\ Len(fw.buf) < Need /\ rx_ff # <<>>
        /\ fw' = [fw EXCEPT !.buf = @ \o Take(rx_ff, k)] /\ rx_ff' = Drop(rx_ff, k) /\ UNCHANGED <<tx_ff, ep_in, pend>>
    BY <1>9 DEF FwRead
  <2>2. fw'.mode = fw.mode /\ fw'.left = fw.left /\ fw'.buf = fw.buf \o Take(rx_ff, k)
    BY <2>1 DEF FwType
  <2>3. Replied(z, Len(ep_in'), Len(tx_ff'), Len(pend'))
    BY <1>2, <2>1
  <2>4. ASSUME NEW s \in Seq(Byte), NEW u \in Seq(Byte), rx_ff = s \o u, fw.buf = <<>>, Len(s) = Need
        PROVE  fw'.buf = s /\ rx_ff' = u
    <3>1. Len(rx_ff) = Len(s) + Len(u) /\ Len(s) \in Nat /\ Len(u) \in Nat
      BY <2>4, ConcatProperties
    <3>2. k = Len(s)
      BY <2>4, <3>1 DEF Least
    <3>. HIDE DEF k
    <3>3. Take(rx_ff, k) = s /\ Drop(rx_ff, k) = u
      BY <2>4, <3>2, TakeFront
    <3>4. <<>> \o s = s
      BY ConcatEmptySeq
    <3>5. QED
      BY <2>1, <2>2, <2>4, <3>3, <3>4
  <2>. HIDE DEF k
  <2>5. CASE h = 0 /\ fw.mode = "hdr" /\ fw.buf = <<>> /\ rx_ff = Cat(W)
    <3>1. PICK g \in W : (\A x \in W : x >= g) /\ Cat(W) = Hdr(g) \o (Body(g) \o Cat(W \ {g}))
      BY <1>4, <2>1, <2>5, FirstFrame
    <3>2. g \in 1 .. 5 /\ g \in 0 .. n /\ W \ {g} \in SUBSET (1 .. n) /\ g # 0
      BY <1>4
    <3>3. Hdr(g) \in Seq(Byte) /\ Len(Hdr(g)) = 5 /\ Body(g) \in Seq(Byte) /\ Cat(W \ {g}) \in Seq(Byte)
      BY <3>2, FrameFacts, CatType
    <3>4. Body(g) \o Cat(W \ {g}) \in Seq(Byte)
      BY <3>3, ConcatProperties
    <3>5. Need = 5
      BY <2>5, NeedFacts
    <3>6. fw'.buf = Hdr(g) /\ rx_ff' = Body(g) \o Cat(W \ {g})
      BY <2>4, <2>5, <3>1, <3>3, <3>4, <3>5
    <3>7. AtFrame(g, W \ {g}, fw'.mode, fw'.buf, fw'.left, rx_ff')
      BY <2>2, <2>5, <3>2, <3>6 DEF AtFrame
    <3>8. InOrder(z, g, W \ {g})
      BY <1>2, <3>1, <3>2 DEF InOrder
    <3>9. QED
      BY <1>3, <2>3, <3>2, <3>7, <3>8
  <2>6. CASE h # 0 /\ fw.mode = "hdr" /\ fw.buf = Hdr(h)
    <3>1. Len(fw.buf) = 5
      BY <1>6, <2>6, Zenon
    <3>2. Need = 5
      BY <2>6, NeedFacts
    <3>3. ~(5 < 5)
      OBVIOUS
    <3>4. QED
      BY <2>1, <3>1, <3>2, <3>3, Zenon
  <2>7. ASSUME h # 0, Pairs(h) > 0, fw.mode = "X", fw.left = Pairs(h)
        PROVE  Need = 2 * Pairs(h)
    <3>1. Batch = Pairs(h)
      BY <1>6, <2>7, Sizes DEF Batch, Least
    <3>2. QED
      BY <2>7, <3>1, NeedFacts
  <2>8. CASE h # 0 /\ Pairs(h) > 0 /\ fw.mode = "X" /\ fw.left = Pairs(h) /\ fw.buf = <<>> /\ rx_ff = Body(h) \o Cat(W)
    <3>1. Need = Len(Body(h)) /\ Body(h) \in Seq(Byte) /\ Cat(W) \in Seq(Byte)
      BY <1>6, <2>7, <2>8, CatType
    <3>2. fw'.buf = Body(h) /\ rx_ff' = Cat(W)
      BY <2>4, <2>8, <3>1
    <3>3. AtFrame(h, W, fw'.mode, fw'.buf, fw'.left, rx_ff')
      BY <2>2, <2>8, <3>2 DEF AtFrame
    <3>4. QED
      BY <1>2, <1>3, <2>3, <3>3
  <2>9. CASE h # 0 /\ Pairs(h) > 0 /\ fw.mode = "X" /\ fw.left = Pairs(h) /\ fw.buf = Body(h)
    BY <1>6, <2>1, <2>7, <2>9
  <2>10. QED
    BY <1>2, <2>5, <2>6, <2>8, <2>9, Zenon DEF AtFrame
<1>10. CASE FwHeader
  <2>. DEFINE b == fw.buf
              x == b[2].v + 256 * (b[3].v + 256 * (b[4].v + 256 * b[5].v))
  <2>1. /\ fw.mode = "hdr" /\ Len(b) = 5 /\ UNCHANGED <<rx_ff, tx_ff, ep_in, pend>>
        /\ fw' = [mode |-> IF x = 0 THEN "hdr" ELSE CASE b[1].v = MODE_X -> "X"
                                                     [] b[1].v = MODE_M -> "M"
                                                     [] OTHER           -> "hdr",
                  buf |-> <<>>, left |-> x]
    BY <1>10, NeedFacts DEF FwHeader, usb
  <2>2. h # 0 /\ b = Hdr(h) /\ rx_ff = Body(h) \o Cat(W)
    <3>1. b # <<>>
      BY <2>1
    <3>2. QED
      BY <1>2, <2>1, <3>1 DEF AtFrame
  <2>. DEFINE q == Pairs(h)
              v == b[1].v
  <2>3. /\ b[2].v = q /\ b[3].v = 0 /\ b[4].v = 0 /\ b[5].v = 0 /\ (q > 0 => v = MODE_X)
        /\ q \in 0 .. 8 /\ (q = 0 => Body(h) = <<>>)
    <3>1. h \in 1 .. 5
      BY <1>6, <2>2
    <3>2. /\ Hdr(h)[2].v = q /\ Hdr(h)[3].v = 0 /\ Hdr(h)[4].v = 0 /\ Hdr(h)[5].v = 0 /\ (q > 0 => Hdr(h)[1].v = MODE_X)
          /\ (q = 0 => Body(h) = <<>>)
      BY <3>1, FrameFacts, Zenon
    <3>3. q \in 0 .. 8
      BY <3>1, TripFacts
    <3>. HIDE DEF q, b
    <3>4. QED
      BY <2>2, <3>2, <3>3, Zenon
  <2>4. x = q
    <3>. HIDE DEF q, b
    <3>1. QED
      BY <2>3
  <2>. HIDE DEF x, b, v, q
  <2>5. /\ fw'.buf = <<>> /\ fw'.left = x
        /\ fw'.mode = IF x = 0 THEN "hdr" ELSE CASE v = MODE_X -> "X" [] v = MODE_M -> "M" [] OTHER -> "hdr"
    BY <2>1 DEF v
  <2>6. Replied(z, Len(ep_in'), Len(tx_ff'), Len(pend'))
    BY <1>2, <2>1
  <2>7. CASE q = 0
    <3>1. fw'.mode = "hdr" /\ fw'.buf = <<>>
      BY <2>4, <2>5, <2>7
    <3>2. rx_ff' = Cat(W)
      <4>1. Cat(W) \in Seq(Byte)
        BY CatType
      <4>2. <<>> \o Cat(W) = Cat(W)
        BY <4>1, ConcatEmptySeq
      <4>3. QED
        BY <2>1, <2>2, <2>3, <2>7, <4>2
    <3>3. AtFrame(0, W, fw'.mode, fw'.buf, fw'.left, rx_ff')
      BY <3>1, <3>2 DEF AtFrame
    <3>4. InOrder(z, 0, W)
      BY <1>2 DEF InOrder
    <3>5. QED
      BY <1>3, <1>4, <2>6, <3>3, <3>4
  <2>8. CASE q # 0
    <3>1. q > 0 /\ fw'.mode = "X" /\ fw'.buf = <<>> /\ fw'.left = q
      <4>1. q > 0
        BY ONLY <2>3, <2>8
      <4>2. v = MODE_X
        BY <2>3, <4>1, Zenon
      <4>3. QED
        BY ONLY <2>4, <2>5, <2>8, <4>1, <4>2 DEF MODE_X, MODE_M
    <3>2. AtFrame(h, W, fw'.mode, fw'.buf, fw'.left, rx_ff')
      BY <2>1, <2>2, <3>1 DEF AtFrame, q
    <3>3. QED
      BY <1>2, <1>3, <2>6, <3>2
  <2>9. QED
    BY <2>7, <2>8
<1>11. CASE FwChunk
  <2>1. /\ fw.mode # "hdr" /\ pend = <<>> /\ Len(fw.buf) = Need /\ UNCHANGED <<rx_ff, tx_ff, ep_in>>
        /\ pend' = Replies(fw.mode, fw.buf, Batch)
        /\ fw' = [mode |-> IF fw.left = Batch THEN "hdr" ELSE fw.mode, buf |-> <<>>, left |-> fw.left - Batch]
    BY <1>11 DEF FwChunk, usb
  <2>2. /\ h # 0 /\ Pairs(h) > 0 /\ fw.mode = "X" /\ fw.left = Pairs(h)
        /\ fw.buf = <<>> \/ (fw.buf = Body(h) /\ rx_ff = Cat(W))
    BY <1>2, <2>1 DEF AtFrame
  <2>3. Batch = Pairs(h)
    BY <1>6, <2>2, Sizes DEF Batch, Least
  <2>4. fw.buf = Body(h) /\ rx_ff = Cat(W)
    <3>1. Need > 0
      BY NeedFacts
    <3>2. QED
      BY <2>1, <2>2, <3>1
  <2>. DEFINE q == Pairs(h)
  <2>5. q \in Nat \ {0} /\ Body(h) \in Seq(Byte) /\ Len(Body(h)) = 2 * q /\ h \in {2, 4, 5} /\ h > z
    BY <1>2, <1>6, <2>2 DEF InOrder
  <2>. HIDE DEF q
  <2>6. Len(Replies("X", Body(h), q)) = q
    BY <2>5, XReplies
  <2>7. Len(pend') = q
    BY <2>1, <2>2, <2>3, <2>4, <2>6 DEF q
  <2>8. Replied(h, Len(ep_in'), Len(tx_ff'), Len(pend'))
    <3>1. Len(pend) = 0
      BY <2>1
    <3>2. Replied(z, Len(ep_in), Len(tx_ff), 0)
      BY <1>2, <3>1
    <3>3. Replied(h, Len(ep_in), Len(tx_ff), Pairs(h))
      BY <1>4, <2>5, <3>2, ReplyMade
    <3>4. QED
      BY <2>1, <2>7, <3>3 DEF q
  <2>9. fw'.mode = "hdr" /\ fw'.buf = <<>>
    BY <2>1, <2>2, <2>3
  <2>10. AtFrame(0, W, fw'.mode, fw'.buf, fw'.left, rx_ff')
    BY <2>1, <2>4, <2>9 DEF AtFrame
  <2>11. InOrder(h, 0, W)
    BY <1>2 DEF InOrder
  <2>12. QED
    BY <1>3, <1>4, <2>8, <2>10, <2>11
<1>12. QED
  BY <1>7, <1>8, <1>9, <1>10, <1>11 DEF Device

\* The trips a create still has before it.
LEMMA BringTrips ==
  ASSUME NEW t \in 1 .. 5, NEW s, s = SubSeq(BringUp, t, 5)
  PROVE  /\ Len(s) = 6 - t /\ Head(s) = BringUp[t] /\ s \in Seq(Trips)
         /\ t < 5 => s[2] = BringUp[t + 1] /\ Tail(s) = SubSeq(BringUp, t + 1, 5)
<1>. DEFINE B == BringUp
<1>1. B \in Seq(Trips) /\ Len(B) = 5
  BY BringUpFacts
<1>. HIDE DEF B
<1>2. s = SubSeq(B, t, 5)
  BY DEF B
<1>3. t \in 1 .. Len(B) /\ 5 \in t .. Len(B)
  BY <1>1
<1>4. Head(s) = B[t] /\ Tail(s) = SubSeq(B, t + 1, 5)
  BY <1>1, <1>2, <1>3, HeadTailOfSubSeq
<1>5. s \in Seq(Trips) /\ Len(s) = 6 - t /\ \A i \in 1 .. 6 - t : s[i] = B[(t - 1) + i]
  <2>1. t - 1 \in 0 .. Len(B) /\ 5 \in t - 1 .. Len(B) /\ 5 - (t - 1) = 6 - t /\ (t - 1) + 1 = t
    BY <1>1
  <2>2. /\ Slice(B, t - 1, 5) \in Seq(Trips) /\ Len(Slice(B, t - 1, 5)) = 5 - (t - 1)
        /\ \A i \in 1 .. 5 - (t - 1) : Slice(B, t - 1, 5)[i] = B[(t - 1) + i]
    BY <1>1, <2>1, SliceFacts, ZenonT(40)
  <2>3. Slice(B, t - 1, 5) = s
    BY <1>2, <2>1 DEF Slice
  <2>4. QED
    BY <2>1, <2>2, <2>3, Zenon
<1>6. ASSUME t < 5 PROVE s[2] = B[t + 1]
  <2>1. 2 \in 1 .. 6 - t /\ (t - 1) + 2 = t + 1
    BY <1>6
  <2>2. QED
    BY <1>5, <2>1
<1>7. QED
  BY <1>4, <1>5, <1>6, Zenon DEF B

LEMMA BringFields ==
  ASSUME TypeInv, call # NoCall, Bring(call), NEW t, t = frames
  PROVE  /\ t \in 1 .. 5 /\ call.kind = "create" /\ call.got = <<>> /\ call.trips = SubSeq(BringUp, t, 5)
         /\ Len(call.trips) = 6 - t /\ Head(call.trips).replies = Pairs(t) /\ (Head(call.trips).must <=> t \notin {2, 4})
         /\ \/ call.tx = Frame(t) /\ OnWire(t - 1)
            \/ call.tx = <<>> /\ Pairs(t) > 0 /\ OnWire(t)
         /\ call \in Call /\ Pairs(t) \in 0 .. 8 /\ (Pairs(t) > 0 <=> t \in {2, 4, 5})
<1>1. /\ t \in 1 .. 5 /\ call.kind = "create" /\ call.got = <<>> /\ call.trips = SubSeq(BringUp, t, 5)
      /\ \/ call.tx = Frame(t) /\ OnWire(t - 1)
         \/ call.tx = <<>> /\ Pairs(t) > 0 /\ OnWire(t)
  BY Zenon DEF Bring
<1>2. Len(call.trips) = 6 - t /\ Head(call.trips) = BringUp[t]
  BY <1>1, BringTrips
<1>3. /\ BringUp[t].replies = Pairs(t) /\ (BringUp[t].must <=> t \notin {2, 4})
      /\ Pairs(t) \in 0 .. 8 /\ (Pairs(t) > 0 <=> t \in {2, 4, 5})
  BY <1>1, TripFacts, Zenon
<1>4. call \in Call
  BY CallFields DEF TypeInv
<1>5. QED
  BY <1>1, <1>2, <1>3, <1>4, Zenon

\* The next trip of a create.
LEMMA NextTrip ==
  ASSUME TypeInv, call # NoCall, Bring(call), NEW t, t = frames, t < 5, NEW got, EndTrip(got), OnWire(t)'
  PROVE  Bring(call)' /\ call' # NoCall /\ call'.w = call.w /\ UNCHANGED <<wrapper, conn, ret>>
<1>1. /\ t \in 1 .. 5 /\ call.kind = "create" /\ call.trips = SubSeq(BringUp, t, 5) /\ Len(call.trips) = 6 - t /\ call \in Call
  BY BringFields
<1>2. call.trips \in Seq(Trips) /\ call.trips[2] = BringUp[t + 1] /\ Tail(call.trips) = SubSeq(BringUp, t + 1, 5)
  BY <1>1, BringTrips
<1>3. Len(call.trips) > 1 /\ Len(call.trips) # 1
  BY <1>1
<1>. DEFINE u == Stamp(t + 1, BringUp[t + 1].bytes)
<1>4. /\ call' = [call EXCEPT !.trips = Tail(call.trips), !.got = <<>>, !.tx = u]
      /\ frames' = t + 1 /\ UNCHANGED <<wrapper, conn, ret>>
  BY <1>2, <1>3 DEF EndTrip
<1>5. u = Frame(t + 1) /\ t + 1 \in 1 .. 5
  BY <1>1 DEF Frame
<1>6. u \in Seq(Byte)
  BY <1>5, FrameFacts
<1>7. Tail(call.trips) \in Seq(Trips)
  <2>1. call.trips # <<>>
    BY <1>3
  <2>2. QED
    BY <1>2, <2>1, HeadTailProperties
<1>. HIDE DEF u
<1>8. /\ call'.kind = call.kind /\ call'.w = call.w /\ call'.trips = Tail(call.trips) /\ call'.got = <<>> /\ call'.tx = u
      /\ call' \in Call
  <2>. DEFINE v == Tail(call.trips)
  <2>1. v \in Seq(Trips) /\ <<>> \in Seq(Reply) /\ call' = [call EXCEPT !.trips = v, !.got = <<>>, !.tx = u]
    BY <1>4, <1>7
  <2>. HIDE DEF v
  <2>2. call'.kind = call.kind /\ call'.w = call.w /\ call'.trips = v /\ call'.got = <<>> /\ call'.tx = u /\ call' \in Call
    BY ONLY <1>1, <1>6, <2>1 DEF Call, Byte, Reply, Trips
  <2>3. QED
    BY <2>2 DEF v
<1>9. call' # NoCall
  BY <1>8, NoCallAssumption
<1>10. frames' - 1 = t
  BY <1>1, <1>4
<1>11. OnWire(frames - 1)'
  BY <1>10 DEF OnWire
<1>12. Bring(call)'
  <2>1. call'.kind = "create" /\ call'.got = <<>> /\ frames' \in 1 .. 5 /\ call'.trips = SubSeq(BringUp, frames', 5)
        /\ call'.tx = Frame(frames')
    BY <1>1, <1>2, <1>4, <1>5, <1>8, Zenon
  <2>2. QED
    BY <1>11, <2>1, Zenon DEF Bring
<1>13. QED
  BY <1>4, <1>8, <1>9, <1>12

\* One reply byte can only be the one to the last frame, and then nothing is left on the way.
LEMMA LastReply ==
  ASSUME LinkType, OnWire(5), Len(ep_in) = 1, ep_in' = <<>>, UNCHANGED <<rx_ff, tx_ff, fw, pend>>
  PROVE  InStep'
<1>1. PICK z \in 0 .. 5, h \in 0 .. 5 : \E W \in SUBSET (1 .. 5) :
        /\ InOrder(z, h, W) /\ AtFrame(h, W, fw.mode, fw.buf, fw.left, rx_ff)
        /\ Replied(z, Len(ep_in), Len(tx_ff), Len(pend))
  BY DEF OnWire
<1>2. PICK W \in SUBSET (1 .. 5) :
        /\ InOrder(z, h, W) /\ AtFrame(h, W, fw.mode, fw.buf, fw.left, rx_ff)
        /\ Replied(z, Len(ep_in), Len(tx_ff), Len(pend))
  BY <1>1
<1>3. z >= 5 /\ (z = 5 => Len(tx_ff) = 0 /\ Len(pend) = 0)
  <2>1. z \in Nat /\ Len(ep_in) # 0
    OBVIOUS
  <2>2. QED
    BY <1>2, <2>1, ReplySizes
<1>4. z = 5
  BY <1>3
<1>5. h = 0 /\ W = {}
  BY <1>2, <1>4 DEF InOrder
<1>6. fw.mode = "hdr" /\ fw.buf = <<>> /\ rx_ff = <<>>
  BY <1>2, <1>5, CatNone DEF AtFrame
<1>7. tx_ff = <<>> /\ pend = <<>>
  BY <1>3, <1>4 DEF LinkType
<1>8. QED
  BY <1>6, <1>7 DEF InStep, Quiet

\* A packet holds what the trip waits for, or more.
LEMMA PacketIsWhole ==
  ASSUME LinkType, NEW t \in 1 .. 5, OnWire(t), Pairs(t) > 0, ep_in # <<>>
  PROVE  Len(ep_in) \in Nat /\ Len(ep_in) >= Pairs(t)
<1>1. PICK z \in 0 .. t, h \in 0 .. t : \E W \in SUBSET (1 .. t) :
        /\ InOrder(z, h, W) /\ AtFrame(h, W, fw.mode, fw.buf, fw.left, rx_ff)
        /\ Replied(z, Len(ep_in), Len(tx_ff), Len(pend))
  BY DEF OnWire
<1>2. z \in Nat /\ Replied(z, Len(ep_in), Len(tx_ff), Len(pend)) /\ z <= t
  BY <1>1
<1>3. Len(ep_in) \in Nat /\ Len(ep_in) # 0
  BY DEF LinkType
<1>4. (z <= 2 => Len(ep_in) >= 8) /\ (z <= 4 => Len(ep_in) >= 4) /\ Len(ep_in) >= 1
  BY <1>2, <1>3, ReplySizes
<1>5. /\ t = 2 \/ t = 4 \/ t = 5
      /\ (t = 2 => Pairs(t) = 8) /\ (t = 4 => Pairs(t) = 4) /\ (t = 5 => Pairs(t) = 1)
  BY DEF Pairs
<1>6. QED
  BY <1>2, <1>3, <1>4, <1>5

\* A step of a create's transfers: it goes on, or returns, and in step with the firmware if the chip
\* was found ready.
Goes    == Bring(call)' /\ call' # NoCall /\ call'.w = call.w /\ UNCHANGED <<wrapper, conn, ret>>
Returns == \E ok \in BOOLEAN : \E got : Return(ok, got) /\ (ok => InStep')

LEMMA CreateFails ==
  ASSUME TypeInv, call # NoCall, Bring(call), NEW t, t = frames, FailTrip, OnWire(t)'
  PROVE  Goes \/ Returns
<1>1. t \in 1 .. 5 /\ (Head(call.trips).must <=> t \notin {2, 4})
  BY BringFields, Zenon
<1>2. CASE Return(FALSE, <<>>)
  BY <1>2 DEF Returns
<1>3. CASE ~Head(call.trips).must /\ EndTrip(<<>>)
  <2>1. t \in {2, 4}
    BY <1>1, <1>3, Zenon
  <2>2. t < 5
    BY <2>1
  <2>3. QED
    BY <1>3, <2>2, NextTrip, Zenon DEF Goes
<1>4. QED
  BY <1>2, <1>3, Zenon DEF FailTrip

LEMMA CreateWrites ==
  ASSUME TypeInv, call # NoCall, Bring(call), WritePacket
  PROVE  (Goes \/ Returns) /\ UNCHANGED opens
<1>. PICK t \in 1 .. 5 : t = frames
  BY Zenon DEF Bring
<1>. DEFINE p == Take(call.tx, PACKET)
<1>1. /\ call.tx # <<>> /\ rx_ff' = rx_ff \o p /\ UNCHANGED <<tx_ff, ep_in, fw, pend, opens>>
      /\ \/ Len(p) = Len(call.tx) /\ Head(call.trips).replies = 0 /\ EndTrip(<<>>)
         \/ /\ Len(p) < Len(call.tx) \/ Head(call.trips).replies > 0
            /\ call' = [call EXCEPT !.tx = Drop(@, PACKET)]
            /\ UNCHANGED <<wrapper, conn, ret, frames>>
  BY DEF WritePacket, firmware
<1>2. /\ t \in 1 .. 5 /\ call.kind = "create" /\ call.got = <<>> /\ call.trips = SubSeq(BringUp, t, 5)
      /\ Head(call.trips).replies = Pairs(t) /\ call \in Call /\ call.tx = Frame(t) /\ OnWire(t - 1)
      /\ Pairs(t) \in 0 .. 8 /\ (Pairs(t) > 0 <=> t \in {2, 4, 5})
  BY <1>1, BringFields, Zenon
<1>3. Frame(t) \in Seq(Byte) /\ Len(Frame(t)) \in 5 .. 21
  BY <1>2, FrameFacts
<1>4. p = Frame(t) /\ Drop(call.tx, PACKET) = <<>>
  <2>1. PACKET \in Nat /\ PACKET >= Len(Frame(t))
    <3>1. PACKET \in Nat /\ PACKET >= 21
      BY Sizes
    <3>. DEFINE x == Len(Frame(t))
    <3>2. x \in 5 .. 21
      BY <1>3
    <3>. HIDE DEF x
    <3>3. PACKET >= x
      BY ONLY <3>1, <3>2
    <3>4. QED
      BY <3>1, <3>3 DEF x
  <2>2. QED
    BY <1>2, <1>3, <2>1, TakeDrop
<1>. HIDE DEF p
<1>5. OnWire(t)'
  BY <1>1, <1>2, <1>4, WriteKeepsWire
<1>6. CASE Head(call.trips).replies = 0 /\ EndTrip(<<>>)
  <2>1. Pairs(t) = 0 /\ t < 5
    BY <1>2, <1>6
  <2>2. QED
    BY <1>1, <1>5, <1>6, <2>1, NextTrip, Zenon DEF Goes
<1>7. CASE /\ Head(call.trips).replies > 0
           /\ call' = [call EXCEPT !.tx = Drop(@, PACKET)]
           /\ UNCHANGED <<wrapper, conn, ret, frames>>
  <2>1. call' = [call EXCEPT !.tx = <<>>] /\ <<>> \in Seq(Byte) /\ Pairs(t) > 0
    BY <1>2, <1>4, <1>7
  <2>2. /\ call'.kind = call.kind /\ call'.w = call.w /\ call'.trips = call.trips /\ call'.got = call.got /\ call'.tx = <<>>
        /\ call' \in Call
    BY ONLY <1>2, <2>1 DEF Call, Byte
  <2>3. call' # NoCall
    BY <2>2, NoCallAssumption
  <2>4. frames' = t
    BY <1>7
  <2>5. OnWire(frames)'
    BY <1>5, <2>4 DEF OnWire
  <2>6. Bring(call)'
    BY <1>2, <2>1, <2>2, <2>4, <2>5, Zenon DEF Bring
  <2>7. QED
    BY <1>1, <1>7, <2>2, <2>3, <2>6 DEF Goes
<1>8. ~(Len(p) < Len(call.tx))
  BY <1>2, <1>3, <1>4
<1>9. QED
  BY <1>1, <1>6, <1>7, <1>8, Zenon

LEMMA CreateReads ==
  ASSUME TypeInv, call # NoCall, Bring(call), ReadPacket
  PROVE  (Goes \/ Returns) /\ UNCHANGED opens
<1>. PICK t \in 1 .. 5 : t = frames
  BY Zenon DEF Bring
<1>. DEFINE r == call.got \o ep_in
<1>1. /\ call.tx = <<>> /\ ep_in # <<>> /\ ep_in' = <<>> /\ UNCHANGED <<rx_ff, tx_ff, fw, pend, opens>>
      /\ \/ Len(r) > Head(call.trips).replies /\ FailTrip
         \/ Len(r) = Head(call.trips).replies /\ EndTrip(r)
         \/ Len(r) < Head(call.trips).replies
  BY DEF ReadPacket, firmware
<1>2. LinkType
  BY DEF TypeInv
<1>3. /\ t \in 1 .. 5 /\ call.got = <<>> /\ Head(call.trips).replies = Pairs(t) /\ Len(call.trips) = 6 - t
      /\ Pairs(t) \in 0 .. 8 /\ call.kind = "create"
      /\ \/ call.tx = Frame(t) /\ OnWire(t - 1)
         \/ call.tx = <<>> /\ Pairs(t) > 0 /\ OnWire(t)
  BY BringFields, Zenon
<1>4. Pairs(t) > 0 /\ OnWire(t)
  <2>1. Frame(t) # <<>>
    <3>1. Frame(t) \in Seq(Byte) /\ Len(Frame(t)) \in 5 .. 21
      BY <1>3, FrameFacts
    <3>2. QED
      BY ONLY <3>1
  <2>2. QED
    BY <1>1, <1>3, <2>1, Zenon
<1>5. r = ep_in
  <2>1. ep_in \in Seq(Reply)
    BY <1>2 DEF LinkType
  <2>2. QED
    BY <1>3, <2>1, ConcatEmptySeq
<1>. HIDE DEF r
<1>6. Len(ep_in) \in Nat /\ Len(ep_in) >= Pairs(t)
  BY <1>1, <1>2, <1>3, <1>4, PacketIsWhole
<1>7. OnWire(t)'
  <2>1. t \in 0 .. 5
    BY <1>3
  <2>2. QED
    BY <1>1, <1>4, <2>1, WireKeeps
<1>8. CASE FailTrip
  BY <1>1, <1>7, <1>8, CreateFails, Zenon
<1>9. CASE Len(r) = Head(call.trips).replies /\ EndTrip(r)
  <2>1. CASE t < 5
    BY <1>1, <1>7, <1>9, <2>1, NextTrip, Zenon DEF Goes
  <2>2. CASE ~(t < 5)
    <3>1. t = 5
      BY <1>3, <2>2
    <3>2. Len(ep_in) = 1
      BY <1>3, <1>5, <1>9, <3>1 DEF Pairs
    <3>3. InStep'
      BY <1>1, <1>2, <1>4, <3>1, <3>2, LastReply
    <3>4. Len(call.trips) = 1 /\ ~(Len(call.trips) > 1)
      BY <1>3, <3>1
    <3>5. \E ok \in BOOLEAN : Return(ok, r)
      BY <1>3, <1>9, <3>4, Zenon DEF EndTrip
    <3>6. QED
      BY <1>1, <3>3, <3>5, Zenon DEF Returns
  <2>3. QED
    BY <2>1, <2>2
<1>10. ~(Len(r) < Head(call.trips).replies)
  BY <1>3, <1>5, <1>6
<1>11. QED
  BY <1>1, <1>8, <1>9, <1>10, Zenon

LEMMA CreateTimesOut ==
  ASSUME TypeInv, call # NoCall, Bring(call), Timeout
  PROVE  (Goes \/ Returns) /\ UNCHANGED opens
<1>. PICK t \in 1 .. 5 : t = frames
  BY Zenon DEF Bring
<1>1. FailTrip /\ UNCHANGED <<rx_ff, tx_ff, ep_in, fw, pend, opens>>
  BY DEF Timeout, usb, firmware
<1>2. t \in 1 .. 5 /\ (OnWire(t - 1) \/ OnWire(t))
  BY BringFields, Zenon
<1>3. OnWire(t)
  BY <1>2, WireGrows
<1>4. OnWire(t)'
  <2>1. t \in 0 .. 5
    BY <1>2
  <2>2. QED
    BY <1>1, <1>3, <2>1, WireKeeps
<1>5. QED
  BY <1>1, <1>4, CreateFails, Zenon

\* A create that finds the device in step starts with its first frame to write.
LEMMA CreateStarts ==
  ASSUME TypeInv, TypeInv', InStep, frames = 0, NEW w \in Wrapper, Begin(w, "create", <<>>, BringUp),
         rx_ff' = <<>>, tx_ff' = <<>>, ep_in' = <<>>, UNCHANGED <<fw, pend>>
  PROVE  Bring(call)' /\ call' # NoCall
<1>1. BringUp \in Seq(Trips) /\ Len(BringUp) = 5
  BY BringUpFacts
<1>2. Head(BringUp) = BringUp[1] /\ SubSeq(BringUp, 1, 5) = BringUp
  <2>1. BringUp # <<>>
    BY <1>1
  <2>2. SubSeq(BringUp, 1, Len(BringUp)) = BringUp
    BY <1>1, SubSeqFull
  <2>3. QED
    BY <1>1, <2>1, <2>2
<1>3. frames + 1 = 1 /\ 1 - 1 = 0 /\ 1 \in 1 .. 5
  OBVIOUS
<1>4. /\ call'.kind = "create" /\ call'.got = <<>> /\ call'.trips = BringUp /\ frames' = 1
      /\ call'.tx = Stamp(1, Head(BringUp).bytes)
  BY <1>3 DEF Begin
<1>5. call'.tx = Frame(1)
  BY <1>2, <1>4 DEF Frame
<1>6. call' # NoCall
  <2>1. call' \in Call
    <3>1. <<>> \in Seq(BOOLEAN) /\ Len(BringUp) > 0 /\ HostType
      BY <1>1 DEF TypeInv
    <3>2. QED
      BY <1>1, <3>1, BeginType
  <2>2. QED
    BY <2>1, NoCallAssumption
<1>7. OnWire(0)'
  <2>1. AtFrame(0, {}, fw'.mode, fw'.buf, fw'.left, rx_ff')
    BY CatNone DEF AtFrame, InStep
  <2>2. RepliedBy(0, 0, 0, 0, {}, {}, {})
    BY DEF RepliedBy, Weight, Before
  <2>3. {} \in SUBSET {2, 4, 5} /\ {} \in SUBSET (1 .. 0) /\ 0 \in 0 .. 0
    OBVIOUS
  <2>4. Replied(0, 0, 0, 0)
    BY <2>2, <2>3, Zenon DEF Replied
  <2>5. Len(ep_in') = 0 /\ Len(tx_ff') = 0 /\ Len(pend') = 0
    BY DEF InStep, Quiet
  <2>6. InOrder(0, 0, {})
    BY DEF InOrder
  <2>7. Replied(0, Len(ep_in'), Len(tx_ff'), Len(pend'))
    BY <2>4, <2>5
  <2>8. QED
    BY <2>1, <2>3, <2>6, <2>7, Zenon DEF OnWire
<1>8. frames' - 1 = 0
  BY <1>4
<1>9. OnWire(frames - 1)'
  BY <1>7, <1>8 DEF OnWire
<1>10. Bring(call)'
  <2>1. /\ frames' \in 1 .. 5 /\ call'.trips = SubSeq(BringUp, frames', 5) /\ call'.tx = Frame(frames')
    BY <1>2, <1>3, <1>4, <1>5
  <2>2. QED
    BY <1>4, <1>9, <2>1, Zenon DEF Bring
<1>11. QED
  BY <1>6, <1>10
-----------------------------------------------------------------------------
(* The whole link. *)

\* The device is opened once, and timeouts only meet a transport that has the connection to itself.
OneOpen     == MAX_OPENS = 1
FaultyAlone == \A S \in Faulty : \E w : S = {w}

NoneLive == \A w \in Wrapper : wrapper[w] # "live"
Idle     == \A w \in Wrapper : wrapper[w] = "none"
Down     == (Wrapper \in Faulty \/ ~conn.reset_ok) /\ NoneLive

OpenedOnce == opens <= 1 /\ (opens = 0 => ~conn.open /\ InStep /\ frames = 0)
Closed     == ~conn.open => call = NoCall /\ Idle
BringingUp == conn.open /\ ~conn.reset_done => call # NoCall /\ Bring(call) /\ Idle
InUse      == \E w \in Wrapper : wrapper[w] # "none"
CallOwns   == call # NoCall => CallInv(call) /\ conn.reset_ok /\ wrapper[call.w] = "live"
Up         == conn.open /\ conn.reset_done =>
                InUse /\ (~conn.reset_ok => NoneLive) /\ (call = NoCall => InStep \/ Down) /\ CallOwns
Kept       == OwnReplies /\ AllSucceed

LinkInv == OpenedOnce /\ Closed /\ BringingUp /\ Up /\ Kept

LEMMA RetKeeps ==
  ASSUME Kept, Wrapper' = Wrapper, ret' = ret \/ ret'.kind \notin {"execute", "status"}
  PROVE  Kept'
<1>1. CASE ret' = ret
  BY <1>1 DEF Kept, OwnReplies, AllSucceed
<1>2. CASE ret'.kind \notin {"execute", "status"}
  BY <1>2 DEF Kept, OwnReplies, AllSucceed
<1>3. QED
  BY <1>1, <1>2

\* A device in step rests.
LEMMA Rests == InStep => ~Device
<1>1. ASSUME InStep PROVE ~ArmPacket /\ ~FwRead /\ ~FwHeader /\ ~FwChunk /\ ~FwWrite
  <2>1. rx_ff = <<>> /\ tx_ff = <<>> /\ pend = <<>> /\ fw.mode = "hdr" /\ fw.buf = <<>>
    BY <1>1 DEF InStep, Quiet
  <2>2. Need = 5 /\ Len(fw.buf) = 0
    BY <2>1 DEF Need
  <2>3. QED
    BY <2>1, <2>2 DEF ArmPacket, FwRead, FwHeader, FwChunk, FwWrite
<1>2. QED
  BY <1>1 DEF Device

LEMMA DeviceKeeps ==
  ASSUME TypeInv, LinkInv, Device, Wrapper' = Wrapper
  PROVE  LinkInv'
<1>1. UNCHANGED <<wrapper, conn, call, ret, frames, opens>>
  BY DEF Device, ArmPacket, FwRead, FwHeader, FwChunk, FwWrite
<1>2. ~InStep
  BY Rests
<1>3. OpenedOnce' /\ Closed' /\ Kept'
  <2>1. OpenedOnce'
    BY <1>1, <1>2, Zenon DEF LinkInv, OpenedOnce
  <2>2. Closed'
    BY <1>1, Zenon DEF LinkInv, Closed, Idle
  <2>3. Kept'
    BY <1>1, RetKeeps DEF LinkInv
  <2>4. QED
    BY <2>1, <2>2, <2>3
<1>4. BringingUp'
  <2>1. SUFFICES ASSUME conn.open, ~conn.reset_done PROVE call' # NoCall /\ Bring(call)' /\ Idle'
    BY <1>1, Zenon DEF BringingUp
  <2>2. call # NoCall /\ Bring(call) /\ Idle
    BY <2>1, Zenon DEF LinkInv, BringingUp
  <2>3. PICK t \in 1 .. 5 : t = frames
    BY <2>2, Zenon DEF Bring
  <2>4. /\ call.kind = "create" /\ call.got = <<>> /\ call.trips = SubSeq(BringUp, t, 5)
        /\ \/ call.tx = Frame(t) /\ OnWire(t - 1)
           \/ call.tx = <<>> /\ Pairs(t) > 0 /\ OnWire(t)
    BY <2>2, <2>3, Zenon DEF Bring
  <2>5. t - 1 \in 0 .. 5 /\ t \in 0 .. 5 /\ LinkType /\ FwType
    BY DEF TypeInv
  <2>6. OnWire(t - 1) => OnWire(t - 1)'
    BY <2>5, DeviceKeepsWire
  <2>7. OnWire(t) => OnWire(t)'
    BY <2>5, DeviceKeepsWire
  <2>8. frames' = t /\ call' = call
    BY <1>1, <2>3
  <2>9. (OnWire(t - 1)' => OnWire(frames - 1)') /\ (OnWire(t)' => OnWire(frames)')
    BY <2>8 DEF OnWire
  <2>10. Bring(call)'
    BY <2>4, <2>6, <2>7, <2>8, <2>9, Zenon DEF Bring
  <2>11. QED
    BY <1>1, <2>2, <2>10, Zenon DEF Idle
<1>5. Up'
  <2>1. SUFFICES ASSUME conn.open, conn.reset_done
                 PROVE  InUse' /\ (~conn'.reset_ok => NoneLive') /\ (call' = NoCall => InStep' \/ Down') /\ CallOwns'
    BY <1>1, Zenon DEF Up
  <2>2. InUse /\ (~conn.reset_ok => NoneLive) /\ (call = NoCall => InStep \/ Down) /\ CallOwns
    BY <2>1, Zenon DEF LinkInv, Up
  <2>3. InUse' /\ (~conn'.reset_ok => NoneLive')
    BY <1>1, <2>2, Zenon DEF InUse, NoneLive
  <2>4. call' = NoCall => Down'
    BY <1>1, <1>2, <2>2, Zenon DEF Down, NoneLive
  <2>5. CallOwns'
    <3>1. call # NoCall => CallInv(call)'
      BY <2>2, DeviceKeepsCall, Zenon DEF CallOwns
    <3>2. QED
      BY <1>1, <2>2, <3>1, Zenon DEF CallOwns
  <2>6. QED
    BY <2>3, <2>4, <2>5, Zenon
<1>6. QED
  BY <1>3, <1>4, <1>5 DEF LinkInv

LEMMA ReturnFields ==
  ASSUME TypeInv, call # NoCall, NEW ok \in BOOLEAN, NEW got, Return(ok, got)
  PROVE  /\ call' = NoCall /\ frames' = frames
         /\ ret'.kind = call.kind /\ ret'.ok = ok /\ ret'.f = call.first /\ ret'.plan = call.plan /\ ret'.got = got
         /\ wrapper'[call.w] = (IF ok THEN "live" ELSE "dead") /\ \A w \in Wrapper : w # call.w => wrapper'[w] = wrapper[w]
         /\ conn'.open = conn.open
         /\ call.kind = "create" => conn'.reset_done = TRUE /\ conn'.reset_ok = ok
         /\ call.kind # "create" => conn' = conn
<1>1. /\ call' = NoCall /\ frames' = frames
      /\ ret' = [kind |-> call.kind, ok |-> ok, f |-> call.first, plan |-> call.plan, got |-> got]
      /\ wrapper' = [wrapper EXCEPT ![call.w] = IF ok THEN "live" ELSE "dead"]
      /\ conn' = IF call.kind = "create" THEN [conn EXCEPT !.reset_done = TRUE, !.reset_ok = ok] ELSE conn
  BY DEF Return
<1>2. ret'.kind = call.kind /\ ret'.ok = ok /\ ret'.f = call.first /\ ret'.plan = call.plan /\ ret'.got = got
  BY ONLY <1>1
<1>3. call.w \in Wrapper /\ wrapper \in [Wrapper -> {"none", "live", "dead"}]
  BY CallFields DEF TypeInv, HostType
<1>4. wrapper'[call.w] = (IF ok THEN "live" ELSE "dead") /\ \A w \in Wrapper : w # call.w => wrapper'[w] = wrapper[w]
  BY <1>1, <1>3, Zenon
<1>5. conn \in [open : BOOLEAN, reset_done : BOOLEAN, reset_ok : BOOLEAN]
  BY DEF TypeInv, HostType
<1>6. CASE call.kind = "create"
  <2>1. conn' = [conn EXCEPT !.reset_done = TRUE, !.reset_ok = ok]
    BY <1>1, <1>6
  <2>2. conn'.open = conn.open /\ conn'.reset_done = TRUE /\ conn'.reset_ok = ok
    BY ONLY <1>5, <2>1
  <2>3. QED
    BY <1>1, <1>2, <1>4, <1>6, <2>2, Zenon
<1>7. CASE call.kind # "create"
  <2>1. conn' = conn
    BY <1>1, <1>7
  <2>2. QED
    BY <1>1, <1>2, <1>4, <1>7, <2>1, Zenon
<1>8. QED
  BY <1>6, <1>7

\* The transfers of a create.
LEMMA BringKeeps ==
  ASSUME TypeInv, LinkInv, Wrapper' = Wrapper, Link, call # NoCall, conn.open, ~conn.reset_done
  PROVE  LinkInv'
<1>1. Bring(call) /\ Idle /\ opens <= 1 /\ opens # 0 /\ Kept
  BY Zenon DEF LinkInv, BringingUp, OpenedOnce
<1>2. (Goes \/ Returns) /\ opens' = opens
  BY <1>1, CreateWrites, CreateReads, CreateTimesOut DEF Link
<1>3. OpenedOnce'
  BY <1>1, <1>2, Zenon DEF OpenedOnce
<1>4. CASE Goes
  <2>1. Bring(call)' /\ call' # NoCall /\ wrapper' = wrapper /\ conn' = conn /\ ret' = ret
    BY <1>4 DEF Goes
  <2>2. Idle'
    BY <1>1, <2>1, Zenon DEF Idle
  <2>3. Closed' /\ BringingUp' /\ Up'
    BY <2>1, <2>2, Zenon DEF Closed, BringingUp, Up
  <2>4. Kept'
    BY <1>1, <2>1, RetKeeps
  <2>5. QED
    BY <1>3, <2>3, <2>4 DEF LinkInv
<1>5. CASE Returns
  <2>0. PICK ok \in BOOLEAN : \E got : Return(ok, got) /\ (ok => InStep')
    BY <1>5 DEF Returns
  <2>1. PICK got : Return(ok, got) /\ (ok => InStep')
    BY <2>0
  <2>2. call.kind = "create" /\ call.w \in Wrapper
    BY <1>1, CallFields, Zenon DEF Bring, TypeInv
  <2>3. /\ call' = NoCall /\ ret'.kind = "create" /\ conn'.open = conn.open /\ conn'.reset_done = TRUE /\ conn'.reset_ok = ok
        /\ wrapper'[call.w] = (IF ok THEN "live" ELSE "dead") /\ \A w \in Wrapper : w # call.w => wrapper'[w] = wrapper[w]
    BY <2>1, <2>2, ReturnFields, Zenon
  <2>4. InUse'
    <3>1. wrapper'[call.w] # "none"
      BY <2>3
    <3>2. QED
      BY <2>2, <3>1, Zenon DEF InUse
  <2>5. ASSUME ~ok PROVE NoneLive'
    <3>1. wrapper'[call.w] # "live"
      BY <2>3, <2>5
    <3>2. \A w \in Wrapper : wrapper'[w] # "live"
      BY <1>1, <2>3, <3>1 DEF Idle
    <3>3. QED
      BY <3>2, Zenon DEF NoneLive
  <2>6. InStep' \/ Down'
    BY <2>1, <2>3, <2>5, Zenon DEF Down
  <2>7. Up'
    BY <2>3, <2>4, <2>5, <2>6, Zenon DEF Up, CallOwns
  <2>8. Closed' /\ BringingUp'
    BY <2>3, Zenon DEF Closed, BringingUp
  <2>9. Kept'
    <3>1. ret'.kind \notin {"execute", "status"}
      BY <2>3
    <3>2. QED
      BY <1>1, <3>1, RetKeeps
  <2>10. QED
    BY <1>3, <2>7, <2>8, <2>9 DEF LinkInv
<1>6. QED
  BY <1>2, <1>4, <1>5

\* The transfers of an execute or a status.
LEMMA CallKeeps ==
  ASSUME TypeInv, LinkInv, FaultyAlone, Wrapper' = Wrapper, Link, call # NoCall, conn.open, conn.reset_done
  PROVE  LinkInv'
<1>1. /\ InUse /\ (~conn.reset_ok => NoneLive) /\ CallInv(call) /\ conn.reset_ok /\ wrapper[call.w] = "live"
      /\ opens <= 1 /\ opens # 0 /\ Kept
  BY Zenon DEF LinkInv, Up, OpenedOnce, CallOwns
<1>2. call.w \in Wrapper
  BY CallFields DEF TypeInv
<1>3. ASSUME CallInv(call)', call' # NoCall, call'.w = call.w, UNCHANGED <<wrapper, conn, ret, opens>>
      PROVE  LinkInv'
  <2>1. OpenedOnce' /\ Closed' /\ BringingUp'
    BY <1>1, <1>3, Zenon DEF OpenedOnce, Closed, BringingUp
  <2>2. InUse' /\ CallOwns' /\ conn'.reset_ok
    BY <1>1, <1>3, Zenon DEF InUse, CallOwns
  <2>3. Up'
    BY <1>3, <2>2, Zenon DEF Up
  <2>4. Kept'
    BY <1>1, <1>3, RetKeeps
  <2>5. QED
    BY <2>1, <2>3, <2>4 DEF LinkInv
<1>4. ASSUME NEW ok \in BOOLEAN, NEW got, Return(ok, got), opens' = opens, Kept',
             ok => InStep', ~ok => Wrapper \in Faulty
      PROVE  LinkInv'
  <2>1. call.kind # "create"
    BY <1>1, CallTrip
  <2>2. /\ call' = NoCall /\ conn' = conn /\ wrapper'[call.w] = (IF ok THEN "live" ELSE "dead")
        /\ \A w \in Wrapper : w # call.w => wrapper'[w] = wrapper[w]
    BY <1>4, <2>1, ReturnFields, Zenon
  <2>3. OpenedOnce' /\ Closed' /\ BringingUp'
    BY <1>1, <1>4, <2>2, Zenon DEF OpenedOnce, Closed, BringingUp
  <2>4. InUse'
    <3>1. wrapper'[call.w] # "none"
      BY <2>2
    <3>2. QED
      BY <1>2, <3>1, Zenon DEF InUse
  <2>5. ASSUME ~ok PROVE Down'
    <3>1. PICK a : Wrapper = {a}
      BY <1>4, <2>5, Zenon DEF FaultyAlone
    <3>2. wrapper'[call.w] # "live"
      BY <2>2, <2>5
    <3>3. \A w \in Wrapper : w = call.w
      BY <1>2, <3>1, Zenon
    <3>4. NoneLive'
      BY <3>2, <3>3, Zenon DEF NoneLive
    <3>5. QED
      BY <1>4, <2>5, <3>4, Zenon DEF Down
  <2>6. Up'
    BY <1>1, <1>4, <2>2, <2>4, <2>5, Zenon DEF Up, CallOwns
  <2>7. QED
    BY <1>4, <2>3, <2>6 DEF LinkInv
<1>5. CASE WritePacket
  BY <1>1, <1>3, <1>5, WriteKeepsCall
<1>6. CASE ReadPacket
  <2>1. CASE Return(TRUE, Due(call)) /\ InStep' /\ UNCHANGED opens
    <3>1. /\ ret'.kind = call.kind /\ ret'.ok = TRUE /\ ret'.f = call.first /\ ret'.plan = call.plan /\ ret'.got = Due(call)
      BY <2>1, ReturnFields, Zenon
    <3>2. OwnReplies'
      <4>1. call.kind = "execute" => Due(call) = Expected(call.first, call.plan)
        BY DEF Due
      <4>2. QED
        BY <3>1, <4>1, Zenon DEF OwnReplies
    <3>3. AllSucceed'
      BY <3>1, Zenon DEF AllSucceed
    <3>4. QED
      BY <1>4, <2>1, <3>2, <3>3, Zenon DEF Kept
  <2>2. QED
    BY <1>1, <1>3, <1>6, <2>1, ReadKeepsCall
<1>7. CASE Timeout
  <2>1. Wrapper \in Faulty /\ FailTrip /\ opens' = opens
    BY <1>7 DEF Timeout
  <2>2. Head(call.trips).must = TRUE
    BY <1>1, CallTrip, Zenon
  <2>3. Return(FALSE, <<>>)
    BY <2>1, <2>2, Zenon DEF FailTrip
  <2>4. ret'.ok = FALSE
    BY <2>3, ReturnFields, Zenon
  <2>5. Kept'
    BY <2>1, <2>4, Zenon DEF Kept, OwnReplies, AllSucceed
  <2>6. QED
    BY <1>4, <2>1, <2>3, <2>5, Zenon
<1>8. QED
  BY <1>5, <1>6, <1>7 DEF Link

\* create_usb_transport, over a device still closed or one brought up before.
LEMMA CreateKeeps ==
  ASSUME TypeInv, TypeInv', LinkInv, OneOpen, FaultyAlone, Wrapper' = Wrapper, NEW w \in Wrapper, Create(w)
  PROVE  LinkInv'
<1>1. opens \in Nat /\ wrapper \in [Wrapper -> {"none", "live", "dead"}] /\ Kept /\ opens <= 1
  BY DEF TypeInv, HostType, LinkInv, OpenedOnce
<1>2. CASE /\ ~conn.open /\ opens < MAX_OPENS
           /\ conn' = [open |-> TRUE, reset_done |-> FALSE, reset_ok |-> FALSE]
           /\ rx_ff' = <<>> /\ tx_ff' = <<>> /\ ep_in' = <<>>
           /\ opens' = opens + 1
           /\ Begin(w, "create", <<>>, BringUp)
           /\ UNCHANGED <<wrapper, ret, fw, pend>>
  <2>1. opens = 0 /\ opens' = 1
    BY <1>1, <1>2 DEF OneOpen
  <2>2. InStep /\ frames = 0 /\ Idle
    BY <1>2, <2>1, Zenon DEF LinkInv, OpenedOnce, Closed
  <2>3. Bring(call)' /\ call' # NoCall
    BY <1>2, <2>2, CreateStarts
  <2>4. conn'.open = TRUE /\ conn'.reset_done = FALSE
    BY <1>2
  <2>5. Idle'
    BY <1>2, <2>2, Zenon DEF Idle
  <2>6. Closed' /\ BringingUp' /\ Up'
    BY <2>3, <2>4, <2>5, Zenon DEF Closed, BringingUp, Up
  <2>7. OpenedOnce'
    BY <2>1 DEF OpenedOnce
  <2>8. Kept'
    BY <1>1, <1>2, RetKeeps
  <2>9. QED
    BY <2>6, <2>7, <2>8 DEF LinkInv
<1>3. CASE /\ wrapper[w] = "none" /\ conn.open /\ conn.reset_done
           /\ wrapper' = [wrapper EXCEPT ![w] = IF conn.reset_ok THEN "live" ELSE "dead"]
           /\ ret' = [kind |-> "create", ok |-> conn.reset_ok]
           /\ UNCHANGED <<conn, call, rx_ff, tx_ff, ep_in, fw, pend, frames, opens>>
  <2>1. InUse /\ (~conn.reset_ok => NoneLive) /\ (call = NoCall => InStep \/ Down) /\ CallOwns
    BY <1>3, Zenon DEF LinkInv, Up
  <2>2. /\ wrapper'[w] = (IF conn.reset_ok THEN "live" ELSE "dead")
        /\ \A o \in Wrapper : o # w => wrapper'[o] = wrapper[o]
    BY <1>1, <1>3, Zenon
  <2>3. OpenedOnce' /\ Closed' /\ BringingUp'
    <3>1. opens # 0
      BY <1>3, Zenon DEF LinkInv, OpenedOnce
    <3>2. QED
      BY <1>1, <1>3, <3>1, Zenon DEF OpenedOnce, Closed, BringingUp
  <2>4. InUse'
    <3>1. wrapper'[w] # "none"
      BY <2>2
    <3>2. QED
      BY <3>1, Zenon DEF InUse
  <2>5. ASSUME ~conn.reset_ok PROVE NoneLive'
    <3>1. wrapper'[w] # "live"
      BY <2>2, <2>5
    <3>2. QED
      BY <2>1, <2>2, <2>5, <3>1, Zenon DEF NoneLive
  <2>6. ASSUME Wrapper \in Faulty PROVE FALSE
    <3>1. PICK a : Wrapper = {a}
      BY <2>6, Zenon DEF FaultyAlone
    <3>2. QED
      BY <1>3, <2>1, <3>1, Zenon DEF InUse
  <2>7. InStep => InStep'
    BY <1>3 DEF InStep, Quiet
  <2>8. call' = NoCall => InStep' \/ Down'
    BY <1>3, <2>1, <2>5, <2>6, <2>7, Zenon DEF Down
  <2>9. CallOwns'
    <3>1. SUFFICES ASSUME call # NoCall PROVE CallInv(call)' /\ conn'.reset_ok /\ wrapper'[call.w] = "live"
      BY <1>3, Zenon DEF CallOwns
    <3>2. CallInv(call) /\ conn.reset_ok /\ wrapper[call.w] = "live" /\ call.w \in Wrapper
      BY <2>1, <3>1, CallFields, Zenon DEF CallOwns, TypeInv
    <3>3. CallInv(call)'
      BY <1>3, <3>2 DEF CallInv, InFlight
    <3>4. call.w # w
      BY <1>3, <3>2
    <3>5. QED
      BY <1>3, <2>2, <3>2, <3>3, <3>4, Zenon
  <2>10. Up'
    BY <1>3, <2>4, <2>5, <2>8, <2>9, Zenon DEF Up
  <2>11. Kept'
    <3>1. ret'.kind \notin {"execute", "status"}
      BY <1>3
    <3>2. QED
      BY <1>1, <3>1, RetKeeps
  <2>12. QED
    BY <2>3, <2>10, <2>11 DEF LinkInv
<1>4. QED
  BY <1>2, <1>3 DEF Create, usb, firmware

\* A call starts on a live transport, and so in step with the firmware.
LEMMA BeginKeeps ==
  ASSUME TypeInv, TypeInv', LinkInv, Wrapper' = Wrapper, NEW w \in Wrapper,
         Status(w) \/ \E plan \in Plans : Execute(w, plan)
  PROVE  LinkInv'
<1>1. /\ call = NoCall /\ wrapper[w] = "live" /\ UNCHANGED <<wrapper, conn, ret, opens>>
      /\ call' \in Call
  <2>1. HostType /\ Trip(XBytes(CMD_STATUS, 1), 1, TRUE) \in Trips
        /\ \A p \in Plans : Trip(MBytes(p), ReplyBytes(p), TRUE) \in Trips
    <3>1. XBytes(CMD_STATUS, 1) \in Seq(Nat)
      <4>1. CMD_STATUS \in Nat /\ 1 \in Nat \ {0}
        BY DEF CMD_STATUS
      <4>2. QED
        BY <4>1, XFacts DEF IsX
    <3>2. \A p \in Plans : MBytes(p) \in Seq(Nat) /\ ReplyBytes(p) \in Nat
      BY MFacts, ReplyBytesType
    <3>3. QED
      BY <3>1, <3>2 DEF Trip, Trips, TypeInv
  <2>2. CASE Status(w)
    <3>. DEFINE t == Trip(XBytes(CMD_STATUS, 1), 1, TRUE)
    <3>1. <<t>> \in Seq(Trips) /\ Len(<<t>>) > 0
      BY <2>1, OneTrip
    <3>2. <<>> \in Seq(BOOLEAN)
      OBVIOUS
    <3>3. Begin(w, "status", <<>>, <<t>>) /\ call = NoCall /\ wrapper[w] = "live" /\ UNCHANGED <<wrapper, conn, ret, opens>>
      BY <2>2 DEF Status
    <3>. HIDE DEF t
    <3>4. QED
      BY <2>1, <3>1, <3>2, <3>3, BeginType
  <2>3. CASE \E plan \in Plans : Execute(w, plan)
    <3>1. PICK plan \in Plans : Execute(w, plan)
      BY <2>3
    <3>. DEFINE t == Trip(MBytes(plan), ReplyBytes(plan), TRUE)
    <3>2. <<t>> \in Seq(Trips) /\ Len(<<t>>) > 0 /\ plan \in Seq(BOOLEAN)
      BY <2>1, OneTrip, PlanFacts
    <3>3. Begin(w, "execute", plan, <<t>>) /\ call = NoCall /\ wrapper[w] = "live" /\ UNCHANGED <<wrapper, conn, ret, opens>>
      BY <3>1 DEF Execute
    <3>. HIDE DEF t
    <3>4. QED
      BY <2>1, <3>2, <3>3, BeginType
  <2>4. QED
    BY <2>2, <2>3
<1>2. ~Idle /\ ~NoneLive
  <2>1. "live" # "none"
    OBVIOUS
  <2>2. QED
    BY <1>1, <2>1, Zenon DEF Idle, NoneLive
<1>3. conn.open /\ conn.reset_done
  BY <1>2, Zenon DEF LinkInv, Closed, BringingUp
<1>4. InStep /\ conn.reset_ok /\ InUse
  BY <1>1, <1>2, <1>3, Zenon DEF LinkInv, Up, Down
<1>5. opens # 0 /\ opens <= 1 /\ Kept
  BY <1>3, Zenon DEF LinkInv, OpenedOnce
<1>6. CallInv(call)' /\ call'.w = w
  BY <1>4, CallStarts
<1>7. OpenedOnce' /\ Closed' /\ BringingUp'
  BY <1>1, <1>3, <1>5, Zenon DEF OpenedOnce, Closed, BringingUp
<1>8. call' # NoCall
  BY <1>1, NoCallAssumption
<1>9. InUse' /\ CallOwns' /\ conn'.reset_ok
  BY <1>1, <1>4, <1>6, Zenon DEF InUse, CallOwns
<1>10. Up'
  BY <1>8, <1>9, Zenon DEF Up
<1>11. Kept'
  BY <1>1, <1>5, RetKeeps
<1>12. QED
  BY <1>7, <1>10, <1>11 DEF LinkInv

LEMMA FreeKeeps ==
  ASSUME TypeInv, LinkInv, Wrapper' = Wrapper, NEW w \in Wrapper, Free(w)
  PROVE  LinkInv'
<1>1. /\ wrapper[w] # "none" /\ (call # NoCall => call.w # w)
      /\ wrapper' = [wrapper EXCEPT ![w] = "none"]
      /\ conn' = [conn EXCEPT !.open = \E o \in Wrapper \ {w} : wrapper[o] # "none"]
      /\ UNCHANGED <<call, ret, rx_ff, tx_ff, ep_in, fw, pend, frames, opens>>
  BY DEF Free, usb, firmware
<1>2. wrapper \in [Wrapper -> {"none", "live", "dead"}]
  BY DEF TypeInv, HostType
<1>3. wrapper'[w] = "none" /\ \A o \in Wrapper : o # w => wrapper'[o] = wrapper[o]
  BY <1>1, <1>2, Zenon
<1>4. (conn'.open <=> \E o \in Wrapper \ {w} : wrapper[o] # "none") /\ conn'.reset_done = conn.reset_done /\ conn'.reset_ok = conn.reset_ok
  <2>. DEFINE b == \E o \in Wrapper \ {w} : wrapper[o] # "none"
  <2>1. conn \in [open : BOOLEAN, reset_done : BOOLEAN, reset_ok : BOOLEAN] /\ b \in BOOLEAN
    BY DEF TypeInv, HostType
  <2>2. conn' = [conn EXCEPT !.open = b]
    BY <1>1
  <2>. HIDE DEF b
  <2>3. conn'.open = b /\ conn'.reset_done = conn.reset_done /\ conn'.reset_ok = conn.reset_ok
    BY ONLY <2>1, <2>2
  <2>4. QED
    BY <2>1, <2>3, Zenon DEF b
<1>5. conn.open /\ conn.reset_done
  BY <1>1, Zenon DEF LinkInv, Closed, BringingUp, Idle
<1>6. (~conn.reset_ok => NoneLive) /\ (call = NoCall => InStep \/ Down) /\ CallOwns
  BY <1>5, Zenon DEF LinkInv, Up
<1>7. NoneLive => NoneLive'
  <2>1. "none" # "live"
    OBVIOUS
  <2>2. QED
    BY <1>3, <2>1, Zenon DEF NoneLive
<1>8. InStep => InStep'
  BY <1>1 DEF InStep, Quiet
<1>9. ASSUME call # NoCall
      PROVE  CallInv(call)' /\ wrapper'[call.w] = "live" /\ conn.reset_ok /\ call.w \in Wrapper \ {w} /\ wrapper[call.w] # "none"
  <2>1. CallInv(call) /\ conn.reset_ok /\ wrapper[call.w] = "live" /\ call.w \in Wrapper
    BY <1>6, <1>9, CallFields, Zenon DEF CallOwns, TypeInv
  <2>2. CallInv(call)'
    BY <1>1, <2>1 DEF CallInv, InFlight
  <2>3. "none" # "live"
    OBVIOUS
  <2>4. QED
    BY <1>1, <1>3, <1>9, <2>1, <2>2, <2>3
<1>10. OpenedOnce'
  <2>1. opens # 0 /\ opens <= 1
    BY <1>5, Zenon DEF LinkInv, OpenedOnce
  <2>2. QED
    BY <1>1, <2>1, Zenon DEF OpenedOnce
<1>11. Closed'
  <2>1. ASSUME ~conn'.open PROVE Idle'
    <3>1. \A o \in Wrapper : o # w => wrapper[o] = "none"
      BY <1>4, <2>1
    <3>2. QED
      BY <1>3, <3>1, Zenon DEF Idle
  <2>2. ASSUME ~conn'.open PROVE call' = NoCall
    BY <1>1, <1>4, <1>9, <2>2, Zenon
  <2>3. QED
    BY <2>1, <2>2, Zenon DEF Closed
<1>12. BringingUp'
  BY <1>4, <1>5, Zenon DEF BringingUp
<1>13. Up'
  <2>1. ASSUME conn'.open PROVE InUse'
    <3>1. PICK o \in Wrapper \ {w} : wrapper[o] # "none"
      BY <1>4, <2>1, Zenon
    <3>2. o \in Wrapper /\ wrapper'[o] # "none"
      BY <1>3, <3>1
    <3>3. QED
      BY <3>2, Zenon DEF InUse
  <2>2. call' = NoCall => InStep' \/ Down'
    BY <1>1, <1>4, <1>6, <1>7, <1>8, Zenon DEF Down
  <2>3. CallOwns'
    BY <1>1, <1>4, <1>9, Zenon DEF CallOwns
  <2>4. QED
    BY <1>4, <1>6, <1>7, <2>1, <2>2, <2>3, Zenon DEF Up
<1>14. Kept'
  BY <1>1, RetKeeps DEF LinkInv
<1>15. QED
  BY <1>10, <1>11, <1>12, <1>13, <1>14 DEF LinkInv

\* Steps that leave the calls alone: a failed open, a refused call, a step of something else.
LEMMA RefuseKeeps ==
  ASSUME TypeInv, LinkInv, OneOpen, Wrapper' = Wrapper,
         \/ \E w \in Wrapper : OpenFails(w) \/ Refuse(w)
         \/ UNCHANGED vars
  PROVE  LinkInv'
<1>1. CASE \E w \in Wrapper : OpenFails(w)
  <2>1. PICK w \in Wrapper : OpenFails(w)
    BY <1>1
  <2>2. /\ ~conn.open /\ opens < MAX_OPENS /\ opens' = opens + 1 /\ ret' = [kind |-> "nullptr", ok |-> FALSE]
        /\ UNCHANGED <<wrapper, conn, call>>
    BY <2>1 DEF OpenFails
  <2>3. opens' = 1
    BY <2>2 DEF OneOpen, TypeInv, HostType
  <2>4. OpenedOnce'
    BY <2>3 DEF OpenedOnce
  <2>5. Closed' /\ BringingUp' /\ Up'
    BY <2>2, Zenon DEF LinkInv, Closed, BringingUp, Up, Idle
  <2>6. Kept'
    <3>1. ret'.kind \notin {"execute", "status"} /\ Kept
      BY <2>2 DEF LinkInv
    <3>2. QED
      BY <3>1, RetKeeps
  <2>7. QED
    BY <2>4, <2>5, <2>6 DEF LinkInv
<1>2. ASSUME UNCHANGED <<wrapper, conn, call, rx_ff, tx_ff, ep_in, fw, pend, frames, opens>>, Kept'
      PROVE  LinkInv'
  <2>1. (InStep => InStep') /\ (NoneLive => NoneLive') /\ (Idle => Idle') /\ (InUse => InUse') /\ (Down => Down')
    BY <1>2 DEF InStep, Quiet, NoneLive, Idle, InUse, Down
  <2>2. CallInv(call) => CallInv(call)'
    BY <1>2 DEF CallInv, InFlight
  <2>3. Bring(call) => Bring(call)'
    BY <1>2 DEF Bring, OnWire
  <2>4. OpenedOnce' /\ Closed' /\ BringingUp'
    BY <1>2, <2>1, <2>3, Zenon DEF LinkInv, OpenedOnce, Closed, BringingUp
  <2>5. CallOwns => CallOwns'
    BY <1>2, <2>2, Zenon DEF CallOwns
  <2>6. Up'
    BY <1>2, <2>1, <2>5, Zenon DEF LinkInv, Up
  <2>7. QED
    BY <1>2, <2>4, <2>6 DEF LinkInv
<1>3. CASE \E w \in Wrapper : Refuse(w)
  <2>1. /\ ret' = [kind |-> "refuse", ok |-> FALSE]
        /\ UNCHANGED <<wrapper, conn, call, rx_ff, tx_ff, ep_in, fw, pend, frames, opens>>
    BY <1>3 DEF Refuse, usb, firmware
  <2>2. ret'.kind \notin {"execute", "status"} /\ Kept
    BY <2>1 DEF LinkInv
  <2>3. Kept'
    BY <2>2, RetKeeps
  <2>4. QED
    BY <1>2, <2>1, <2>3
<1>4. CASE UNCHANGED vars
  <2>1. UNCHANGED <<wrapper, conn, call, ret, rx_ff, tx_ff, ep_in, fw, pend, frames, opens>>
    BY <1>4 DEF vars, usb, firmware
  <2>2. Kept'
    BY <2>1, RetKeeps DEF LinkInv
  <2>3. QED
    BY <1>2, <2>1, <2>2
<1>5. QED
  BY <1>1, <1>3, <1>4

LEMMA CrashKeeps ==
  ASSUME TypeInv, LinkInv, Wrapper' = Wrapper, Crash
  PROVE  LinkInv'
<1>1. /\ conn.open /\ wrapper' = [w \in Wrapper |-> "none"] /\ conn' = [conn EXCEPT !.open = FALSE] /\ call' = NoCall
      /\ ret' = ret /\ opens' = opens
  BY DEF Crash
<1>2. conn'.open = FALSE
  <2>1. conn \in [open : BOOLEAN, reset_done : BOOLEAN, reset_ok : BOOLEAN]
    BY DEF TypeInv, HostType
  <2>2. QED
    BY ONLY <1>1, <2>1
<1>3. Idle'
  BY <1>1, Zenon DEF Idle
<1>4. Closed' /\ BringingUp' /\ Up'
  BY <1>1, <1>2, <1>3, Zenon DEF Closed, BringingUp, Up
<1>5. OpenedOnce'
  <2>1. opens # 0 /\ opens <= 1
    BY <1>1, Zenon DEF LinkInv, OpenedOnce
  <2>2. QED
    BY <1>1, <2>1, Zenon DEF OpenedOnce
<1>6. Kept'
  BY <1>1, RetKeeps DEF LinkInv
<1>7. QED
  BY <1>4, <1>5, <1>6 DEF LinkInv

LEMMA LinkInit == Init => LinkInv
<1>. SUFFICES ASSUME Init PROVE LinkInv
  OBVIOUS
<1>1. /\ call = NoCall /\ ret = [kind |-> "none", ok |-> FALSE] /\ frames = 0 /\ opens = 0
      /\ conn = [open |-> FALSE, reset_done |-> FALSE, reset_ok |-> FALSE]
      /\ rx_ff = <<>> /\ tx_ff = <<>> /\ ep_in = <<>> /\ fw = [mode |-> "hdr", buf |-> <<>>, left |-> 0] /\ pend = <<>>
  BY DEF Init
<1>2. InStep
  BY <1>1 DEF InStep, Quiet
<1>3. conn.open = FALSE
  BY <1>1
<1>4. OpenedOnce
  <2>1. opens <= 1
    BY <1>1
  <2>2. QED
    BY <1>1, <1>2, <1>3, <2>1, Zenon DEF OpenedOnce
<1>5. Idle
  <2>1. PICK S \in Processes : wrapper = [w \in S |-> "none"]
    BY DEF Init
  <2>2. QED
    BY <2>1, Zenon DEF Idle, Wrapper
<1>6. Closed /\ BringingUp /\ Up
  BY <1>1, <1>3, <1>5, Zenon DEF Closed, BringingUp, Up
<1>7. Kept
  <2>1. ret.kind = "none"
    BY <1>1
  <2>2. QED
    BY <2>1 DEF Kept, OwnReplies, AllSucceed
<1>8. QED
  BY <1>4, <1>6, <1>7 DEF LinkInv

LEMMA LinkNext ==
  ASSUME OneOpen, FaultyAlone, TypeInv, LinkInv, [Next]_vars
  PROVE  LinkInv'
<1>1. TypeInv' /\ Wrapper' = Wrapper
  BY TypeNext
<1>2. ASSUME NEW w \in Wrapper,
             \/ Create(w) \/ OpenFails(w) \/ Status(w) \/ Refuse(w) \/ Free(w)
             \/ \E plan \in Plans : Execute(w, plan)
      PROVE  LinkInv'
  <2>1. CASE Create(w)
    BY <1>1, <2>1, CreateKeeps
  <2>2. CASE OpenFails(w) \/ Refuse(w)
    BY <1>1, <2>2, RefuseKeeps
  <2>3. CASE Status(w) \/ \E plan \in Plans : Execute(w, plan)
    BY <1>1, <2>3, BeginKeeps
  <2>4. CASE Free(w)
    BY <1>1, <2>4, FreeKeeps
  <2>5. QED
    BY <1>2, <2>1, <2>2, <2>3, <2>4
<1>3. CASE Crash
  BY <1>1, <1>3, CrashKeeps
<1>4. CASE Link
  <2>1. call # NoCall
    BY <1>4 DEF Link, WritePacket, ReadPacket, Timeout
  <2>2. conn.open
    BY <2>1, Zenon DEF LinkInv, Closed
  <2>3. CASE conn.reset_done
    BY <1>1, <1>4, <2>1, <2>2, <2>3, CallKeeps, Zenon
  <2>4. CASE ~conn.reset_done
    BY <1>1, <1>4, <2>1, <2>2, <2>4, BringKeeps, Zenon
  <2>5. QED
    BY <2>3, <2>4
<1>5. CASE Device
  BY <1>1, <1>5, DeviceKeeps
<1>6. CASE UNCHANGED vars
  BY <1>1, <1>6, RefuseKeeps
<1>7. QED
  BY <1>2, <1>3, <1>4, <1>5, <1>6 DEF Next

\* The inductive invariant of the link: whose bytes are in flight, and what the firmware makes of them.
THEOREM LinkHolds ==
  ASSUME OneOpen, FaultyAlone
  PROVE  Spec => [](TypeInv /\ LinkInv)
<1>1. Init => TypeInv /\ LinkInv
  BY TypeInit, LinkInit
<1>2. TypeInv /\ LinkInv /\ [Next]_vars => TypeInv' /\ LinkInv'
  BY TypeNext, LinkNext
<1>3. QED
  BY <1>1, <1>2, PTL DEF Spec

\* As long as the device is opened once and timeouts only meet a transport that has the connection to
\* itself, a live transport between two calls finds the stream empty and the firmware at a header:
\* create_usb_transport, execute and status leave nothing behind (transport-usb.cpp, main.c).
THEOREM StaysSynced ==
  ASSUME OneOpen, FaultyAlone
  PROVE  Spec => []Synced
<1>1. TypeInv /\ LinkInv => Synced
  <2>. SUFFICES ASSUME LinkInv, call = NoCall, \E w \in Wrapper : wrapper[w] = "live" PROVE InStep
    BY DEF Synced
  <2>1. "live" # "none"
    OBVIOUS
  <2>2. ~Idle /\ ~NoneLive
    BY <2>1, Zenon DEF Idle, NoneLive
  <2>3. conn.open /\ conn.reset_done
    BY <2>2, Zenon DEF LinkInv, Closed, BringingUp
  <2>4. QED
    BY <2>2, <2>3, Zenon DEF LinkInv, Up, Down
<1>2. QED
  BY <1>1, LinkHolds, PTL

\* Under the same conditions an execute that returns true has read exactly the replies to its own
\* descriptors, in order, whatever the packets and the chunks they were cut into and however the FIFOs
\* filled.
THEOREM GetsOwnReplies ==
  ASSUME OneOpen, FaultyAlone
  PROVE  Spec => []OwnReplies
<1>1. TypeInv /\ LinkInv => OwnReplies
  BY DEF LinkInv, Kept
<1>2. QED
  BY <1>1, LinkHolds, PTL

\* Under the same conditions, in a process whose transfers do not time out, every execute and every
\* status returns true: no reply overflows a bulk_read, and status and macro replies never mix.
THEOREM CallsSucceed ==
  ASSUME OneOpen, FaultyAlone
  PROVE  Spec => []AllSucceed
<1>1. TypeInv /\ LinkInv => AllSucceed
  BY DEF LinkInv, Kept
<1>2. QED
  BY <1>1, LinkHolds, PTL
=============================================================================
