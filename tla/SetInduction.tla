---------------------------- MODULE SetInduction ----------------------------
(***************************************************************************)
(* Induction over the natural numbers, stated for sets: the set of the     *)
(* numbers that have a property takes the place of the property itself.    *)
(***************************************************************************)
EXTENDS Integers, SequencesExt, SequenceTheorems, WellFoundedInduction, TLAPS

\* A set of numbers that is not empty has a least one.
LEMMA LeastNumber ==
  ASSUME NEW T, T \subseteq Nat, T # {}
  PROVE  \E x \in T : \A y \in T : x <= y
<1>. DEFINE R == OpToRel(<, Nat)
<1>1. IsWellFoundedOn(R, Nat)
  BY NatLessThanWellFounded
<1>2. \A x, y \in Nat : y < x => <<y, x>> \in R
  BY DEF OpToRel
<1>. HIDE DEF R
<1>3. PICK x \in T : \A y \in T : ~(<<y, x>> \in R)
  BY <1>1, WFMin
<1>4. ASSUME NEW y \in T PROVE x <= y
  <2>1. x \in Nat /\ y \in Nat
    BY <1>3
  <2>2. ~(y < x)
    BY <1>2, <1>3, <2>1
  <2>3. QED
    BY <2>1, <2>2
<1>5. QED
  BY <1>4

\* A set that has 0, and with a number its successor, has every number.
LEMMA NatSetInduction ==
  ASSUME NEW S, 0 \in S, \A n \in Nat : n \in S => n + 1 \in S
  PROVE  \A n \in Nat : n \in S
<1>1. SUFFICES ASSUME Nat \ S # {} PROVE FALSE
  OBVIOUS
<1>2. PICK x \in Nat \ S : \A y \in Nat \ S : x <= y
  BY <1>1, LeastNumber
<1>3. x # 0 /\ x - 1 \in Nat
  BY <1>2
<1>4. x - 1 \in S
  BY <1>2, <1>3
<1>5. (x - 1) + 1 \in S
  BY <1>3, <1>4
<1>6. QED
  BY <1>2, <1>3, <1>5

\* The least of a set of numbers, as SelectInSeq takes it.
LEMMA LeastIsChosen ==
  ASSUME NEW T, T \subseteq Nat, T # {}, NEW k, k = CHOOSE x \in T : \A y \in T : x =< y
  PROVE  k \in T /\ \A y \in T : k <= y
BY LeastNumber

\* What every step of an iteration keeps holds all along it: S[k] is the set of
\* the values that the k-th may have.
LEMMA IterationStays ==
  ASSUME NEW n \in Nat, NEW S, NEW g, g[0] \in S[0],
         \A k \in 1 .. n : g[k - 1] \in S[k - 1] => g[k] \in S[k]
  PROVE  \A k \in 0 .. n : g[k] \in S[k]
<1>. DEFINE T == {k \in Nat : k <= n => g[k] \in S[k]}
<1>1. 0 \in T
  OBVIOUS
<1>2. ASSUME NEW k \in Nat, k \in T PROVE k + 1 \in T
  <2>1. SUFFICES ASSUME k + 1 <= n PROVE g[k + 1] \in S[k + 1]
    OBVIOUS
  <2>2. k + 1 \in 1 .. n /\ (k + 1) - 1 = k /\ k <= n
    BY <2>1
  <2>3. g[k] \in S[k]
    BY <1>2, <2>2
  <2>4. QED
    BY <2>2, <2>3
<1>. HIDE DEF T
<1>3. \A k \in Nat : k \in T
  BY <1>1, <1>2, NatSetInduction
<1>4. QED
  BY <1>3 DEF T

\* An iteration that starts in S[0] and whose k-th step F[k] leads from S[k - 1] to
\* S[k] exists: the function that a recursive definition stands for.
Iterates(f, n, b, F, S) ==
  /\ f = [k \in 0 .. n |-> f[k]] /\ f[0] = b
  /\ \A k \in 1 .. n : f[k] = F[k][f[k - 1]]
  /\ \A k \in 0 .. n : f[k] \in S[k]

LEMMA IterationExists ==
  ASSUME NEW n \in Nat, NEW S, NEW F, NEW b, b \in S[0],
         \A k \in 1 .. n : \A x \in S[k - 1] : F[k][x] \in S[k]
  PROVE  \E f : Iterates(f, n, b, F, S)
<1>. DEFINE Runs(f, m) == /\ f[0] = b
                          /\ \A k \in 1 .. m : f[k] = F[k][f[k - 1]]
                          /\ \A k \in 0 .. m : f[k] \in S[k]
            T == {m \in Nat : m <= n => \E f : Runs(f, m)}
<1>1. 0 \in T
  <2>. DEFINE f == [k \in 0 .. 0 |-> b]
  <2>1. Runs(f, 0)
    OBVIOUS
  <2>2. QED
    BY <2>1
<1>2. ASSUME NEW m \in Nat, m \in T PROVE m + 1 \in T
  <2>1. SUFFICES ASSUME m + 1 <= n PROVE \E f : Runs(f, m + 1)
    OBVIOUS
  <2>2. m <= n /\ m + 1 \in 1 .. n /\ (m + 1) - 1 = m /\ m \in 0 .. m
    BY <2>1
  <2>3. PICK g : Runs(g, m)
    BY <1>2, <2>2
  <2>. DEFINE h == [k \in 0 .. m + 1 |-> IF k = m + 1 THEN F[m + 1][g[m]] ELSE g[k]]
  <2>4. /\ h[m + 1] = F[m + 1][g[m]]
        /\ \A k \in 0 .. m : h[k] = g[k]
    OBVIOUS
  <2>5. g[m] \in S[m] /\ g[0] = b
    BY <2>2, <2>3
  <2>6. h[m + 1] \in S[m + 1] /\ h[m + 1] = F[m + 1][h[m]] /\ h[0] = b
    BY <2>2, <2>4, <2>5
  <2>. HIDE DEF h
  <2>7. \A k \in 1 .. m + 1 : h[k] = F[k][h[k - 1]]
    <3>1. SUFFICES ASSUME NEW k \in 1 .. m + 1 PROVE h[k] = F[k][h[k - 1]]
      OBVIOUS
    <3>2. CASE k = m + 1
      BY <2>2, <2>6, <3>2
    <3>3. CASE k # m + 1
      <4>1. k \in 1 .. m /\ k \in 0 .. m /\ k - 1 \in 0 .. m
        BY <3>3
      <4>2. g[k] = F[k][g[k - 1]]
        BY <2>3, <4>1
      <4>3. QED
        BY <2>4, <4>1, <4>2
    <3>4. QED
      BY <3>2, <3>3
  <2>8. \A k \in 0 .. m + 1 : h[k] \in S[k]
    <3>1. SUFFICES ASSUME NEW k \in 0 .. m + 1, k # m + 1 PROVE h[k] \in S[k]
      BY <2>6
    <3>2. k \in 0 .. m
      BY <3>1
    <3>3. QED
      BY <2>3, <2>4, <3>2
  <2>9. Runs(h, m + 1)
    BY <2>4, <2>6, <2>7, <2>8
  <2>10. QED
    BY <2>9
<1>. HIDE DEF T
<1>3. n \in T
  BY <1>1, <1>2, NatSetInduction
<1>4. PICK f : Runs(f, n)
  BY <1>3 DEF T
<1>. DEFINE h == [k \in 0 .. n |-> f[k]]
<1>5. \A k \in 0 .. n : h[k] = f[k]
  OBVIOUS
<1>6. h = [k \in 0 .. n |-> h[k]]
  OBVIOUS
<1>. HIDE DEF h
<1>7. \A k \in 1 .. n : k \in 0 .. n /\ k - 1 \in 0 .. n
  OBVIOUS
<1>8. h[0] = b /\ \A k \in 0 .. n : h[k] \in S[k]
  BY <1>4, <1>5
<1>9. \A k \in 1 .. n : h[k] = F[k][h[k - 1]]
  BY <1>4, <1>5, <1>7
<1>10. Iterates(h, n, b, F, S)
  BY <1>6, <1>8, <1>9 DEF Iterates
<1>11. QED
  BY <1>10
-----------------------------------------------------------------------------
(* Concatenations. *)

\* Offsets that grow step by step grow altogether.
LEMMA OffsetsGrow ==
  ASSUME NEW n \in Nat, NEW o \in [0 .. n -> Nat], \A i \in 1 .. n : o[i - 1] <= o[i]
  PROVE  \A i, j \in 0 .. n : j <= i => o[j] <= o[i]
<1>. DEFINE Q == [m \in 0 .. n |-> {x \in Nat : \A j \in 0 .. n : j <= m => o[j] <= x}]
<1>1. o[0] \in Q[0]
  OBVIOUS
<1>2. \A m \in 1 .. n : o[m - 1] \in Q[m - 1] => o[m] \in Q[m]
  <2>1. SUFFICES ASSUME NEW m \in 1 .. n, o[m - 1] \in Q[m - 1] PROVE o[m] \in Q[m]
    OBVIOUS
  <2>2. o[m - 1] \in Nat /\ o[m] \in Nat /\ o[m] >= o[m - 1] /\ m \in 0 .. n /\ m - 1 \in 0 .. n
    OBVIOUS
  <2>3. \A j \in 0 .. n : j <= m - 1 => o[j] <= o[m - 1]
    BY <2>1, <2>2
  <2>4. ASSUME NEW j \in 0 .. n, j <= m PROVE o[j] <= o[m]
    <3>1. o[j] \in Nat
      OBVIOUS
    <3>2. CASE j = m
      BY <2>2, <3>2
    <3>3. CASE j <= m - 1
      <4>1. o[j] <= o[m - 1]
        BY <2>3, <3>3
      <4>2. QED
        BY ONLY <2>2, <3>1, <4>1
    <3>4. QED
      BY <2>4, <3>2, <3>3
  <2>5. QED
    BY <2>2, <2>4
<1>. HIDE DEF Q
<1>3. \A m \in 0 .. n : o[m] \in Q[m]
  BY <1>1, <1>2, IterationStays
<1>4. QED
  BY <1>3 DEF Q

\* Every place of a concatenation is in one of its pieces.
LEMMA BlockOf ==
  ASSUME NEW n \in Nat, NEW o \in [0 .. n -> Nat], o[0] = 0, NEW x \in 1 .. o[n]
  PROVE  \E j \in 1 .. n : o[j - 1] < x /\ x <= o[j]
<1>. DEFINE P == {j \in 0 .. n : x <= o[j]}
<1>1. P \subseteq Nat /\ n \in P
  OBVIOUS
<1>2. PICK j \in P : \A i \in P : j <= i
  <2>. HIDE DEF P
  <2>1. QED
    BY <1>1, LeastNumber
<1>3. j \in 0 .. n /\ x <= o[j] /\ j # 0
  OBVIOUS
<1>4. j - 1 \in 0 .. n /\ j - 1 \notin P /\ j \in 1 .. n
  BY <1>2, <1>3
<1>5. o[j - 1] \in Nat /\ ~(x <= o[j - 1])
  BY <1>4
<1>6. o[j - 1] < x
  BY <1>5
<1>7. QED
  BY <1>3, <1>4, <1>6

\* The elements of a concatenation.
LEMMA ConcatPlaces ==
  ASSUME NEW T, NEW s, s \in Seq(T), NEW u, u \in Seq(T), NEW t, t = s \o u
  PROVE  /\ \A x \in 1 .. Len(s) : t[x] = s[x]
         /\ \A k \in 1 .. Len(u) : t[Len(s) + k] = u[k]
<1>1. \A x \in 1 .. Len(s) : t[x] = s[x]
  OBVIOUS
<1>2. \A k \in 1 .. Len(u) : t[Len(s) + k] = u[k]
  OBVIOUS
<1>3. QED
  BY <1>1, <1>2

\* Sequences g[1] to g[n], and o, the places where they end when they are laid end to end.
Pieces(g, o, n, T) ==
  /\ n \in Nat \ {0} /\ g \in [1 .. n -> Seq(T)] /\ o \in [0 .. n -> Nat] /\ o[0] = 0
  /\ \A i \in 1 .. n : o[i] = o[i - 1] + Len(g[i])

Laid(s, g, o, n, T) ==
  /\ s \in Seq(T) /\ Len(s) = o[n]
  /\ \A i \in 1 .. n : \A k \in 1 .. Len(g[i]) : s[o[i - 1] + k] = g[i][k]

\* Pieces take up room, and none overlaps the one before.
LEMMA PiecesGrow ==
  ASSUME NEW T, NEW n, NEW g, NEW o, Pieces(g, o, n, T)
  PROVE  /\ \A i \in 0 .. n : o[i] \in Nat
         /\ \A i, j \in 0 .. n : j <= i => o[j] <= o[i]
<1>. USE DEF Pieces
<1>1. \A i \in 0 .. n : o[i] \in Nat
  OBVIOUS
<1>2. \A i \in 1 .. n : o[i - 1] <= o[i]
  <2>1. SUFFICES ASSUME NEW i \in 1 .. n PROVE o[i - 1] <= o[i]
    OBVIOUS
  <2>2. o[i - 1] \in Nat /\ o[i] = o[i - 1] + Len(g[i]) /\ Len(g[i]) \in Nat
    OBVIOUS
  <2>3. QED
    BY ONLY <2>2
<1>3. QED
  BY <1>1, <1>2, OffsetsGrow

\* FlattenSeq lays the pieces end to end.
LEMMA FlattenBlocks ==
  ASSUME NEW T, NEW n, NEW g, NEW o, Pieces(g, o, n, T)
  PROVE  Laid(FlattenSeq(g), g, o, n, T)
<1>0. /\ n \in Nat \ {0} /\ g \in [1 .. n -> Seq(T)] /\ o \in [0 .. n -> Nat] /\ o[0] = 0
      /\ \A i \in 1 .. n : o[i] = o[i - 1] + Len(g[i])
  BY DEF Pieces
<1>. USE <1>0
<1>. DEFINE Holds(i, s) == \A j \in 1 .. n : j <= i => \A k \in 1 .. Len(g[j]) : s[o[j - 1] + k] = g[j][k]
            S == [m \in 0 .. n - 1 |-> {s \in Seq(T) : Len(s) = o[m + 1] /\ Holds(m + 1, s)}]
            F == [m \in 1 .. n - 1 |-> [s \in Seq(T) |-> s \o g[m + 1]]]
            Solves(f) == f = [i \in 1 .. n |-> IF i = 1 THEN g[i] ELSE f[i - 1] \o g[i]]
            d == CHOOSE f : Solves(f)
<1>1. /\ n - 1 \in Nat /\ 0 \in 0 .. n - 1 /\ 1 \in 1 .. n /\ Len(g) = n
      /\ \A i \in 1 .. n : i \in 0 .. n /\ i - 1 \in 0 .. n
      /\ \A m \in 1 .. n - 1 : m + 1 \in 1 .. n /\ m \in 1 .. n /\ m - 1 \in 0 .. n - 1 /\ m \in 0 .. n - 1 
                              /\ m + 1 # 1 /\ (m + 1) - 1 = m /\ (m - 1) + 1 = m
      /\ \A m \in 0 .. n - 1 : m + 1 \in 1 .. n
  OBVIOUS
<1>2. /\ \A m \in 0 .. n - 1 : S[m] = {s \in Seq(T) : Len(s) = o[m + 1] /\ Holds(m + 1, s)}
      /\ \A m \in 1 .. n - 1 : \A s \in Seq(T) : F[m][s] = s \o g[m + 1]
  OBVIOUS
<1>3. \A i \in 1 .. n : g[i] \in Seq(T) /\ Len(g[i]) \in Nat
  OBVIOUS
<1>4. \A i, j \in 1 .. n : j <= i => o[j] <= o[i]
  BY <1>1, PiecesGrow
<1>. HIDE DEF S, F, Holds
<1>5. ASSUME NEW m \in 1 .. n - 1, NEW s \in S[m - 1] PROVE s \o g[m + 1] \in S[m]
  <2>1. s \in Seq(T) /\ Len(s) = o[m] /\ Holds(m, s) /\ o[m] \in Nat
    <3>0. m - 1 \in 0 .. n - 1 /\ (m - 1) + 1 = m
      BY <1>1
    <3>1. S[m - 1] = {x \in Seq(T) : Len(x) = o[m] /\ Holds(m, x)}
      BY ONLY <3>0, <1>2
    <3>2. QED
      BY <1>1, <3>1
  <2>. DEFINE t == s \o g[m + 1]
  <2>2. t \in Seq(T) /\ Len(t) = o[m] + Len(g[m + 1])
    <3>1. g[m + 1] \in Seq(T)
      BY <1>1, <1>3
    <3>2. QED
      BY ONLY <2>1, <3>1, SMTT(30)
  <2>3. /\ \A x \in 1 .. Len(s) : t[x] = s[x]
        /\ \A k \in 1 .. Len(g[m + 1]) : t[o[m] + k] = g[m + 1][k]
    <3>1. g[m + 1] \in Seq(T)
      BY <1>1, <1>3
    <3>2. s \in Seq(T) /\ Len(s) = o[m]
      BY <2>1
    <3>. DEFINE u == g[m + 1]
    <3>3. u \in Seq(T) /\ t = s \o u
      BY <3>1
    <3>. HIDE DEF t, u
    <3>4. /\ \A x \in 1 .. Len(s) : t[x] = s[x]
          /\ \A k \in 1 .. Len(u) : t[Len(s) + k] = u[k]
      <4>1. s \in Seq(T)
        BY <3>2
      <4>2. QED
        BY <3>3, <4>1, ConcatPlaces
    <3>5. QED
      BY <3>2, <3>4 DEF u
  <2>. HIDE DEF t
  <2>4. Len(t) = o[m + 1]
    BY <1>1, <2>2
  <2>5. Holds(m + 1, t)
    <3>1. SUFFICES ASSUME NEW j \in 1 .. n, j <= m + 1, NEW k \in 1 .. Len(g[j]) PROVE t[o[j - 1] + k] = g[j][k]
      BY DEF Holds
    <3>2. CASE j = m + 1
      BY <1>1, <2>3, <3>2
    <3>3. CASE j <= m
      <4>1. s[o[j - 1] + k] = g[j][k]
        BY <2>1, <3>3 DEF Holds
      <4>2. o[j] <= o[m] /\ o[j] = o[j - 1] + Len(g[j]) /\ o[j - 1] \in Nat /\ o[j] \in Nat /\ Len(g[j]) \in Nat
        BY <1>1, <1>3, <1>4, <3>3
      <4>3. o[j - 1] + k \in 1 .. Len(s)
        <5>. HIDE DEF t
        <5>. DEFINE x == o[j - 1]
                    y == o[j]
                    z == o[m]
                    l == Len(g[j])
        <5>1. x \in Nat /\ y \in Nat /\ z \in Nat /\ l \in Nat /\ y <= z /\ y = x + l /\ k \in 1 .. l /\ Len(s) = z
          BY <2>1, <4>2
        <5>. HIDE DEF x, y, z, l
        <5>2. x + k \in 1 .. z
          BY <5>1
        <5>3. QED
          BY <5>1, <5>2 DEF x
      <4>4. QED
        BY <2>3, <4>1, <4>3
    <3>4. QED
      BY <3>1, <3>2, <3>3
  <2>6. S[m] = {x \in Seq(T) : Len(x) = o[m + 1] /\ Holds(m + 1, x)}
    BY <1>1, <1>2
  <2>7. t \in S[m]
    BY <2>2, <2>4, <2>5, <2>6
  <2>8. QED
    BY <2>7 DEF t
<1>6. g[1] \in S[0]
  <2>1. g[1] \in Seq(T) /\ Len(g[1]) = o[1] /\ Len(g[1]) \in Nat
    BY <1>1, <1>3
  <2>2. Holds(1, g[1])
    BY <1>1, <2>1 DEF Holds
  <2>3. S[0] = {x \in Seq(T) : Len(x) = o[1] /\ Holds(1, x)}
    BY <1>1, <1>2
  <2>4. QED
    BY <2>1, <2>2, <2>3
<1>7. \E f : Solves(f)
  <2>1. \A m \in 1 .. n - 1 : \A s \in S[m - 1] : F[m][s] \in S[m]
    <3>1. SUFFICES ASSUME NEW m \in 1 .. n - 1, NEW s \in S[m - 1] PROVE F[m][s] \in S[m]
      OBVIOUS
    <3>0. m - 1 \in 0 .. n - 1
      BY <1>1
    <3>2. s \in Seq(T)
      BY <1>2, <3>0
    <3>3. QED
      BY <1>2, <1>5, <3>2
  <2>2. PICK h : Iterates(h, n - 1, g[1], F, S)
    BY <1>1, <1>6, <2>1, IterationExists
  <2>3. /\ h[0] = g[1]
        /\ \A m \in 1 .. n - 1 : h[m] = F[m][h[m - 1]]
        /\ \A m \in 0 .. n - 1 : h[m] \in S[m]
    BY <2>2, Zenon DEF Iterates
  <2>. DEFINE f == [i \in 1 .. n |-> h[i - 1]]
  <2>4. \A i \in 1 .. n : f[i] = IF i = 1 THEN g[i] ELSE f[i - 1] \o g[i]
    <3>1. SUFFICES ASSUME NEW i \in 1 .. n, i # 1 PROVE f[i] = f[i - 1] \o g[i]
      <4>1. f[1] = g[1]
        BY <1>1, <2>3
      <4>2. QED
        BY <4>1
    <3>2. i - 1 \in 1 .. n - 1 /\ (i - 1) + 1 = i /\ (i - 1) - 1 \in 0 .. n - 1 /\ i - 1 \in 1 .. n
      BY <3>1
    <3>3. h[(i - 1) - 1] \in Seq(T)
      BY <1>2, <2>3, <3>2
    <3>4. h[i - 1] = h[(i - 1) - 1] \o g[i]
      BY <1>2, <2>3, <3>2, <3>3
    <3>5. QED
      BY <3>2, <3>4
  <2>5. f = [i \in 1 .. n |-> IF i = 1 THEN g[i] ELSE f[i - 1] \o g[i]]
    BY <2>4
  <2>6. QED
    BY <2>5
<1>8. FlattenSeq(g) = d[n]
  BY <1>1 DEF FlattenSeq
<1>9. Solves(d)
  BY <1>7
<1>. HIDE DEF d
<1>. DEFINE e == [m \in 0 .. n - 1 |-> d[m + 1]]
<1>10. e[0] \in S[0]
  BY <1>1, <1>6, <1>9
<1>11. \A m \in 1 .. n - 1 : e[m - 1] \in S[m - 1] => e[m] \in S[m]
  <2>1. SUFFICES ASSUME NEW m \in 1 .. n - 1, e[m - 1] \in S[m - 1] PROVE e[m] \in S[m]
    OBVIOUS
  <2>2. e[m] = d[m + 1] /\ e[m - 1] = d[m] /\ d[m + 1] = d[m] \o g[m + 1]
    <3>1. m \in 0 .. n - 1 /\ m - 1 \in 0 .. n - 1 /\ m + 1 \in 1 .. n /\ m + 1 # 1 /\ (m + 1) - 1 = m /\ (m - 1) + 1 = m
      BY <1>1
    <3>2. d[m + 1] = d[m] \o g[m + 1]
      BY <1>9, <3>1
    <3>3. QED
      BY <3>1, <3>2
  <2>3. QED
    BY <1>5, <2>1, <2>2
<1>12. d[n] \in S[n - 1]
  <2>. HIDE DEF e
  <2>1. \A m \in 0 .. n - 1 : e[m] \in S[m]
    BY <1>1, <1>10, <1>11, IterationStays
  <2>2. n - 1 \in 0 .. n - 1 /\ (n - 1) + 1 = n
    BY <1>1
  <2>3. QED
    BY <2>1, <2>2 DEF e
<1>13. d[n] \in Seq(T) /\ Len(d[n]) = o[n] /\ Holds(n, d[n])
  <2>1. n - 1 \in 0 .. n - 1 /\ (n - 1) + 1 = n
    BY <1>1
  <2>2. QED
    BY <1>2, <1>12, <2>1
<1>14. QED
  BY <1>8, <1>13 DEF Holds, Laid

\* The places where pieces end exist.
LEMMA OffsetsExist ==
  ASSUME NEW n \in Nat, NEW l \in [1 .. n -> Nat]
  PROVE  \E o \in [0 .. n -> Nat] : o[0] = 0 /\ \A i \in 1 .. n : o[i] = o[i - 1] + l[i]
<1>. DEFINE S == [k \in 0 .. n |-> Nat]
            F == [k \in 1 .. n |-> [m \in Nat |-> m + l[k]]]
<1>1. 0 \in 0 .. n /\ \A k \in 1 .. n : k \in 0 .. n /\ k - 1 \in 0 .. n
  OBVIOUS
<1>2. /\ \A k \in 0 .. n : S[k] = Nat
      /\ \A k \in 1 .. n : \A m \in Nat : F[k][m] = m + l[k] /\ m + l[k] \in Nat
  OBVIOUS
<1>. HIDE DEF S, F
<1>3. 0 \in S[0] /\ \A k \in 1 .. n : \A x \in S[k - 1] : F[k][x] \in S[k]
  <2>1. 0 \in S[0]
    BY <1>1, <1>2
  <2>2. ASSUME NEW k \in 1 .. n, NEW x \in S[k - 1] PROVE F[k][x] \in S[k]
    <3>1. S[k - 1] = Nat /\ S[k] = Nat
      BY <1>1, <1>2
    <3>2. x \in Nat
      BY <3>1
    <3>3. F[k][x] = x + l[k] /\ x + l[k] \in Nat
      BY <1>2, <3>2
    <3>4. QED
      BY <3>1, <3>3
  <2>3. QED
    BY <2>1, <2>2
<1>4. PICK o : Iterates(o, n, 0, F, S)
  BY <1>3, IterationExists
<1>5. /\ o = [k \in 0 .. n |-> o[k]] /\ o[0] = 0
      /\ \A k \in 1 .. n : o[k] = F[k][o[k - 1]]
      /\ \A k \in 0 .. n : o[k] \in S[k]
  BY <1>4, Zenon DEF Iterates
<1>6. \A k \in 0 .. n : o[k] \in Nat
  BY <1>2, <1>5
<1>7. o \in [0 .. n -> Nat]
  BY <1>5, <1>6
<1>8. \A i \in 1 .. n : o[i] = o[i - 1] + l[i]
  BY <1>1, <1>2, <1>5, <1>6
<1>9. QED
  BY <1>5, <1>7, <1>8

\* What is laid out of the same pieces is the same.
LEMMA LaidUnique ==
  ASSUME NEW T, NEW n, NEW g, NEW o, Pieces(g, o, n, T), NEW s, Laid(s, g, o, n, T), NEW t, Laid(t, g, o, n, T)
  PROVE  s = t
<1>1. /\ n \in Nat \ {0} /\ o \in [0 .. n -> Nat] /\ o[0] = 0 /\ \A i \in 1 .. n : o[i] = o[i - 1] + Len(g[i])
      /\ \A i \in 1 .. n : Len(g[i]) \in Nat
  BY DEF Pieces
<1>2. /\ s \in Seq(T) /\ Len(s) = o[n] /\ \A i \in 1 .. n : \A k \in 1 .. Len(g[i]) : s[o[i - 1] + k] = g[i][k]
      /\ t \in Seq(T) /\ Len(t) = o[n] /\ \A i \in 1 .. n : \A k \in 1 .. Len(g[i]) : t[o[i - 1] + k] = g[i][k]
  BY DEF Laid
<1>3. ASSUME NEW x \in 1 .. o[n] PROVE s[x] = t[x]
  <2>1. PICK j \in 1 .. n : o[j - 1] < x /\ x <= o[j]
    BY <1>1, BlockOf
  <2>2. o[j - 1] \in Nat /\ o[j] \in Nat /\ o[j] = o[j - 1] + Len(g[j]) /\ Len(g[j]) \in Nat /\ x \in Nat
    BY <1>1
  <2>. DEFINE a == o[j - 1]
              k == x - a
  <2>3. k \in 1 .. Len(g[j]) /\ a + k = x
    BY <2>1, <2>2
  <2>. HIDE DEF k
  <2>4. s[a + k] = g[j][k] /\ t[a + k] = g[j][k]
    BY <1>2, <2>3
  <2>5. QED
    BY <2>3, <2>4
<1>4. QED
  BY <1>2, <1>3, SeqEqual

\* One more piece at the end.
LEMMA FlattenAppend ==
  ASSUME NEW T, NEW g \in Seq(Seq(T)), NEW x \in Seq(T)
  PROVE  /\ FlattenSeq(g) \in Seq(T)
         /\ FlattenSeq(Append(g, x)) = FlattenSeq(g) \o x
<1>. DEFINE n == Len(g)
            h == Append(g, x)
            l == [i \in 1 .. n + 1 |-> Len(h[i])]
<1>1. /\ n \in Nat /\ h \in [1 .. n + 1 -> Seq(T)] /\ h[n + 1] = x /\ \A i \in 1 .. n : h[i] = g[i]
      /\ g \in [1 .. n -> Seq(T)] /\ g \in Seq(Seq(T))
  <2>1. /\ Append(g, x) \in Seq(Seq(T)) /\ Len(Append(g, x)) = Len(g) + 1 /\ Len(g) \in Nat
        /\ \A i \in 1 .. Len(g) : Append(g, x)[i] = g[i]
        /\ Append(g, x)[Len(g) + 1] = x
    BY AppendProperties
  <2>2. h \in Seq(Seq(T)) /\ Len(h) = n + 1
    BY <2>1
  <2>3. h \in [1 .. n + 1 -> Seq(T)] /\ g \in [1 .. n -> Seq(T)]
    <3>1. \A s \in Seq(Seq(T)) : s \in [1 .. Len(s) -> Seq(T)]
      OBVIOUS
    <3>. HIDE DEF h
    <3>2. QED
      BY <2>2, <3>1
  <2>4. QED
    BY <2>1, <2>3
<1>. HIDE DEF n, h
<1>2. l \in [1 .. n + 1 -> Nat] /\ \A i \in 1 .. n + 1 : l[i] = Len(h[i])
  BY <1>1
<1>. HIDE DEF l
<1>3. n + 1 \in Nat
  BY <1>1
<1>4. PICK o \in [0 .. n + 1 -> Nat] : o[0] = 0 /\ \A i \in 1 .. n + 1 : o[i] = o[i - 1] + l[i]
  BY <1>2, <1>3, OffsetsExist
<1>5. Pieces(h, o, n + 1, T)
  BY <1>1, <1>2, <1>4 DEF Pieces
<1>6. Laid(FlattenSeq(h), h, o, n + 1, T)
  BY <1>5, FlattenBlocks
<1>. DEFINE f == FlattenSeq(g)
            t == f \o x
<1>7. /\ f \in Seq(T) /\ Len(f) = o[n]
      /\ \A i \in 1 .. n : \A k \in 1 .. Len(g[i]) : f[o[i - 1] + k] = g[i][k]
  <2>1. CASE n = 0
    <3>1. f = <<>>
      BY <2>1, <1>1 DEF FlattenSeq, n
    <3>2. QED
      BY <1>4, <2>1, <3>1
  <2>2. CASE n # 0
    <3>. DEFINE p == [i \in 0 .. n |-> o[i]]
    <3>1. Pieces(g, p, n, T)
      <4>1. p \in [0 .. n -> Nat] /\ p[0] = 0 /\ n \in Nat \ {0}
        BY <1>1, <1>4, <2>2
      <4>2. \A i \in 1 .. n : p[i] = p[i - 1] + Len(g[i])
        <5>1. SUFFICES ASSUME NEW i \in 1 .. n PROVE p[i] = p[i - 1] + Len(g[i])
          OBVIOUS
        <5>2. i \in 0 .. n /\ i - 1 \in 0 .. n /\ i \in 1 .. n + 1
          BY <1>1
        <5>3. p[i] = o[i] /\ p[i - 1] = o[i - 1]
          BY <5>2
        <5>4. QED
          BY <1>1, <1>2, <1>4, <5>2, <5>3
      <4>3. QED
        BY <1>1, <4>1, <4>2 DEF Pieces
    <3>2. Laid(f, g, p, n, T)
      BY <3>1, FlattenBlocks
    <3>3. p[n] = o[n] /\ \A i \in 1 .. n : p[i - 1] = o[i - 1]
      BY <1>1
    <3>4. QED
      BY <3>2, <3>3 DEF Laid
  <2>3. QED
    BY <2>1, <2>2
<1>. HIDE DEF f
<1>8. /\ t \in Seq(T) /\ Len(t) = o[n] + Len(x) /\ \A i \in 1 .. o[n] : t[i] = f[i]
      /\ \A k \in 1 .. Len(x) : t[o[n] + k] = x[k]
  <2>1. t \in Seq(T) /\ Len(t) = Len(f) + Len(x)
    BY <1>7, ConcatProperties
  <2>2. \A i \in 1 .. Len(f) : t[i] = f[i]
    BY <1>7, ConcatPlaces
  <2>3. \A k \in 1 .. Len(x) : t[Len(f) + k] = x[k]
    BY <1>7, ConcatPlaces
  <2>4. QED
    BY <1>7, <2>1, <2>2, <2>3
<1>. HIDE DEF t
<1>9. o[n + 1] = o[n] + Len(x) /\ o[n] \in Nat
  <2>1. n + 1 \in 1 .. n + 1 /\ (n + 1) - 1 = n /\ n \in 0 .. n + 1
    BY <1>1
  <2>2. QED
    BY <1>1, <1>2, <1>4, <2>1
<1>10. ASSUME NEW i \in 1 .. n + 1, NEW k \in 1 .. Len(h[i]) PROVE t[o[i - 1] + k] = h[i][k]
  <2>1. CASE i = n + 1
    <3>1. i - 1 = n /\ h[i] = x
      BY <1>1, <2>1
    <3>2. QED
      BY <1>8, <3>1
  <2>2. CASE i # n + 1
    <3>1. i \in 1 .. n /\ h[i] = g[i]
      BY <1>1, <2>2
    <3>2. f[o[i - 1] + k] = g[i][k]
      BY <1>7, <3>1
    <3>3. o[i] = o[i - 1] + Len(g[i]) /\ o[i] <= o[n] /\ o[i - 1] \in Nat /\ o[i] \in Nat /\ Len(g[i]) \in Nat
      <4>1. i - 1 \in 0 .. n + 1 /\ i \in 0 .. n + 1 /\ n \in 0 .. n + 1 /\ i <= n
        BY <1>1, <3>1
      <4>2. o[i] <= o[n]
        BY <1>5, <4>1, PiecesGrow
      <4>3. o[i] = o[i - 1] + Len(g[i])
        BY <1>2, <1>4, <3>1
      <4>4. g[i] \in Seq(T)
        BY <1>1, <3>1
      <4>5. QED
        BY <4>1, <4>2, <4>3, <4>4
    <3>4. o[i - 1] + k \in 1 .. o[n]
      <4>1. k \in 1 .. Len(g[i])
        BY <3>1
      <4>. DEFINE a == o[i - 1]
                  b == o[i]
                  c == o[n]
                  m == Len(g[i])
      <4>2. a \in Nat /\ b \in Nat /\ c \in Nat /\ m \in Nat /\ b = a + m /\ b <= c /\ k \in 1 .. m
        BY <1>9, <3>3, <4>1
      <4>. HIDE DEF a, b, c, m
      <4>3. a + k \in 1 .. c
        BY <4>2
      <4>4. QED
        BY <4>3 DEF a, c
    <3>5. QED
      BY <1>8, <3>1, <3>2, <3>4
  <2>3. QED
    BY <2>1, <2>2
<1>11. Laid(t, h, o, n + 1, T)
  BY <1>8, <1>9, <1>10 DEF Laid
<1>12. FlattenSeq(h) = t
  BY <1>5, <1>6, <1>11, LaidUnique
<1>13. QED
  BY <1>7, <1>12 DEF f, t, h
=============================================================================
