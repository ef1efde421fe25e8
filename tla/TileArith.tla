----------------------------- MODULE TileArith -----------------------------
(* The tile's arithmetic, shared by the chip, its specification and the    *)
(* host code that prepares its operands and reads its results back.        *)
EXTENDS Integers, FiniteSetsExt

CONSTANTS ROWS,   \* rows of the array: outputs computed by one run
          COLS,   \* columns of the array: products summed by one run
          BYTE    \* number of values of a bus byte (256)

ASSUME TileAssumption == /\ ROWS \in Nat \ {0}
                         /\ COLS \in Nat \ {0}
                         /\ BYTE \in Nat /\ BYTE > 1

Row  == 0 .. ROWS - 1
Col  == 0 .. COLS - 1

PsumBytes == 2

\* 2^(selector width): the smallest power of two, at least 2, that is >= n
SelSpan(n) == LET Pow == {2^k : k \in 1 .. n}
              IN  CHOOSE p \in Pow : p >= n /\ \A q \in Pow : q >= n => p <= q

Bit  == {0, 1}
Byte == 0 .. BYTE - 1
Act  == -(BYTE \div 2) .. (BYTE \div 2) - 1
Psum == 0 .. BYTE * BYTE - 1        \* two's complement, as an unsigned value

\* The one-bit weight selects +act or -act; ACT_WIDTH+1 bits hold both.
Contrib(w, a) == IF w = 1 THEN a ELSE -a

AddPsum(p, x) == (p + x) % (BYTE * BYTE)

SetByte_unmasked(v, b, x) == IF b = 0 THEN v + x ELSE (x * BYTE) + v

\* v with byte b (0 low, 1 high) replaced by x, and byte b of v
SetByte(v, b, x) == IF b = 0 THEN ((v \div BYTE) * BYTE) + x
                             ELSE (x * BYTE) + (v % BYTE)
GetByte(v, b)    == IF b = 0 THEN v % BYTE ELSE v \div BYTE

\* What a run over weights w and activations a makes of a seed: the reference
\* the hardware is checked against.  DotUpto has the sums over the first columns.
DotUpto(w, a) ==
  LET dot[n \in 0 .. COLS] ==
        IF n = 0 THEN 0 ELSE dot[n - 1] + (IF w[n - 1] = 1 THEN a[n - 1] ELSE -a[n - 1])
  IN  dot
RowDot(w, a) == DotUpto(w, a)[COLS]
RunResult(w, a, seed) == (seed + RowDot(w, a)) % (BYTE * BYTE)
=============================================================================
