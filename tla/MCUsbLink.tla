----------------------------- MODULE MCUsbLink -----------------------------
(* Plans for TLC: a tile, a run of 25 tiles (two packets out, four bytes    *)
(* back), and 25 standalone tiles (two packets each way).                   *)
EXTENDS UsbLink

CONSTANTS w1, w2

OneTile == <<TRUE>>
LongRun == [i \in 1 .. 25 |-> i = 25]
Singles == [i \in 1 .. 25 |-> TRUE]

\* 192 reply bytes, as many as a 128-byte FIFO and a packet hold.
Fill    == [i \in 1 .. 48 |-> TRUE]

AllPlans    == {OneTile, LongRun, Singles, Fill}
SharedPlans == {OneTile, Singles}

Alone       == {{w1}}
Pair        == {{w1, w2}}
AloneOrPair == {{w1}, {w1, w2}}
=============================================================================
