-------------------------- MODULE MCBitstreamFlash --------------------------
(* Files for TLC: a part of a page, more than a sector, the whole region,    *)
(* and an empty one.  The header page pushes the end                         *)
(* of the second into one more sector than its own length needs.             *)
EXTENDS BitstreamFlash

Numbered(n, from) == [i \in 1 .. n |-> from + i]

Files    == {<<>>, Numbered(1, 10), Numbered(7, 20), Numbered(10, 30)}

OneFault == {{}, {"cut"}, {"torn"}}
Dying    == {{"cut"}}
=============================================================================
