------------------------------ MODULE TileSpec ------------------------------
(***************************************************************************)
(* What the tile promises its host: a run is one multiply of the stored    *)
(* signs with the stored activations, added to the accumulators, computed  *)
(* as if in one step from the operands present at START, and readable when *)
(* the chip says it is done.  Nothing the host sends while the chip is     *)
(* busy, CLEAR excepted, has an effect.                                    *)
(***************************************************************************)
EXTENDS TileArith

VARIABLES weights, acts, acc, busy, done

vars == <<weights, acts, acc, busy, done>>

Init == /\ weights = [r \in Row |-> [c \in Col |-> 0]]
        /\ acts = [c \in Col |-> 0]
        /\ acc = [r \in Row |-> 0]
        /\ busy = FALSE /\ done = FALSE

WriteWeights(r, bits) == /\ ~busy
                         /\ weights' = [weights EXCEPT ![r] = bits]
                         /\ UNCHANGED <<acts, acc, busy, done>>

WriteAct(c, a) == /\ ~busy
                  /\ acts' = [acts EXCEPT ![c] = a]
                  /\ UNCHANGED <<weights, acc, busy, done>>

\* a byte of one accumulator: the other byte keeps its value
WriteSeed(r, v) == /\ ~busy
                   /\ \/ v \div BYTE = acc[r] \div BYTE
                      \/ v % BYTE = acc[r] % BYTE
                   /\ acc' = [acc EXCEPT ![r] = v]
                   /\ UNCHANGED <<weights, acts, busy, done>>

Run == /\ ~busy
       /\ acc' = [r \in Row |-> RunResult(weights[r], acts, acc[r])]
       /\ busy' = TRUE /\ done' = FALSE
       /\ UNCHANGED <<weights, acts>>

Finish == /\ busy
          /\ busy' = FALSE /\ done' = TRUE
          /\ UNCHANGED <<weights, acts, acc>>

Clear == /\ acts' = [c \in Col |-> 0]
         /\ acc' = [r \in Row |-> 0]
         /\ busy' = FALSE /\ done' = FALSE
         /\ UNCHANGED weights

Reset == /\ weights' = [r \in Row |-> [c \in Col |-> 0]]
         /\ acts' = [c \in Col |-> 0]
         /\ acc' = [r \in Row |-> 0]
         /\ busy' = FALSE /\ done' = FALSE

Next == \/ \E r \in Row, bits \in [Col -> {0, 1}] : WriteWeights(r, bits)
        \/ \E c \in Col, a \in Act : WriteAct(c, a)
        \/ \E r \in Row, v \in Psum : WriteSeed(r, v)
        \/ Run
        \/ Finish
        \/ Clear
        \/ Reset

Spec == Init /\ [][Next]_vars
=============================================================================
