------------------------------- MODULE PsSpec -------------------------------
(***************************************************************************)
(* What a client sees of the ARM's kernels: an op that succeeds replaces   *)
(* its result by what the op means and changes nothing else; one that      *)
(* fails may have changed bytes of the tensor its result is in, and        *)
(* nothing else.                                                           *)
(***************************************************************************)
EXTENDS PsOps

CONSTANT Ops

VARIABLES tensors,   \* <<tensor, offset>> -> cell
          done       \* the last op and its code

Succeed(op) ==
  /\ done' = [op |-> op, code |-> "ok"]
  /\ tensors' = Expected(tensors, op)

Fail(op, code) ==
  /\ done' = [op |-> op, code |-> code] /\ code # "ok"
  /\ DOMAIN tensors' = DOMAIN tensors
  /\ \A p \in DOMAIN tensors : p[1] # op.dst.t => tensors'[p] = tensors[p]

Next == \E op \in Ops : Succeed(op) \/ Fail(op, done'.code)

Spec == [][Next]_<<tensors, done>>
=============================================================================
