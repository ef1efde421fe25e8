------------------------- MODULE MCTensorAllocator -------------------------
(* Slabs for TLC: neither size is a multiple of the alignments. *)
EXTENDS TensorAllocator

TwoSlabs == <<11, 7>>
=============================================================================
