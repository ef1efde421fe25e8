----------------------------- MODULE MCTpuTile -----------------------------
(* The tile for TLC. *)
EXTENDS TpuTile
=============================================================================
