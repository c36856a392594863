------------------------------ MODULE MCTpMemory ------------------------------
(***************************************************************************)
(* A small instance of the typed buffers for TLC.                          *)
(***************************************************************************)
EXTENDS TpMemory
================================================================================
