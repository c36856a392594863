-------------------------------- MODULE MCWire --------------------------------
(***************************************************************************)
(* Small instances of the connections for TLC: names, shorts and longs are *)
(* as short as they can be and still be of different lengths.              *)
(***************************************************************************)
EXTENDS Wire
================================================================================
