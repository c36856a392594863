----------------------------- MODULE MCDescriptors -----------------------------
(***************************************************************************)
(* Small instances of the cds for TLC: bytes have two bits, so shorts go   *)
(* from -8 to 7.                                                           *)
(***************************************************************************)
EXTENDS Descriptors, TLC

\* Some shorts: no cd, the extremes, and the two next to 0.
MCShort == {-8, -1, 0, 1, 7}

\* Transactions are only compared, so their names may be permuted.
TranSymmetry == Permutations(Tran)
================================================================================
