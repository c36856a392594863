---------------------------- MODULE MCSwitchboard ----------------------------
(***************************************************************************)
(* Small instances of the switchboard for TLC.                             *)
(***************************************************************************)
EXTENDS SwitchboardCalls, TLC

\* Transactions are only compared, so their names may be permuted.
TranSymmetry == Permutations(Tran)
================================================================================
