---------------------------- MODULE MCLinkedQueue ----------------------------
(***************************************************************************)
(* A small instance of the linked lists for TLC.                           *)
(***************************************************************************)
EXTENDS LinkedQueue
================================================================================
