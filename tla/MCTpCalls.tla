------------------------------- MODULE MCTpCalls -------------------------------
(***************************************************************************)
(* Small instances of the programs around the switchboard.  Liveness is    *)
(* checked without symmetry.                                               *)
(***************************************************************************)
EXTENDS TpCalls

\* Every worker has all the services.
MCRepertoire == [c \in Workers |-> Service]
================================================================================
