-------------------------------- MODULE Queues --------------------------------
(***************************************************************************)
(* The circular lists of queue.c, seen as sequences.  QFIRST is Head,      *)
(* QLAST is the last element and qappend(QLAST(q), n) is Append.  qdelete  *)
(* takes a node out of whatever list it is on; the handlers that delete    *)
(* many nodes in a loop delete a set T of them here.                       *)
(*                                                                         *)
(* Without(q, T) is SelectSeq with the test "not in T".  It is written in  *)
(* closed form, because what the recursive SelectSeq computes is out of    *)
(* the reach of the proof system; MCLinkedQueue compares it with qdelete.  *)
(***************************************************************************)
EXTENDS Naturals, Sequences, FiniteSets, Functions

\* The positions of q that survive when the members of T are deleted.
Kept(q, T) == {i \in DOMAIN q : q[i] \notin T}

\* The place that position i has among the positions K.
Rank(i, K) == Cardinality({k \in K : k <= i})

\* qdelete() of every node of T: the rest of the queue, in the same order.
Without(q, T) ==
    LET K == Kept(q, T)
    IN  [n \in 1..Cardinality(K) |-> q[CHOOSE i \in K : Rank(i, K) = n]]

\* QLAST of a queue that is not empty.
LastOf(q) == q[Len(q)]

\* qdelete() of x wherever it is on q, then qappend() of it at the end.
MoveToEnd(q, x) == Append(Without(q, {x}), x)
================================================================================
