--------------------------------- MODULE Lists ---------------------------------
(***************************************************************************)
(* What queue.c promises: a number of lists, each a sequence of nodes, and *)
(* each node on at most one of them.  This is the view of the lists that   *)
(* module Switchboard takes.                                               *)
(***************************************************************************)
EXTENDS Queues

CONSTANTS Header, Node

VARIABLE lists

\* The nodes that are on no list.
Loose == Node \ UNION {Range(lists[h]) : h \in Header}

Init == lists = [h \in Header |-> <<>>]

\* A node that is on no list becomes the last, or the first, of a list.
AddLast(h, n) == n \in Loose /\ lists' = [lists EXCEPT ![h] = Append(@, n)]
AddFirst(h, n) == n \in Loose /\ lists' = [lists EXCEPT ![h] = <<n>> \o @]

\* A node leaves whatever list it is on, if it is on one.
Delete(n) == lists' = [h \in Header |-> Without(lists[h], {n})]

Next ==
    \E n \in Node : Delete(n) \/ \E h \in Header : AddLast(h, n) \/ AddFirst(h, n)

Spec == Init /\ [][Next]_lists
================================================================================
