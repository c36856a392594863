------------------------------ MODULE LinkedQueue ------------------------------
(***************************************************************************)
(* The doubly-linked circular lists of queue.h and queue.c, pointer by     *)
(* pointer.  A QUEUE is the header of a list or the link inside an object; *)
(* either has the two pointers p1 (the previous one) and p2 (the next).    *)
(*                                                                         *)
(* The handlers of the switchboard add a link only after QINIT or qdelete  *)
(* of it, and qdelete one whether it is on a list or not: del_transaction  *)
(* takes a transaction off the wait queue it may never have been on.       *)
(***************************************************************************)
EXTENDS Queues

CONSTANTS Header, Node

Queue == Header \cup Node

ASSUME QueueAssumption == IsFiniteSet(Queue) /\ Header \cap Node = {}

VARIABLES p1, p2

vars == <<p1, p2>>

\* QINIT of every header and every link.
Init ==
    /\ p1 = [x \in Queue |-> x]
    /\ p2 = [x \in Queue |-> x]

QISEMPTY(q) == p1[q] = q
QFIRST(q) == p2[q]
QLAST(q) == p1[q]

\* Mutants: newnode goes in before node; the neighbour's pointer back is not set.
qappend_before(node, new) ==
    /\ p2' = [p2 EXCEPT ![new] = node, ![p1[node]] = new]
    /\ p1' = [p1 EXCEPT ![new] = p1[node], ![node] = new]
qappend_oneway(node, new) ==
    /\ p1' = [p1 EXCEPT ![new] = node]
    /\ p2' = [p2 EXCEPT ![new] = p2[node], ![node] = new]

\* newnode goes in after node.
qappend(node, new) ==
    /\ p1' = [p1 EXCEPT ![new] = node, ![p2[node]] = new]
    /\ p2' = [p2 EXCEPT ![new] = p2[node], ![node] = new]

\* newnode goes in before node.
qprepend(node, new) ==
    /\ p2' = [p2 EXCEPT ![new] = node, ![p1[node]] = new]
    /\ p1' = [p1 EXCEPT ![new] = p1[node], ![node] = new]

\* Mutant: the link keeps its old neighbours.
qdelete_unlinked(node) ==
    /\ p2' = [p2 EXCEPT ![p1[node]] = p2[node]]
    /\ p1' = [p1 EXCEPT ![p2[node]] = p1[node]]

\* The neighbours of node meet, and node is a list of its own.
qdelete(node) ==
    /\ p2' = [p2 EXCEPT ![p1[node]] = p2[node], ![node] = node]
    /\ p1' = [p1 EXCEPT ![p2[node]] = p1[node], ![node] = node]

\* The callers: qappend(QLAST(q), n) and qprepend(QFIRST(q), n) of a link that is
\* on no list, qdelete(n) of any.
append(h, n) == QISEMPTY(n) /\ qappend(QLAST(h), n)
prepend(h, n) == QISEMPTY(n) /\ qprepend(QFIRST(h), n)

Next ==
    \E n \in Node : qdelete(n) \/ \E h \in Header : append(h, n) \/ prepend(h, n)

Spec == Init /\ [][Next]_vars

--------------------------------------------------------------------------------
\* Every pointer is to a header or a link.
TypeOK == p1 \in [Queue -> Queue] /\ p2 \in [Queue -> Queue]

\* The next of the previous and the previous of the next of a link are the link:
\* the lists are circles, and no two of them meet.
Circular == \A x \in Queue : p2[p1[x]] = x /\ p1[p2[x]] = x

\* The traversal of queue.h: for (p = QFIRST(q); p != &q; p = QNEXT(p)), along
\* the pointers p, for as many steps as there are links.  Visited is where p is in
\* each step; at the header it stays there.
Visited(p, h) ==
    LET at[i \in 1 .. Cardinality(Node) + 1] ==
            IF i = 1 THEN p[h] ELSE IF at[i-1] = h THEN h ELSE p[at[i-1]]
    IN  at
Walk(p, h) ==
    LET at == Visited(p, h)
        length == CHOOSE i \in 0 .. Cardinality(Node) :
                      /\ \A j \in 1..i : at[j] # h
                      /\ i = Cardinality(Node) \/ at[i+1] = h
    IN  [i \in 1..length |-> at[i]]

\* What the lists hold, as QFIRST and QNEXT give it.
Held == [h \in Header |-> Walk(p2, h)]

\* The pointers are a number of lists: every step of queue.c is the step of
\* module Lists that it stands for.
L == INSTANCE Lists WITH lists <- Held
ImplementsLists == L!Spec

\* Both directions agree: QLAST and QPREV give the list that QFIRST and QNEXT
\* give, the other way round.
SameBackwards ==
    \A h \in Header :
        LET s == Walk(p2, h)
        IN  Walk(p1, h) = [i \in 1..Len(s) |-> s[Len(s) - i + 1]]

--------------------------------------------------------------------------------
(* The pointers prev and next hold the lists l.                             *)

\* The circle of list h that holds s: entry 0 is the header, and so is the one after
\* the last link.
Entry(h, s, i) == IF i \in 1..Len(s) THEN s[i] ELSE h

\* The pointers go round the circle, in both directions.
Holds(prev, next, h, s) ==
    \A i \in 0..Len(s) :
        next[Entry(h, s, i)] = Entry(h, s, i+1) /\ prev[Entry(h, s, i+1)] = Entry(h, s, i)

\* No link is on two lists, or twice on one.
Disjoint(l) ==
    \A g, h \in Header : \A i \in 1..Len(l[g]), j \in 1..Len(l[h]) :
        l[g][i] = l[h][j] => g = h /\ i = j

Represents(prev, next, l) ==
    /\ l \in [Header -> Seq(Node)] /\ Disjoint(l)
    /\ \A h \in Header : Holds(prev, next, h, l[h])
    /\ \A n \in Node :
          (\A h \in Header : n \notin Range(l[h])) => prev[n] = n /\ next[n] = n

\* Every link is either on one list, which it can be reached on in both directions, or
\* a circle of its own: QISEMPTY of a link says that it is on none, and qdelete may be
\* called again.  This is the inductive invariant behind Circular, SameBackwards and
\* ImplementsLists.
WellLinked == Represents(p1, p2, Held)
================================================================================
