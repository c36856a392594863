--------------------------- MODULE LinkedQueueProofs ---------------------------
(***************************************************************************)
(* The pointers of queue.c are lists, whatever the number of lists and     *)
(* links: they stay circular, each link is on one list or a circle of its  *)
(* own, both directions agree, and every step is the step of module Lists  *)
(* that it stands for.                                                     *)
(*                                                                         *)
(* The lemmas are about pointers prev and next and lists l with            *)
(* Represents(prev, next, l): what the traversal gives then (WalksAre),    *)
(* and what becomes of l when a link is put in (Inserted) or taken out     *)
(* (Deleted).  The traversal is a recursive function.  That it visits the  *)
(* links in their order is shown by the smallest step in which it would    *)
(* not (VisitedIs).                                                        *)
(***************************************************************************)
EXTENDS LinkedQueue, FiniteSetTheorems, TLAPS

\* qappend, qprepend and qdelete keep every pointer on a QUEUE, and keep p1 and
\* p2 inverse to each other, when the links added are circles of their own.
THEOREM AlwaysCircular == Spec => [](TypeOK /\ Circular)
<1>1. Init => TypeOK /\ Circular
  BY DEF Init, TypeOK, Circular
<1>2. TypeOK /\ Circular /\ [Next]_vars => TypeOK' /\ Circular'
  <2> SUFFICES ASSUME TypeOK, Circular, [Next]_vars
               PROVE  TypeOK' /\ Circular'
    OBVIOUS
  <2> USE DEF TypeOK
  <2>1. CASE UNCHANGED vars
    BY <2>1 DEF vars, Circular
  <2>2. ASSUME NEW n \in Node, qdelete(n)
        PROVE  TypeOK' /\ Circular'
    <3>1. n \in Queue
      BY DEF Queue
    <3>2. TypeOK'
      BY <2>2, <3>1 DEF qdelete
    <3>3. Circular'
      BY <2>2, <3>1 DEF qdelete, Circular
    <3> QED BY <3>2, <3>3
  <2>3. ASSUME NEW n \in Node, NEW h \in Header, append(h, n)
        PROVE  TypeOK' /\ Circular'
    <3>1. n \in Queue /\ h \in Queue /\ p1[h] \in Queue /\ h # n
      BY QueueAssumption DEF Queue
    <3>2. TypeOK'
      BY <2>3, <3>1 DEF append, qappend, QLAST
    <3>3. Circular'
      BY <2>3, <3>1, ZenonT(40), SMTT(40) DEF append, qappend, QLAST, QISEMPTY, Circular
    <3> QED BY <3>2, <3>3
  <2>4. ASSUME NEW n \in Node, NEW h \in Header, prepend(h, n)
        PROVE  TypeOK' /\ Circular'
    <3>1. n \in Queue /\ h \in Queue /\ p2[h] \in Queue /\ h # n
      BY QueueAssumption DEF Queue
    <3>2. TypeOK'
      BY <2>4, <3>1 DEF prepend, qprepend, QFIRST
    <3>3. Circular'
      BY <2>4, <3>1 DEF prepend, qprepend, QFIRST, QISEMPTY, Circular
    <3> QED BY <3>2, <3>3
  <2> QED
    BY <2>1, <2>2, <2>3, <2>4, ZenonT(40), SMTT(40) DEF Next
<1> QED
  BY <1>1, <1>2, PTL DEF Spec

USE Zenon, SMTT(20)

\* A set of natural numbers that is not empty has a smallest member.
LEMMA Smallest ==
    ASSUME NEW A, A \subseteq Nat, A # {}
    PROVE  \E x \in A : \A y \in A : x <= y
<1>1. PICK x \in A : \A y \in A : ~(<<y, x>> \in OpToRel(<, Nat))
  BY NatLessThanWellFounded, WFMin, ZenonT(40)
<1>2. \A y \in A : ~(y < x)
  BY <1>1, ZenonT(40) DEF OpToRel
<1> QED
  BY <1>2, SMTT(20)

\* A sequence of links that holds no link twice is no longer than there are links.
LEMMA NoLonger ==
    ASSUME NEW s \in Seq(Node), \A i, j \in 1..Len(s) : s[i] = s[j] => i = j
    PROVE  Len(s) \in Nat /\ Cardinality(Node) \in Nat /\ Len(s) <= Cardinality(Node)
<1>1. Len(s) \in Nat /\ s \in [1..Len(s) -> Node]
  BY SMTT(20)
<1>2. IsFiniteSet(Node)
  BY QueueAssumption, FS_Subset DEF Queue
<1>3. IsFiniteSet(1..Len(s)) /\ Cardinality(1..Len(s)) = Len(s)
  BY <1>1, FS_Interval, SMTT(20)
<1>4. s \in Injection(1..Len(s), Node)
  BY <1>1 DEF Injection, IsInjective
<1> QED
  BY <1>1, <1>2, <1>3, <1>4, FS_Injection, FS_CardinalityType, SMTT(20)

\* What Visited is: the traversal is at the links of s, one after the other, and then
\* at the header.
LEMMA VisitedIs ==
    ASSUME NEW p \in [Queue -> Queue], NEW h \in Header, NEW s \in Seq(Node), NEW N \in Nat,
           N = Cardinality(Node), Len(s) <= N,
           \A i \in 0..Len(s) : p[Entry(h, s, i)] = Entry(h, s, i+1)
    PROVE  \A i \in 1..N+1 : Visited(p, h)[i] = Entry(h, s, i)
<1> DEFINE Body(f) == [i \in 1..N+1 |->
                         IF i = 1 THEN p[h] ELSE IF f[i-1] = h THEN h ELSE p[f[i-1]]]
           g == [i \in 1..N+1 |-> Entry(h, s, i)]
           v == Visited(p, h)
<1>0. Len(s) \in Nat /\ \A i \in 1..Len(s) : s[i] \in Node /\ s[i] # h
  BY QueueAssumption, SMTT(20)
<1>1. g = Body(g)
  <2> SUFFICES ASSUME NEW i \in 1..N+1
               PROVE  Entry(h, s, i) = IF i = 1 THEN p[h]
                                       ELSE IF Entry(h, s, i-1) = h THEN h
                                       ELSE p[Entry(h, s, i-1)]
    <3>1. \A i \in 1..N+1 : i # 1 => i-1 \in 1..N+1
      BY SMTT(20)
    <3> QED BY <3>1
  <2>1. CASE i = 1
    BY <2>1, <1>0, SMTT(20) DEF Entry
  <2>2. CASE i # 1 /\ i - 1 <= Len(s)
    <3>1. i-1 \in 1..Len(s) /\ i-1 \in 0..Len(s) /\ (i-1)+1 = i
      BY <2>2, <1>0, SMTT(20)
    <3> QED
      BY <3>1, <2>2, <1>0 DEF Entry
  <2>3. CASE i # 1 /\ ~(i - 1 <= Len(s))
    BY <2>3, <1>0, SMTT(20) DEF Entry
  <2> QED BY <2>1, <2>2, <2>3
<1>2. v = CHOOSE f : f = Body(f)
  BY DEF Visited
<1>3. v = Body(v)
  <2> HIDE DEF g, v, Body
  <2> QED BY <1>1, <1>2
<1>4. /\ v[1] = g[1]
      /\ \A i \in 1..N+1 : i # 1 /\ v[i-1] = g[i-1] => v[i] = g[i]
  <2> HIDE DEF g, v
  <2>1. \A i \in 1..N+1 : i # 1 => i-1 \in 1..N+1
    BY SMTT(20)
  <2>2. 1 \in 1..N+1
    BY SMTT(20)
  <2>3. \A i \in 1..N+1 :
           /\ v[i] = IF i = 1 THEN p[h] ELSE IF v[i-1] = h THEN h ELSE p[v[i-1]]
           /\ g[i] = IF i = 1 THEN p[h] ELSE IF g[i-1] = h THEN h ELSE p[g[i-1]]
    BY <1>1, <1>3, Zenon
  <2> QED
    BY <2>1, <2>2, <2>3, SMTT(20)
<1> DEFINE Wrong == {i \in 1..N+1 : v[i] # g[i]}
<1>5. Wrong = {}
  <2> SUFFICES ASSUME Wrong # {} PROVE FALSE
    OBVIOUS
  <2>1. Wrong \subseteq Nat
    BY SMTT(20)
  <2>2. PICK x \in Wrong : \A y \in Wrong : x <= y
    <3> HIDE DEF Wrong
    <3> QED BY <2>1, Smallest
  <2>3. x \in 1..N+1 /\ v[x] # g[x]
    OBVIOUS
  <2>4. x # 1
    BY <2>3, <1>4
  <2>5. x-1 \in 1..N+1 /\ ~(x <= x-1)
    BY <2>3, <2>4, SMTT(20)
  <2>6. v[x-1] = g[x-1]
    BY <2>2, <2>5
  <2> QED
    BY <2>3, <2>4, <2>6, <1>4
<1> QED
  BY <1>5

\* The traversal of a list that holds s gives s.
LEMMA WalkIs ==
    ASSUME NEW p \in [Queue -> Queue], NEW h \in Header, NEW s \in Seq(Node),
           \A i, j \in 1..Len(s) : s[i] = s[j] => i = j,
           \A i \in 0..Len(s) : p[Entry(h, s, i)] = Entry(h, s, i+1)
    PROVE  Walk(p, h) = s
<1>0. PICK N \in Nat : N = Cardinality(Node)
  BY NoLonger
<1>1. Len(s) \in Nat /\ Len(s) <= N /\ \A i \in 1..Len(s) : s[i] # h
  BY <1>0, NoLonger, QueueAssumption, SMTT(20)
<1>2. PICK v : v = Visited(p, h)
  OBVIOUS
<1>3. \A i \in 1..N+1 : v[i] = Entry(h, s, i)
  BY <1>0, <1>1, <1>2, VisitedIs
<1> DEFINE Ends(i) == (\A j \in 1..i : v[j] # h) /\ (i = N \/ v[i+1] = h)
<1>4. Len(s) \in 0..N /\ Ends(Len(s))
  BY <1>1, <1>3, SMTT(20) DEF Entry
<1>5. \A i \in 0..N : Ends(i) => i = Len(s)
  <2> SUFFICES ASSUME NEW i \in 0..N, Ends(i), i # Len(s) PROVE FALSE
    OBVIOUS
  <2>1. CASE i < Len(s)
    <3>1. i+1 \in 1..N+1 /\ i+1 \in 1..Len(s) /\ i # N
      BY <1>1, <2>1, SMTT(20)
    <3> QED BY <3>1, <1>1, <1>3 DEF Entry
  <2>2. CASE i > Len(s)
    <3>1. Len(s)+1 \in 1..i /\ Len(s)+1 \in 1..N+1 /\ Len(s)+1 \notin 1..Len(s)
      BY <1>1, <2>2, SMTT(20)
    <3> QED BY <3>1, <1>3 DEF Entry
  <2> QED BY <2>1, <2>2, <1>1, SMTT(20)
<1> DEFINE length == CHOOSE i \in 0 .. Cardinality(Node) :
                         /\ \A j \in 1..i : Visited(p, h)[j] # h
                         /\ i = Cardinality(Node) \/ Visited(p, h)[i+1] = h
<1>6. length = Len(s)
  <2>1. length \in 0..N /\ Ends(length)
    BY <1>0, <1>2, <1>4
  <2> HIDE DEF Ends, length
  <2> QED BY <2>1, <1>5
<1>7. Walk(p, h) = [i \in 1..length |-> Visited(p, h)[i]]
  BY Zenon DEF Walk
<1>8. \A i \in 1..Len(s) : v[i] = s[i]
  BY <1>1, <1>3, SMTT(20) DEF Entry
<1> QED
  <2> HIDE DEF length
  <2> QED BY <1>2, <1>6, <1>7, <1>8, SMTT(20)

\* The entries of the lists are headers and links; two that are the same are the same
\* entry of the same list, or the header of that list.
LEMMA EntryFacts ==
    ASSUME NEW l \in [Header -> Seq(Node)], Disjoint(l)
    PROVE  /\ \A h \in Header : Len(l[h]) \in Nat
           /\ \A h \in Header, i \in Nat : Entry(h, l[h], i) \in Queue
           /\ \A h \in Header, i \in Nat :
                 i \notin 1..Len(l[h]) => Entry(h, l[h], i) = h
           /\ \A h \in Header, i \in Nat :
                 i \in 1..Len(l[h]) => Entry(h, l[h], i) = l[h][i] /\ l[h][i] \in Node
           /\ \A g, h \in Header : \A i, j \in Nat :
                 Entry(g, l[g], i) = Entry(h, l[h], j) =>
                    /\ g = h
                    /\ i = j \/ (i \notin 1..Len(l[g]) /\ j \notin 1..Len(l[h]))
<1>1. \A h \in Header : l[h] \in Seq(Node) /\ Len(l[h]) \in Nat
  BY SMTT(20)
<1>2. \A h \in Header : \A i \in 1..Len(l[h]) : l[h][i] \in Node
  BY <1>1, SMTT(20)
<1>3. \A h \in Header, i \in Nat :
         /\ i \notin 1..Len(l[h]) => Entry(h, l[h], i) = h
         /\ i \in 1..Len(l[h]) => Entry(h, l[h], i) = l[h][i] /\ l[h][i] \in Node
  BY <1>2 DEF Entry
<1>4. \A h \in Header, i \in Nat : Entry(h, l[h], i) \in Queue
  BY <1>3 DEF Queue
<1>5. ASSUME NEW g \in Header, NEW h \in Header, NEW i \in Nat, NEW j \in Nat,
             Entry(g, l[g], i) = Entry(h, l[h], j)
      PROVE  g = h /\ (i = j \/ (i \notin 1..Len(l[g]) /\ j \notin 1..Len(l[h])))
  <2>1. \A x \in Header : x \notin Node
    BY QueueAssumption
  <2>2. CASE i \in 1..Len(l[g]) /\ j \in 1..Len(l[h])
    BY <2>2, <1>3, <1>5, SMTT(20) DEF Disjoint
  <2>3. CASE i \notin 1..Len(l[g]) /\ j \notin 1..Len(l[h])
    BY <2>3, <1>3, <1>5
  <2>4. CASE i \in 1..Len(l[g]) /\ j \notin 1..Len(l[h])
    BY <2>1, <2>4, <1>3, <1>5, SMTT(20)
  <2>5. CASE i \notin 1..Len(l[g]) /\ j \in 1..Len(l[h])
    BY <2>1, <2>5, <1>3, <1>5, SMTT(20)
  <2> QED BY <2>2, <2>3, <2>4, <2>5
<1> QED
  BY <1>1, <1>3, <1>4, <1>5

\* When the pointers hold lists, these are what the traversal gives, forwards and
\* backwards.
LEMMA WalksAre ==
    ASSUME NEW prev \in [Queue -> Queue], NEW next \in [Queue -> Queue], NEW l,
           Represents(prev, next, l), NEW h \in Header
    PROVE  Walk(next, h) = l[h] /\ Walk(prev, h) = [i \in 1..Len(l[h]) |-> l[h][Len(l[h]) - i + 1]]
<1>1. PICK s \in Seq(Node) : s = l[h]
  BY DEF Represents
<1>2. Len(s) \in Nat /\ \A i, j \in 1..Len(s) : s[i] = s[j] => i = j
  BY <1>1, SMTT(20) DEF Represents, Disjoint
<1>3. \A i \in 0..Len(s) : /\ next[Entry(h, s, i)] = Entry(h, s, i+1)
                           /\ prev[Entry(h, s, i+1)] = Entry(h, s, i)
  BY <1>1 DEF Represents, Holds
<1>4. Walk(next, h) = s
  BY <1>2, <1>3, WalkIs
<1>5. PICK r : r = [i \in 1..Len(s) |-> s[Len(s) - i + 1]]
  BY Zenon
<1>6. /\ r \in Seq(Node) /\ Len(r) = Len(s)
      /\ \A i \in 1..Len(s) : r[i] = s[Len(s) - i + 1] /\ Len(s) - i + 1 \in 1..Len(s)
  BY <1>2, <1>5, SMTT(20)
<1>7. \A i, j \in 1..Len(r) : r[i] = r[j] => i = j
  <2> SUFFICES ASSUME NEW i \in 1..Len(s), NEW j \in 1..Len(s), r[i] = r[j] PROVE i = j
    BY <1>6
  <2>1. Len(s) - i + 1 = Len(s) - j + 1
    BY <1>2, <1>6
  <2> QED BY <1>2, <2>1, SMTT(20)
<1>8. \A i \in 0..Len(s)+1 : Entry(h, r, i) = Entry(h, s, Len(s) - i + 1)
  BY <1>2, <1>6, SMTT(20) DEF Entry
<1>9. \A i \in 0..Len(r) : prev[Entry(h, r, i)] = Entry(h, r, i+1)
  <2> SUFFICES ASSUME NEW i \in 0..Len(s)
               PROVE  prev[Entry(h, r, i)] = Entry(h, r, i+1)
    BY <1>6
  <2>0. Len(s) - i \in 0..Len(s)
    BY <1>2, SMTT(20)
  <2>1. PICK j \in 0..Len(s) : j = Len(s) - i
    BY <2>0, Zenon
  <2>2. Len(s) - i + 1 = j+1 /\ Len(s) - (i+1) + 1 = j /\ i \in 0..Len(s)+1 /\ i+1 \in 0..Len(s)+1
    BY <1>2, <2>1, SMTT(20)
  <2>3. Entry(h, r, i) = Entry(h, s, j+1) /\ Entry(h, r, i+1) = Entry(h, s, j)
    BY <2>2, <1>8
  <2> QED
    BY <2>3, <1>3
<1>10. Walk(prev, h) = r
  BY <1>6, <1>7, <1>9, WalkIs
<1> QED
  BY <1>1, <1>4, <1>5, <1>10

\* A link that is a circle of its own is on no list.
LEMMA EmptyIsLoose ==
    ASSUME NEW prev \in [Queue -> Queue], NEW next \in [Queue -> Queue], NEW l,
           Represents(prev, next, l), NEW n \in Node, prev[n] = n
    PROVE  \A h \in Header : \A i \in 1..Len(l[h]) : l[h][i] # n
<1> SUFFICES ASSUME NEW h \in Header, NEW i \in 1..Len(l[h]), l[h][i] = n
             PROVE  FALSE
  OBVIOUS
<1>0. l \in [Header -> Seq(Node)] /\ Disjoint(l) /\ Holds(prev, next, h, l[h])
  BY DEF Represents
<1>1. Len(l[h]) \in Nat
  BY <1>0, SMTT(20)
<1>2. i \in Nat /\ i-1 \in Nat /\ i-1 \in 0..Len(l[h]) /\ (i-1)+1 = i /\ i-1 # i
  BY <1>1, SMTT(20)
<1>3. Entry(h, l[h], i) = n
  BY DEF Entry
<1>4. Entry(h, l[h], i-1) = Entry(h, l[h], i)
  BY <1>0, <1>2, <1>3 DEF Holds
<1>5. i-1 = i \/ i \notin 1..Len(l[h])
  BY <1>0, <1>2, <1>4, EntryFacts, SMTT(20)
<1> QED
  BY <1>2, <1>5

\* A link that is on no list, put between entry k of list h and the next one.
LEMMA Inserted ==
    ASSUME NEW prev \in [Queue -> Queue], NEW next \in [Queue -> Queue], NEW l,
           Represents(prev, next, l), NEW h \in Header, NEW n \in Node,
           \A g \in Header : \A i \in 1..Len(l[g]) : l[g][i] # n,
           NEW k \in 0..Len(l[h]), NEW t \in Seq(Node), Len(t) = Len(l[h]) + 1,
           \A i \in 1..Len(t) :
              t[i] = IF i <= k THEN l[h][i] ELSE IF i = k+1 THEN n ELSE l[h][i-1],
           NEW a, a = Entry(h, l[h], k), NEW z, z = Entry(h, l[h], k+1)
    PROVE  Represents([prev EXCEPT ![n] = a, ![z] = n], [next EXCEPT ![n] = z, ![a] = n],
                      [l EXCEPT ![h] = t])
<1>0. PICK s, pr, nx, m : /\ s = l[h]
                          /\ pr = [prev EXCEPT ![n] = a, ![z] = n]
                          /\ nx = [next EXCEPT ![n] = z, ![a] = n]
                          /\ m = [l EXCEPT ![h] = t]
  BY Zenon
<1>1. /\ l \in [Header -> Seq(Node)] /\ Disjoint(l)
      /\ \A g \in Header : Holds(prev, next, g, l[g])
      /\ \A x \in Node :
            (\A g \in Header : x \notin Range(l[g])) => prev[x] = x /\ next[x] = x
  BY Zenon DEF Represents
<1>2. s \in Seq(Node) /\ Len(s) \in Nat /\ k \in Nat /\ k+1 \in Nat /\ k <= Len(s)
  BY <1>0, <1>1, SMTT(20)
<1>3. a \in Queue /\ z \in Queue /\ n \in Queue
  BY <1>1, <1>2, EntryFacts DEF Queue
<1>4. \A g \in Header : \A i \in Nat : Entry(g, l[g], i) # n
  <2> SUFFICES ASSUME NEW g \in Header, NEW i \in Nat, Entry(g, l[g], i) = n PROVE FALSE
    OBVIOUS
  <2>1. CASE i \in 1..Len(l[g])
    <3>1. l[g][i] = n
      BY <2>1 DEF Entry
    <3>2. l[g][i] # n
      BY <2>1
    <3> QED BY <3>1, <3>2
  <2>2. CASE i \notin 1..Len(l[g])
    BY <2>2, <1>1, EntryFacts, QueueAssumption, SMTT(20)
  <2> QED BY <2>1, <2>2
<1>5. a # n /\ z # n
  BY <1>2, <1>4
<1>6. \A x \in Queue : /\ nx[x] = IF x = a THEN n ELSE IF x = n THEN z ELSE next[x]
                       /\ pr[x] = IF x = z THEN n ELSE IF x = n THEN a ELSE prev[x]
  BY <1>0, <1>3, <1>5
<1>7. \A g \in Header : m[g] = IF g = h THEN t ELSE l[g]
  BY <1>0, <1>1
<1>8. m \in [Header -> Seq(Node)] /\ Disjoint(m)
  <2>1. m \in [Header -> Seq(Node)]
    BY <1>0, <1>1
  <2>2. \A g \in Header : \A i \in 1..Len(m[g]) :
           \/ m[g][i] = n /\ g = h /\ i = k+1
           \/ /\ m[g][i] # n /\ ~(g = h /\ i = k+1)
              /\ (IF g = h /\ i > k THEN i-1 ELSE i) \in 1..Len(l[g])
              /\ m[g][i] = l[g][IF g = h /\ i > k THEN i-1 ELSE i]
    <3> SUFFICES ASSUME NEW g \in Header, NEW i \in 1..Len(m[g])
                 PROVE  \/ m[g][i] = n /\ g = h /\ i = k+1
                        \/ /\ m[g][i] # n /\ ~(g = h /\ i = k+1)
                           /\ (IF g = h /\ i > k THEN i-1 ELSE i) \in 1..Len(l[g])
                           /\ m[g][i] = l[g][IF g = h /\ i > k THEN i-1 ELSE i]
      OBVIOUS
    <3>1. CASE g # h
      BY <3>1, <1>7, SMTT(20)
    <3>2. CASE g = h /\ i <= k
      <4>1. i \in 1..Len(l[h]) /\ ~(i > k) /\ i # k+1 /\ i \in 1..Len(t)
        BY <3>2, <1>7, <1>2, <1>0, SMTT(20)
      <4> QED BY <4>1, <3>2, <1>7, SMTT(20)
    <3>3. CASE g = h /\ i = k+1
      <4>1. i \in 1..Len(t) /\ ~(i <= k)
        BY <3>3, <1>7, <1>2, <1>0, SMTT(20)
      <4> QED BY <4>1, <3>3, <1>7
    <3>4. CASE g = h /\ i > k+1
      <4>1. i-1 \in 1..Len(l[h]) /\ i > k /\ i # k+1 /\ i \in 1..Len(t) /\ ~(i <= k)
        BY <3>4, <1>7, <1>2, <1>0, SMTT(20)
      <4> QED BY <4>1, <3>4, <1>7, SMTT(20)
    <3> QED BY <3>1, <3>2, <3>3, <3>4, <1>2, <1>7, SMTT(20)
  <2>3. \A g \in Header : \A i \in 1..Len(m[g]) : m[g][i] = n => g = h /\ i = k+1
    BY <2>2
  <2>4. Disjoint(m)
    <3> SUFFICES ASSUME NEW f \in Header, NEW g \in Header, NEW i \in 1..Len(m[f]),
                        NEW j \in 1..Len(m[g]), m[f][i] = m[g][j]
                 PROVE  f = g /\ i = j
      BY DEF Disjoint
    <3>1. CASE m[f][i] = n
      BY <3>1, <2>3
    <3>2. CASE m[f][i] # n
      <4>1. PICK x, y : /\ x = IF f = h /\ i > k THEN i-1 ELSE i
                        /\ y = IF g = h /\ j > k THEN j-1 ELSE j
        OBVIOUS
      <4>2. /\ x \in 1..Len(l[f]) /\ m[f][i] = l[f][x] /\ ~(f = h /\ i = k+1)
            /\ y \in 1..Len(l[g]) /\ m[g][j] = l[g][y] /\ ~(g = h /\ j = k+1)
        BY <2>2, <3>2, <4>1
      <4>3. f = g /\ x = y
        <5>1. l[f][x] = l[g][y] /\ Disjoint(l)
          BY <4>2, <1>1
        <5> QED BY <4>2, <5>1, SMTT(20) DEF Disjoint
      <4>4. Len(m[f]) \in Nat /\ Len(m[g]) \in Nat
        BY <2>1, SMTT(20)
      <4> QED BY <4>1, <4>2, <4>3, <4>4, <1>2, SMTT(20)
    <3> QED BY <3>1, <3>2
  <2> QED BY <2>1, <2>4
<1>9. /\ \A i \in 0..Len(s) : /\ next[Entry(h, s, i)] = Entry(h, s, i+1)
                              /\ prev[Entry(h, s, i+1)] = Entry(h, s, i)
      /\ \A i \in 0..Len(s) : i # k => Entry(h, s, i) # a /\ Entry(h, s, i+1) # z
      /\ \A i \in Nat : Entry(h, s, i) \in Queue /\ Entry(h, s, i) # n
  <2>1. Holds(prev, next, h, s)
    BY <1>0, <1>1
  <2>2. \A i \in Nat : Entry(h, s, i) \in Queue /\ Entry(h, s, i) # n
    BY <1>0, <1>1, <1>4, EntryFacts
  <2>3. \A i, j \in Nat : Entry(h, s, i) = Entry(h, s, j) =>
                             i = j \/ (i \notin 1..Len(s) /\ j \notin 1..Len(s))
    BY <1>0, <1>1, EntryFacts, SMTT(20)
  <2>4. ASSUME NEW i \in 0..Len(s), i # k
        PROVE  Entry(h, s, i) # a /\ Entry(h, s, i+1) # z
    <3>1. i \in Nat /\ i+1 \in Nat /\ i+1 # k+1
      BY <2>4, <1>2, SMTT(20)
    <3>2. i \in 1..Len(s) \/ k \in 1..Len(s)
      BY <2>4, <1>2, SMTT(20)
    <3>3. i+1 \in 1..Len(s) \/ k+1 \in 1..Len(s)
      BY <2>4, <1>2, SMTT(20)
    <3> QED BY <2>3, <2>4, <3>1, <3>2, <3>3, <1>0, <1>2
  <2> QED BY <2>1, <2>2, <2>4 DEF Holds
<1>10. Holds(pr, nx, h, t)
  <2>1. \A i \in 0..Len(s)+2 :
           Entry(h, t, i) = IF i <= k THEN Entry(h, s, i) ELSE IF i = k+1 THEN n
                            ELSE Entry(h, s, i-1)
    BY <1>0, <1>2, SMTT(20) DEF Entry
  <2> SUFFICES ASSUME NEW i \in 0..Len(s)+1
               PROVE  /\ nx[Entry(h, t, i)] = Entry(h, t, i+1)
                      /\ pr[Entry(h, t, i+1)] = Entry(h, t, i)
    BY <1>0, <1>2 DEF Holds
  <2>2. CASE i < k
    <3>1. /\ i \in 0..Len(s) /\ i \in Nat /\ i+1 \in Nat /\ i # k
          /\ Entry(h, t, i) = Entry(h, s, i) /\ Entry(h, t, i+1) = Entry(h, s, i+1)
      BY <2>1, <2>2, <1>2, SMTT(20)
    <3>2. /\ Entry(h, s, i) \in Queue \ {n, a} /\ Entry(h, s, i+1) \in Queue \ {n, z}
          /\ next[Entry(h, s, i)] = Entry(h, s, i+1) /\ prev[Entry(h, s, i+1)] = Entry(h, s, i)
      BY <3>1, <1>9
    <3> QED BY <3>1, <3>2, <1>6
  <2>3. CASE i = k
    <3>1. Entry(h, t, i) = a /\ Entry(h, t, i+1) = n
      BY <2>1, <2>3, <1>0, <1>2, SMTT(20)
    <3> QED BY <3>1, <1>3, <1>5, <1>6
  <2>4. CASE i = k+1
    <3>1. Entry(h, t, i) = n /\ Entry(h, t, i+1) = z
      <4>1. i+1 \in 0..Len(s)+2 /\ ~(i+1 <= k) /\ i+1 # k+1 /\ (i+1)-1 = k+1
        BY <2>4, <1>2, SMTT(20)
      <4> QED BY <4>1, <2>1, <2>4, <1>0, <1>2, SMTT(20)
    <3> QED BY <3>1, <1>3, <1>5, <1>6
  <2>5. CASE i > k+1
    <3>1. PICK j \in 0..Len(s) : j = i-1
      <4>1. i-1 \in 0..Len(s)
        BY <2>5, <1>2, SMTT(20)
      <4> QED BY <4>1, Zenon
    <3>2. /\ j \in Nat /\ j+1 \in Nat /\ j # k
          /\ Entry(h, t, i) = Entry(h, s, j) /\ Entry(h, t, i+1) = Entry(h, s, j+1)
      <4>1. /\ i+1 \in 0..Len(s)+2 /\ ~(i+1 <= k) /\ i+1 # k+1 /\ (i+1)-1 = j+1
            /\ i \in 0..Len(s)+2 /\ ~(i <= k) /\ i # k+1 /\ j # k
        BY <2>5, <3>1, <1>2, SMTT(20)
      <4> QED BY <4>1, <3>1, <2>1, <1>2, SMTT(20)
    <3>3. /\ Entry(h, s, j) \in Queue \ {n, a} /\ Entry(h, s, j+1) \in Queue \ {n, z}
          /\ next[Entry(h, s, j)] = Entry(h, s, j+1) /\ prev[Entry(h, s, j+1)] = Entry(h, s, j)
      BY <3>2, <1>9
    <3> QED BY <3>2, <3>3, <1>6
  <2> QED BY <2>2, <2>3, <2>4, <2>5, <1>2, SMTT(20)
<1>11. ASSUME NEW g \in Header, g # h
       PROVE  Holds(pr, nx, g, m[g])
  <2>1. \A i \in Nat : /\ Entry(g, l[g], i) \in Queue /\ Entry(g, l[g], i) # n
                       /\ Entry(g, l[g], i) # a /\ Entry(g, l[g], i) # z
    <3>1. \A i \in Nat : Entry(g, l[g], i) \in Queue
      BY <1>1, EntryFacts
    <3>2. \A i, j \in Nat : Entry(g, l[g], i) # Entry(h, l[h], j)
      BY <1>1, <1>11, EntryFacts
    <3> QED BY <1>2, <1>4, <3>1, <3>2
  <2>2. Holds(prev, next, g, l[g]) /\ m[g] = l[g] /\ Len(l[g]) \in Nat
    BY <1>1, <1>7, <1>11, SMTT(20)
  <2>3. \A i \in 0..Len(l[g]) : i \in Nat /\ i+1 \in Nat
    BY <2>2, SMTT(20)
  <2> QED
    BY <2>1, <2>2, <2>3, <1>6 DEF Holds
<1>12. ASSUME NEW x \in Node, \A g \in Header : x \notin Range(m[g])
       PROVE  pr[x] = x /\ nx[x] = x
  <2>1. \A g \in Header : \A i \in 1..Len(m[g]) : m[g][i] # x
    BY <1>8, <1>12, SMTT(20) DEF Range
  <2>2. x # n
    <3>1. k+1 \in 1..Len(m[h]) /\ m[h][k+1] = n
      <4>1. k+1 \in 1..Len(t) /\ ~(k+1 <= k)
        BY <1>0, <1>2, SMTT(20)
      <4> QED BY <4>1, <1>7
    <3> QED BY <2>1, <3>1
  <2>3. ASSUME NEW g \in Header, NEW i \in 1..Len(l[g]) PROVE l[g][i] # x
    <3>1. CASE g # h
      BY <3>1, <2>1, <1>7
    <3>2. CASE g = h /\ i <= k
      <4>1. i \in 1..Len(t) /\ t[i] = l[h][i]
        BY <3>2, <1>0, <1>2, SMTT(20)
      <4> QED BY <3>2, <4>1, <2>1, <1>7
    <3>3. CASE g = h /\ i > k
      <4>1. i+1 \in 1..Len(t) /\ ~(i+1 <= k) /\ i+1 # k+1 /\ (i+1)-1 = i
        BY <3>3, <1>0, <1>2, SMTT(20)
      <4>2. t[i+1] = l[h][i]
        BY <4>1, SMTT(20)
      <4> QED BY <3>3, <4>1, <4>2, <2>1, <1>7
    <3> QED BY <3>1, <3>2, <3>3, <1>0, <1>2, SMTT(20)
  <2>4. \A g \in Header : x \notin Range(l[g])
    BY <2>3, <1>1, SMTT(20) DEF Range
  <2>5. \A i \in Nat : Entry(h, l[h], i) # x
    BY <2>3, QueueAssumption DEF Entry
  <2>6. x # a /\ x # z /\ x \in Queue
    BY <2>5, <1>2 DEF Queue
  <2> QED
    BY <1>1, <1>6, <2>2, <2>4, <2>6
<1> QED
  BY <1>0, <1>7, <1>8, <1>10, <1>11, <1>12 DEF Represents

\* Entry k of list h, taken from between its neighbours.
LEMMA Deleted ==
    ASSUME NEW prev \in [Queue -> Queue], NEW next \in [Queue -> Queue], NEW l,
           Represents(prev, next, l), NEW h \in Header, NEW k \in 1..Len(l[h]),
           NEW n, n = l[h][k], NEW t \in Seq(Node), Len(t) = Len(l[h]) - 1,
           \A i \in 1..Len(t) : t[i] = IF i < k THEN l[h][i] ELSE l[h][i+1],
           NEW a, a = Entry(h, l[h], k-1), NEW z, z = Entry(h, l[h], k+1)
    PROVE  Represents([prev EXCEPT ![z] = a, ![n] = n], [next EXCEPT ![a] = z, ![n] = n],
                      [l EXCEPT ![h] = t])
<1>0. PICK s, pr, nx, m : /\ s = l[h]
                          /\ pr = [prev EXCEPT ![z] = a, ![n] = n]
                          /\ nx = [next EXCEPT ![a] = z, ![n] = n]
                          /\ m = [l EXCEPT ![h] = t]
  BY Zenon
<1>1. /\ l \in [Header -> Seq(Node)] /\ Disjoint(l)
      /\ \A g \in Header : Holds(prev, next, g, l[g])
      /\ \A x \in Node :
            (\A g \in Header : x \notin Range(l[g])) => prev[x] = x /\ next[x] = x
  BY Zenon DEF Represents
<1>2. /\ s \in Seq(Node) /\ Len(s) \in Nat /\ k \in Nat /\ k-1 \in Nat /\ k+1 \in Nat
      /\ 1 <= k /\ k <= Len(s) /\ k \in 1..Len(s)
  BY <1>0, <1>1, SMTT(20)
<1>3. n = Entry(h, s, k) /\ n \in Node
  BY <1>0, <1>2, SMTT(20) DEF Entry
<1>4. a \in Queue /\ z \in Queue /\ n \in Queue
  <2>1. \A i \in Nat : Entry(h, l[h], i) \in Queue
    BY <1>1, EntryFacts
  <2> QED BY <1>2, <1>3, <2>1 DEF Queue
<1>5. \A i, j \in Nat : Entry(h, s, i) = Entry(h, s, j) =>
                           i = j \/ (i \notin 1..Len(s) /\ j \notin 1..Len(s))
  <2>1. \A i, j \in Nat : Entry(h, l[h], i) = Entry(h, l[h], j) =>
                             i = j \/ (i \notin 1..Len(l[h]) /\ j \notin 1..Len(l[h]))
    BY <1>1, EntryFacts, SMTT(20)
  <2> QED BY <1>0, <2>1
<1>6. a # n /\ z # n
  <2>1. k-1 # k /\ k+1 # k
    BY <1>2, SMTT(20)
  <2> QED BY <2>1, <1>0, <1>2, <1>3, <1>5
<1>7. \A x \in Queue : /\ nx[x] = IF x = n THEN n ELSE IF x = a THEN z ELSE next[x]
                       /\ pr[x] = IF x = n THEN n ELSE IF x = z THEN a ELSE prev[x]
  BY <1>0, <1>4, <1>6
<1>8. \A g \in Header : m[g] = IF g = h THEN t ELSE l[g]
  BY <1>0, <1>1
<1>9. m \in [Header -> Seq(Node)]
  BY <1>0, <1>1
<1> DEFINE old(g, i) == IF g = h /\ i >= k THEN i+1 ELSE i
<1>10. \A g \in Header : \A i \in 1..Len(m[g]) :
          old(g, i) \in 1..Len(l[g]) /\ m[g][i] = l[g][old(g, i)]
  <2> SUFFICES ASSUME NEW g \in Header, NEW i \in 1..Len(m[g])
               PROVE  old(g, i) \in 1..Len(l[g]) /\ m[g][i] = l[g][old(g, i)]
    OBVIOUS
  <2>1. CASE g # h
    BY <2>1, <1>8
  <2>2. CASE g = h /\ i < k
    <3>1. i \in 1..Len(s) /\ i \in 1..Len(t) /\ ~(i >= k)
      BY <2>2, <1>0, <1>2, <1>8, SMTT(20)
    <3> QED BY <3>1, <2>2, <1>0, <1>8
  <2>3. CASE g = h /\ i >= k
    <3>1. i+1 \in 1..Len(s) /\ i \in 1..Len(t) /\ ~(i < k)
      BY <2>3, <1>0, <1>2, <1>8, SMTT(20)
    <3> QED BY <3>1, <2>3, <1>0, <1>8
  <2> QED BY <2>1, <2>2, <2>3, <1>2, <1>8, SMTT(20)
<1>11. Disjoint(m)
  <2> SUFFICES ASSUME NEW f \in Header, NEW g \in Header, NEW i \in 1..Len(m[f]),
                      NEW j \in 1..Len(m[g]), m[f][i] = m[g][j]
               PROVE  f = g /\ i = j
    BY DEF Disjoint
  <2>1. PICK x, y : x = old(f, i) /\ y = old(g, j)
    BY Zenon
  <2>2. /\ x \in 1..Len(l[f]) /\ m[f][i] = l[f][x]
        /\ y \in 1..Len(l[g]) /\ m[g][j] = l[g][y]
    <3> HIDE DEF old
    <3> QED BY <1>10, <2>1
  <2>3. f = g /\ x = y
    <3>1. l[f][x] = l[g][y] /\ Disjoint(l)
      BY <2>2, <1>1
    <3> QED BY <2>2, <3>1, SMTT(20) DEF Disjoint
  <2>4. i \in Nat /\ j \in Nat
    BY <1>9, SMTT(20)
  <2> QED BY <2>1, <2>3, <2>4, <1>2, SMTT(20)
<1>12. /\ \A i \in 0..Len(s) : /\ next[Entry(h, s, i)] = Entry(h, s, i+1)
                               /\ prev[Entry(h, s, i+1)] = Entry(h, s, i)
       /\ \A i \in Nat : Entry(h, s, i) \in Queue
       /\ \A i \in Nat : i # k => Entry(h, s, i) # n
       /\ \A i \in 0..Len(s) : i # k-1 => Entry(h, s, i) # a
       /\ \A i \in 1..Len(s)+1 : i # k+1 => Entry(h, s, i) # z
  <2>1. Holds(prev, next, h, s)
    BY <1>0, <1>1
  <2>2. \A i \in Nat : Entry(h, s, i) \in Queue
    BY <1>0, <1>1, EntryFacts
  <2>3. \A i \in Nat : i # k => Entry(h, s, i) # n
    BY <1>2, <1>3, <1>5
  <2>4. ASSUME NEW i \in 0..Len(s), i # k-1
        PROVE  Entry(h, s, i) # a
    <3>1. i \in Nat /\ (i \in 1..Len(s) \/ k-1 \in 1..Len(s))
      BY <2>4, <1>2, SMTT(20)
    <3> QED BY <2>4, <3>1, <1>0, <1>2, <1>5
  <2>5. ASSUME NEW i \in 1..Len(s)+1, i # k+1
        PROVE  Entry(h, s, i) # z
    <3>1. i \in Nat /\ (i \in 1..Len(s) \/ k+1 \in 1..Len(s))
      BY <2>5, <1>2, SMTT(20)
    <3> QED BY <2>5, <3>1, <1>0, <1>2, <1>5
  <2> QED BY <2>1, <2>2, <2>3, <2>4, <2>5 DEF Holds
<1>13. Holds(pr, nx, h, t)
  <2>1. \A i \in 0..Len(s) :
           Entry(h, t, i) = IF i < k THEN Entry(h, s, i) ELSE Entry(h, s, i+1)
    BY <1>0, <1>2, SMTT(20) DEF Entry
  <2> SUFFICES ASSUME NEW i \in 0..Len(s)-1
               PROVE  /\ nx[Entry(h, t, i)] = Entry(h, t, i+1)
                      /\ pr[Entry(h, t, i+1)] = Entry(h, t, i)
    BY <1>0, <1>2 DEF Holds
  <2>2. CASE i < k-1
    <3>1. /\ i \in 0..Len(s) /\ i \in Nat /\ i+1 \in Nat /\ i # k-1 /\ i+1 # k+1
          /\ i # k /\ i+1 # k /\ i+1 \in 1..Len(s)+1
          /\ Entry(h, t, i) = Entry(h, s, i) /\ Entry(h, t, i+1) = Entry(h, s, i+1)
      BY <2>1, <2>2, <1>2, SMTT(20)
    <3>2. /\ Entry(h, s, i) \in Queue \ {n, a} /\ Entry(h, s, i+1) \in Queue \ {n, z}
          /\ next[Entry(h, s, i)] = Entry(h, s, i+1) /\ prev[Entry(h, s, i+1)] = Entry(h, s, i)
      BY <3>1, <1>12
    <3> QED BY <3>1, <3>2, <1>7
  <2>3. CASE i = k-1
    <3>1. Entry(h, t, i) = a /\ Entry(h, t, i+1) = z
      <4>1. i \in 0..Len(s) /\ i < k /\ i+1 \in 0..Len(s) /\ ~(i+1 < k) /\ (i+1)+1 = k+1
        BY <2>3, <1>2, SMTT(20)
      <4> QED BY <4>1, <2>1, <2>3, <1>0
    <3> QED BY <3>1, <1>4, <1>6, <1>7
  <2>4. CASE i > k-1
    <3>1. PICK j \in 0..Len(s) : j = i+1
      <4>1. i+1 \in 0..Len(s)
        BY <2>4, <1>2, SMTT(20)
      <4> QED BY <4>1, Zenon
    <3>2. /\ j \in Nat /\ j+1 \in Nat /\ j # k /\ j+1 # k /\ j # k-1 /\ j+1 # k+1
          /\ j+1 \in 1..Len(s)+1
      BY <2>4, <3>1, <1>2, SMTT(20)
    <3>3. Entry(h, t, i) = Entry(h, s, j) /\ Entry(h, t, i+1) = Entry(h, s, j+1)
      <4>1. i \in 0..Len(s) /\ i+1 \in 0..Len(s) /\ ~(i < k) /\ ~(i+1 < k)
        BY <2>4, <1>2, SMTT(20)
      <4> QED BY <4>1, <3>1, <2>1
    <3>4. /\ Entry(h, s, j) \in Queue \ {n, a} /\ Entry(h, s, j+1) \in Queue \ {n, z}
          /\ next[Entry(h, s, j)] = Entry(h, s, j+1) /\ prev[Entry(h, s, j+1)] = Entry(h, s, j)
      BY <3>2, <1>12
    <3> QED BY <3>3, <3>4, <1>7
  <2> QED BY <2>2, <2>3, <2>4, <1>2, SMTT(20)
<1>14. ASSUME NEW g \in Header, g # h
       PROVE  Holds(pr, nx, g, m[g])
  <2>1. \A i \in Nat : /\ Entry(g, l[g], i) \in Queue /\ Entry(g, l[g], i) # n
                       /\ Entry(g, l[g], i) # a /\ Entry(g, l[g], i) # z
    <3>1. \A i \in Nat : Entry(g, l[g], i) \in Queue
      BY <1>1, EntryFacts
    <3>2. \A i, j \in Nat : Entry(g, l[g], i) # Entry(h, l[h], j)
      BY <1>1, <1>14, EntryFacts
    <3> QED BY <1>0, <1>2, <1>3, <3>1, <3>2
  <2>2. Holds(prev, next, g, l[g]) /\ m[g] = l[g] /\ Len(l[g]) \in Nat
    BY <1>1, <1>8, <1>14, SMTT(20)
  <2>3. \A i \in 0..Len(l[g]) : i \in Nat /\ i+1 \in Nat
    BY <2>2, SMTT(20)
  <2> QED
    BY <2>1, <2>2, <2>3, <1>7, SMTT(20) DEF Holds
<1>15. ASSUME NEW x \in Node, \A g \in Header : x \notin Range(m[g])
       PROVE  pr[x] = x /\ nx[x] = x
  <2>0. CASE x = n
    BY <2>0, <1>4, <1>7
  <2>1. CASE x # n
    <3>1. \A g \in Header : \A i \in 1..Len(m[g]) : m[g][i] # x
      BY <1>9, <1>15, SMTT(20) DEF Range
    <3>2. ASSUME NEW g \in Header, NEW i \in 1..Len(l[g]) PROVE l[g][i] # x
      <4>1. CASE g # h
        BY <4>1, <3>1, <1>8
      <4>2. CASE g = h /\ i < k
        <5>1. i \in 1..Len(t) /\ t[i] = l[h][i]
          <6>1. i \in 1..Len(t)
            BY <4>2, <1>0, <1>2, SMTT(20)
          <6> QED BY <6>1, <4>2
        <5> QED BY <4>2, <5>1, <3>1, <1>8
      <4>3. CASE g = h /\ i = k
        BY <4>3, <2>1
      <4>4. CASE g = h /\ i > k
        <5>1. i-1 \in 1..Len(t) /\ ~(i-1 < k) /\ (i-1)+1 = i
          BY <4>4, <1>0, <1>2, SMTT(20)
        <5>2. t[i-1] = l[h][i]
          BY <5>1
        <5> QED BY <4>4, <5>1, <5>2, <3>1, <1>8
      <4> QED BY <4>1, <4>2, <4>3, <4>4, <1>0, <1>2, SMTT(20)
    <3>3. \A g \in Header : x \notin Range(l[g])
      <4>1. \A g \in Header : DOMAIN l[g] = 1..Len(l[g])
        BY <1>1, SMTT(20)
      <4> QED BY <3>2, <4>1 DEF Range
    <3>4. ASSUME NEW i \in Nat PROVE Entry(h, l[h], i) # x
      <4>1. CASE i \in 1..Len(l[h])
        BY <3>2, <4>1 DEF Entry
      <4>2. CASE i \notin 1..Len(l[h])
        BY <4>2, QueueAssumption DEF Entry
      <4> QED BY <4>1, <4>2
    <3>5. x # a /\ x # z /\ x \in Queue
      BY <3>4, <1>2 DEF Queue
    <3> QED
      BY <1>1, <1>7, <2>1, <3>3, <3>5
  <2> QED BY <2>0, <2>1
<1> QED
  BY <1>0, <1>8, <1>9, <1>11, <1>13, <1>14, <1>15 DEF Represents

\* f lists the M positions of q that survive, in their order.
Survive(f, M, q, T) ==
    /\ M \in Nat /\ f \in [1..M -> 1..Len(q)]
    /\ \A i, j \in 1..M : i < j => f[i] < f[j]
    /\ Kept(q, T) = {f[i] : i \in 1..M}

\* Without is what is at the positions that survive.
LEMMA WithoutIs ==
    ASSUME NEW S, NEW q \in Seq(S), NEW T, NEW f, NEW M, Survive(f, M, q, T)
    PROVE  Without(q, T) = [i \in 1..M |-> q[f[i]]]
<1> USE DEF Survive
<1>0. PICK K : K = Kept(q, T)
  BY Zenon
<1>1. Len(q) \in Nat /\ \A i \in 1..M : f[i] \in Nat /\ f[i] \in K
  BY <1>0, SMTT(20)
<1>2. \A i, j \in 1..M : f[i] <= f[j] <=> i <= j
  BY <1>1, SMTT(20)
<1>3. ASSUME NEW i \in 1..M PROVE Rank(f[i], K) = i
  <2> DEFINE B == {k \in K : k <= f[i]}
             g == [j \in 1..i |-> f[j]]
  <2>1. i \in Nat /\ \A j \in 1..i : j \in 1..M /\ j <= i
    BY SMTT(20)
  <2>2. g \in [1..i -> B]
    BY <2>1, <1>1, <1>2
  <2>3. \A j, k \in 1..i : g[j] = g[k] => j = k
    <3> SUFFICES ASSUME NEW j \in 1..i, NEW k \in 1..i, f[j] = f[k] PROVE j = k
      OBVIOUS
    <3>1. f[j] <= f[k] /\ f[k] <= f[j]
      BY <1>1, <2>1, SMTT(20)
    <3> QED BY <3>1, <1>2, <2>1, SMTT(20)
  <2>4. \A b \in B : \E j \in 1..i : g[j] = b
    <3> SUFFICES ASSUME NEW b \in B PROVE \E j \in 1..i : g[j] = b
      OBVIOUS
    <3>1. PICK j \in 1..M : b = f[j]
      BY <1>0
    <3>2. j \in 1..i
      BY <3>1, <1>2, SMTT(20)
    <3> QED BY <3>1, <3>2
  <2>5. g \in Bijection(1..i, B)
    BY <2>2, <2>3, <2>4 DEF Bijection, Injection, Surjection, IsInjective
  <2>6. IsFiniteSet(1..i) /\ Cardinality(1..i) = i
    BY <2>1, FS_Interval, SMTT(20)
  <2>7. Cardinality(B) = i
    <3> HIDE DEF B, g
    <3> QED BY <2>5, <2>6, FS_Bijection DEF ExistsBijection
  <2> QED BY <2>7 DEF Rank
<1>4. Cardinality(K) = M
  <2>1. f \in Bijection(1..M, K)
    <3>1. f \in [1..M -> K]
      BY <1>1
    <3>2. \A i, j \in 1..M : f[i] = f[j] => i = j
      BY <1>3
    <3>3. \A b \in K : \E j \in 1..M : f[j] = b
      BY <1>0
    <3> QED BY <3>1, <3>2, <3>3 DEF Bijection, Injection, Surjection, IsInjective
  <2>2. IsFiniteSet(1..M) /\ Cardinality(1..M) = M
    BY FS_Interval, SMTT(20)
  <2> QED BY <2>1, <2>2, FS_Bijection DEF ExistsBijection
<1>5. ASSUME NEW i \in 1..M
      PROVE  (CHOOSE k \in K : Rank(k, K) = i) = f[i]
  <2>1. \A k \in K : Rank(k, K) = i => k = f[i]
    BY <1>0, <1>3
  <2> QED BY <1>1, <1>3, <2>1
<1>6. Without(q, T) = [i \in 1..Cardinality(K) |-> q[CHOOSE k \in K : Rank(k, K) = i]]
  BY <1>0, SMTT(20) DEF Without
<1> QED
  BY <1>4, <1>5, <1>6

\* qdelete of a link that is not on the list.
LEMMA WithoutNone ==
    ASSUME NEW S, NEW q \in Seq(S), NEW x, \A i \in 1..Len(q) : q[i] # x
    PROVE  Without(q, {x}) = q
<1>1. Len(q) \in Nat
  BY SMTT(20)
<1>2. PICK M, T, f : M = Len(q) /\ T = {x} /\ f = [i \in 1..M |-> i]
  BY Zenon
<1>3. M \in Nat /\ f \in [1..M -> 1..Len(q)] /\ \A i, j \in 1..M : i < j => f[i] < f[j]
  BY <1>1, <1>2
<1>4. Kept(q, T) = {f[i] : i \in 1..M}
  BY <1>2, SMTT(20) DEF Kept
<1>5. Without(q, T) = [i \in 1..M |-> q[f[i]]]
  <2>1. Survive(f, M, q, T)
    BY <1>3, <1>4 DEF Survive
  <2> QED BY <2>1, WithoutIs
<1> QED
  BY <1>2, <1>5, SMTT(20)

\* qdelete of the link at position k, which is on the list once.
LEMMA WithoutOne ==
    ASSUME NEW S, NEW q \in Seq(S), NEW k \in 1..Len(q),
           \A i \in 1..Len(q) : q[i] = q[k] => i = k
    PROVE  Without(q, {q[k]}) =
              [i \in 1..Len(q)-1 |-> IF i < k THEN q[i] ELSE q[i+1]]
<1>1. Len(q) \in Nat /\ Len(q)-1 \in Nat /\ k \in Nat /\ k >= 1 /\ k <= Len(q)
  BY SMTT(20)
<1>2. PICK M, T : M = Len(q)-1 /\ T = {q[k]}
  BY Zenon
<1>3. M \in Nat /\ Len(q) = M+1
  BY <1>1, <1>2, SMTT(20)
<1>4. PICK f : f = [i \in 1..M |-> IF i < k THEN i ELSE i+1]
  BY Zenon
<1>5. /\ f \in [1..M -> 1..Len(q)]
      /\ \A i, j \in 1..M : i < j => f[i] < f[j]
  BY <1>1, <1>3, <1>4, SMTT(20)
<1>6. Kept(q, T) = {f[i] : i \in 1..M}
  <2>1. Kept(q, T) = (1..Len(q)) \ {k}
    BY <1>2, SMTT(20) DEF Kept
  <2>2. ASSUME NEW i \in 1..M PROVE f[i] \in (1..Len(q)) \ {k}
    BY <1>1, <1>3, <1>4, SMTT(20)
  <2>3. ASSUME NEW j \in (1..Len(q)) \ {k} PROVE \E i \in 1..M : f[i] = j
    <3>1. CASE j < k
      <4>1. j \in 1..M /\ f[j] = j
        BY <1>1, <1>3, <1>4, <3>1, SMTT(20)
      <4> QED BY <4>1
    <3>2. CASE j > k
      <4>1. j-1 \in 1..M /\ f[j-1] = j
        BY <1>1, <1>3, <1>4, <3>2, SMTT(20)
      <4> QED BY <4>1
    <3> QED BY <3>1, <3>2, <1>1, SMTT(20)
  <2>4. \A y : y \in (1..Len(q)) \ {k} <=> \E i \in 1..M : y = f[i]
    BY <2>2, <2>3
  <2>5. \A y : y \in Kept(q, T) <=> y \in {f[i] : i \in 1..M}
    BY <2>1, <2>4, Zenon
  <2> QED BY <2>5, Zenon
<1>7. Without(q, T) = [i \in 1..M |-> q[f[i]]]
  <2>1. Survive(f, M, q, T)
    BY <1>3, <1>5, <1>6 DEF Survive
  <2> QED BY <2>1, WithoutIs
<1> QED
  BY <1>1, <1>2, <1>3, <1>4, <1>7

\* The lists that the pointers hold after a step are what the traversal gives then.
LEMMA HeldAfter ==
    ASSUME TypeOK', NEW m, Represents(p1', p2', m)
    PROVE  Held' = m /\ WellLinked'
<1>1. PICK prev, next : prev = p1' /\ next = p2'
  BY Zenon
<1>2. prev \in [Queue -> Queue] /\ next \in [Queue -> Queue] /\ Represents(prev, next, m)
  BY <1>1 DEF TypeOK
<1>3. \A h \in Header : Walk(next, h) = m[h]
  BY <1>2, WalksAre, SMTT(20)
<1>4. m = [h \in Header |-> m[h]]
  BY <1>2 DEF Represents
<1>5. [h \in Header |-> Walk(next, h)] = m
  BY <1>3, <1>4
<1>6. Held' = [h \in Header |-> Walk(p2', h)]
  BY Zenon DEF Held
<1>7. Held' = m
  BY <1>1, <1>5, <1>6, Zenon
<1> QED
  BY <1>7, Zenon DEF WellLinked

\* qdelete: the link leaves the list it is on, if any.
LEMMA qdeleteStep ==
    ASSUME TypeOK, WellLinked, NEW n \in Node, qdelete(n)
    PROVE  TypeOK' /\ WellLinked' /\ L!Delete(n)
<1>0. n \in Queue /\ p1[n] \in Queue /\ p2[n] \in Queue
  BY DEF Queue, TypeOK
<1>1. TypeOK'
  BY <1>0 DEF TypeOK, qdelete
<1>2. PICK prev, next, l : prev = p1 /\ next = p2 /\ l = Held
  BY Zenon
<1>3. /\ prev \in [Queue -> Queue] /\ next \in [Queue -> Queue]
      /\ Represents(prev, next, l)
  BY <1>2 DEF TypeOK, WellLinked
<1>4. /\ l \in [Header -> Seq(Node)] /\ Disjoint(l)
      /\ \A g \in Header : Holds(prev, next, g, l[g])
      /\ \A x \in Node :
            (\A g \in Header : x \notin Range(l[g])) => prev[x] = x /\ next[x] = x
  BY <1>3, Zenon DEF Represents
<1>5. PICK m : m = [h \in Header |-> Without(l[h], {n})]
  BY Zenon
<1>6. Represents(p1', p2', m)
  <2>1. CASE \A g \in Header : n \notin Range(l[g])
    <3>1. p1' = prev /\ p2' = next
      <4>1. p1[n] = n /\ p2[n] = n
        BY <1>2, <1>4, <2>1
      <4> QED BY <1>0, <1>2, <1>3, <4>1 DEF qdelete
    <3>2. ASSUME NEW h \in Header PROVE Without(l[h], {n}) = l[h]
      <4>1. PICK q \in Seq(Node) : q = l[h]
        BY <1>4
      <4>2. \A i \in 1..Len(q) : q[i] # n
        BY <2>1, <4>1, SMTT(20) DEF Range
      <4> QED BY <4>1, <4>2, WithoutNone
    <3>3. m = l
      BY <3>2, <1>4, <1>5
    <3> QED BY <3>1, <3>3, <1>3
  <2>2. CASE \E g \in Header : n \in Range(l[g])
    <3>1. PICK h \in Header : n \in Range(l[h])
      BY <2>2
    <3>2. PICK s \in Seq(Node) : s = l[h]
      BY <1>4
    <3>3. PICK k \in 1..Len(s) : s[k] = n
      BY <3>1, <3>2, SMTT(20) DEF Range
    <3>4. Len(s) \in Nat /\ k-1 \in 0..Len(s) /\ k \in 0..Len(s) /\ (k-1)+1 = k
      BY SMTT(20)
    <3>5. PICK a, z : a = Entry(h, s, k-1) /\ z = Entry(h, s, k+1)
      BY Zenon
    <3>6. next[n] = z /\ prev[n] = a
      <4>1. Entry(h, s, k) = n
        BY <3>3 DEF Entry
      <4>2. Holds(prev, next, h, s)
        BY <1>4, <3>2
      <4> QED BY <3>4, <3>5, <4>1, <4>2 DEF Holds
    <3>7. PICK t : t = [i \in 1..Len(s)-1 |-> IF i < k THEN s[i] ELSE s[i+1]]
      BY Zenon
    <3>8. /\ t \in Seq(Node) /\ Len(t) = Len(s)-1
          /\ \A i \in 1..Len(t) : t[i] = IF i < k THEN s[i] ELSE s[i+1]
      BY <3>4, <3>7, SMTT(20)
    <3>9. Without(s, {n}) = t
      <4>1. \A i \in 1..Len(s) : s[i] = s[k] => i = k
        <5>1. \A i, j \in 1..Len(l[h]) : l[h][i] = l[h][j] => i = j
          BY <1>4 DEF Disjoint
        <5> QED BY <3>2, <5>1
      <4> QED BY <3>3, <3>7, <4>1, WithoutOne
    <3>10. ASSUME NEW g \in Header, g # h PROVE Without(l[g], {n}) = l[g]
      <4>1. PICK q \in Seq(Node) : q = l[g]
        BY <1>4
      <4>2. \A i \in 1..Len(q) : q[i] # n
        BY <1>4, <3>2, <3>3, <3>10, <4>1 DEF Disjoint
      <4> QED BY <4>1, <4>2, WithoutNone
    <3>11. m = [l EXCEPT ![h] = t]
      BY <1>4, <1>5, <3>2, <3>9, <3>10
    <3>12. /\ p1' = [prev EXCEPT ![z] = a, ![n] = n]
           /\ p2' = [next EXCEPT ![a] = z, ![n] = n]
      BY <1>2, <3>6 DEF qdelete
    <3>13. Represents([prev EXCEPT ![z] = a, ![n] = n], [next EXCEPT ![a] = z, ![n] = n],
                      [l EXCEPT ![h] = t])
      BY <1>3, <3>2, <3>3, <3>5, <3>8, Deleted
    <3> QED BY <3>11, <3>12, <3>13, Zenon
  <2> QED BY <2>1, <2>2
<1>7. Held' = m /\ WellLinked'
  BY <1>1, <1>6, HeldAfter
<1>8. L!Delete(n)
  <2>1. \A s : L!Without(s, {n}) = Without(s, {n})
    BY Zenon DEF L!Without, L!Kept, L!Rank, L!Cardinality, Without, Kept, Rank, Cardinality
  <2>2. Held' = [h \in Header |-> L!Without(Held[h], {n})]
    BY <2>1, <1>2, <1>5, <1>7
  <2> QED BY <2>2, Zenon DEF L!Delete
<1> QED
  BY <1>1, <1>7, <1>8

\* The link added by append or prepend is on no list.
LEMMA AddedIsLoose ==
    ASSUME TypeOK, WellLinked, NEW n \in Node, QISEMPTY(n)
    PROVE  n \in L!Loose
<1>1. PICK prev, next, l : prev = p1 /\ next = p2 /\ l = Held
  BY Zenon
<1>2. /\ prev \in [Queue -> Queue] /\ next \in [Queue -> Queue]
      /\ Represents(prev, next, l) /\ prev[n] = n /\ l \in [Header -> Seq(Node)]
  BY <1>1 DEF TypeOK, WellLinked, QISEMPTY, Represents
<1>3. ASSUME NEW h \in Header PROVE n \notin L!Range(l[h])
  <2>1. \A i \in 1..Len(l[h]) : l[h][i] # n
    BY <1>2, EmptyIsLoose
  <2>2. DOMAIN l[h] = 1..Len(l[h])
    BY <1>2, SMTT(20)
  <2> QED BY <2>1, <2>2 DEF L!Range
<1>4. n \notin UNION {L!Range(l[h]) : h \in Header}
  BY <1>3, Zenon
<1> QED
  BY <1>1, <1>4, Zenon DEF L!Loose

\* qappend(QLAST(h), n): the link becomes the last one.
LEMMA appendStep ==
    ASSUME TypeOK, WellLinked, NEW n \in Node, NEW h \in Header, append(h, n)
    PROVE  TypeOK' /\ WellLinked' /\ L!AddLast(h, n)
<1>0. /\ n \in Queue /\ h \in Queue /\ p1[h] \in Queue /\ p2[p1[h]] \in Queue
      /\ QISEMPTY(n) /\ qappend(p1[h], n)
  BY DEF Queue, TypeOK, append, QLAST
<1>1. TypeOK'
  BY <1>0 DEF TypeOK, qappend
<1>2. PICK prev, next, l : prev = p1 /\ next = p2 /\ l = Held
  BY Zenon
<1>3. /\ prev \in [Queue -> Queue] /\ next \in [Queue -> Queue]
      /\ Represents(prev, next, l) /\ prev[n] = n
  BY <1>0, <1>2 DEF TypeOK, WellLinked, QISEMPTY
<1>4. l \in [Header -> Seq(Node)] /\ Holds(prev, next, h, l[h])
  BY <1>3, Zenon DEF Represents
<1>5. PICK s \in Seq(Node) : s = l[h]
  BY <1>4
<1>6. PICK k \in 0..Len(s) : k = Len(s)
  BY SMTT(20)
<1>7. PICK a, z : a = Entry(h, s, k) /\ z = Entry(h, s, k+1)
  BY Zenon
<1>8. prev[h] = a /\ next[a] = z
  <2>1. z = h
    BY <1>6, <1>7, SMTT(20) DEF Entry
  <2> QED BY <1>4, <1>5, <1>7, <2>1 DEF Holds
<1>9. PICK t : t = Append(s, n)
  BY Zenon
<1>10. /\ t \in Seq(Node) /\ Len(t) = Len(s)+1
       /\ \A i \in 1..Len(t) :
             t[i] = IF i <= k THEN s[i] ELSE IF i = k+1 THEN n ELSE s[i-1]
  BY <1>6, <1>9, SMTT(20)
<1>11. PICK m : m = [l EXCEPT ![h] = t]
  BY Zenon
<1>12. /\ p1' = [prev EXCEPT ![n] = a, ![z] = n]
       /\ p2' = [next EXCEPT ![n] = z, ![a] = n]
  BY <1>0, <1>2, <1>8 DEF qappend
<1>13. Represents([prev EXCEPT ![n] = a, ![z] = n], [next EXCEPT ![n] = z, ![a] = n],
                  [l EXCEPT ![h] = t])
  <2>1. /\ k \in 0..Len(l[h]) /\ a = Entry(h, l[h], k) /\ z = Entry(h, l[h], k+1)
        /\ Len(t) = Len(l[h]) + 1
        /\ \A i \in 1..Len(t) :
              t[i] = IF i <= k THEN l[h][i] ELSE IF i = k+1 THEN n ELSE l[h][i-1]
    BY <1>5, <1>7, <1>10, Zenon
  <2>2. \A g \in Header : \A i \in 1..Len(l[g]) : l[g][i] # n
    BY <1>3, EmptyIsLoose
  <2> QED BY <1>3, <1>10, <2>1, <2>2, Inserted, ZenonT(60), SMTT(60)
<1>14. Represents(p1', p2', m)
  BY <1>11, <1>12, <1>13, Zenon
<1>15. Held' = m /\ WellLinked'
  BY <1>1, <1>14, HeldAfter
<1>16. Held' = [Held EXCEPT ![h] = Append(@, n)]
  BY <1>2, <1>5, <1>9, <1>11, <1>15
<1> QED
  BY <1>0, <1>1, <1>15, <1>16, AddedIsLoose DEF L!AddLast

\* qprepend(QFIRST(h), n): the link becomes the first one.
LEMMA prependStep ==
    ASSUME TypeOK, WellLinked, NEW n \in Node, NEW h \in Header, prepend(h, n)
    PROVE  TypeOK' /\ WellLinked' /\ L!AddFirst(h, n)
<1>0. /\ n \in Queue /\ h \in Queue /\ p2[h] \in Queue /\ p1[p2[h]] \in Queue
      /\ QISEMPTY(n) /\ qprepend(p2[h], n)
  BY DEF Queue, TypeOK, prepend, QFIRST
<1>1. TypeOK'
  BY <1>0 DEF TypeOK, qprepend
<1>2. PICK prev, next, l : prev = p1 /\ next = p2 /\ l = Held
  BY Zenon
<1>3. /\ prev \in [Queue -> Queue] /\ next \in [Queue -> Queue]
      /\ Represents(prev, next, l) /\ prev[n] = n
  BY <1>0, <1>2 DEF TypeOK, WellLinked, QISEMPTY
<1>4. l \in [Header -> Seq(Node)] /\ Holds(prev, next, h, l[h])
  BY <1>3, Zenon DEF Represents
<1>5. PICK s \in Seq(Node) : s = l[h]
  BY <1>4
<1>6. PICK k \in 0..Len(s) : k = 0
  BY SMTT(20)
<1>7. PICK a, z : a = Entry(h, s, k) /\ z = Entry(h, s, k+1)
  BY Zenon
<1>8. next[h] = z /\ prev[z] = a
  <2>1. a = h
    BY <1>6, <1>7, SMTT(20) DEF Entry
  <2> QED BY <1>4, <1>5, <1>7, <2>1 DEF Holds
<1>9. PICK t : t = <<n>> \o s
  BY Zenon
<1>10. /\ t \in Seq(Node) /\ Len(t) = Len(s)+1
       /\ \A i \in 1..Len(t) :
             t[i] = IF i <= k THEN s[i] ELSE IF i = k+1 THEN n ELSE s[i-1]
  BY <1>6, <1>9, SMTT(20)
<1>11. PICK m : m = [l EXCEPT ![h] = t]
  BY Zenon
<1>12. /\ p1' = [prev EXCEPT ![n] = a, ![z] = n]
       /\ p2' = [next EXCEPT ![n] = z, ![a] = n]
  BY <1>0, <1>2, <1>8 DEF qprepend
<1>13. Represents([prev EXCEPT ![n] = a, ![z] = n], [next EXCEPT ![n] = z, ![a] = n],
                  [l EXCEPT ![h] = t])
  <2>1. /\ k \in 0..Len(l[h]) /\ a = Entry(h, l[h], k) /\ z = Entry(h, l[h], k+1)
        /\ Len(t) = Len(l[h]) + 1
        /\ \A i \in 1..Len(t) :
              t[i] = IF i <= k THEN l[h][i] ELSE IF i = k+1 THEN n ELSE l[h][i-1]
    BY <1>5, <1>7, <1>10, Zenon
  <2>2. \A g \in Header : \A i \in 1..Len(l[g]) : l[g][i] # n
    BY <1>3, EmptyIsLoose
  <2> QED BY <1>3, <1>10, <2>1, <2>2, Inserted, ZenonT(60), SMTT(60)
<1>14. Represents(p1', p2', m)
  BY <1>11, <1>12, <1>13, Zenon
<1>15. Held' = m /\ WellLinked'
  BY <1>1, <1>14, HeldAfter
<1>16. Held' = [Held EXCEPT ![h] = <<n>> \o @]
  BY <1>2, <1>5, <1>9, <1>11, <1>15
<1> QED
  BY <1>0, <1>1, <1>15, <1>16, AddedIsLoose DEF L!AddFirst

\* QINIT: every list is empty.
LEMMA InitLists ==
    ASSUME Init
    PROVE  TypeOK /\ WellLinked /\ L!Init
<1>1. TypeOK
  BY DEF Init, TypeOK
<1>2. PICK prev, next, l : prev = p1 /\ next = p2 /\ l = [h \in Header |-> <<>>]
  BY Zenon
<1>3. /\ prev \in [Queue -> Queue] /\ next \in [Queue -> Queue]
      /\ \A x \in Queue : prev[x] = x /\ next[x] = x
  BY <1>2 DEF Init
<1>4. l \in [Header -> Seq(Node)] /\ \A h \in Header : l[h] = <<>>
  BY <1>2, SMTT(20)
<1>5. Represents(prev, next, l)
  <2>1. Disjoint(l)
    BY <1>4, SMTT(20) DEF Disjoint
  <2>2. \A h \in Header : Holds(prev, next, h, l[h])
    BY <1>3, <1>4, SMTT(20) DEF Holds, Entry, Queue
  <2> QED BY <1>3, <1>4, <2>1, <2>2 DEF Represents, Queue
<1>6. \A h \in Header : Walk(next, h) = l[h]
  BY <1>3, <1>5, WalksAre, SMTT(20)
<1>7. Held = l
  BY <1>2, <1>6 DEF Held
<1> QED
  BY <1>1, <1>2, <1>5, <1>7 DEF WellLinked, L!Init

\* Every step of queue.c keeps the lists well linked, and is a step of Lists.
LEMMA StepLists ==
    ASSUME TypeOK, WellLinked, [Next]_vars
    PROVE  TypeOK' /\ WellLinked' /\ [L!Next]_Held
<1>1. CASE UNCHANGED vars
  <2>1. p1' = p1 /\ p2' = p2
    BY <1>1 DEF vars
  <2>2. TypeOK'
    BY <2>1 DEF TypeOK
  <2>3. PICK l : l = Held
    BY Zenon
  <2>4. Represents(p1', p2', l)
    BY <2>1, <2>3 DEF WellLinked
  <2>5. Held' = l /\ WellLinked'
    BY <2>2, <2>4, HeldAfter
  <2> QED BY <2>2, <2>3, <2>5
<1>2. CASE \E n \in Node : qdelete(n)
  BY <1>2, qdeleteStep, Zenon DEF L!Next
<1>3. CASE \E n \in Node : \E h \in Header : append(h, n)
  BY <1>3, appendStep, Zenon DEF L!Next
<1>4. CASE \E n \in Node : \E h \in Header : prepend(h, n)
  BY <1>4, prependStep, Zenon DEF L!Next
<1> QED
  BY <1>1, <1>2, <1>3, <1>4 DEF Next

\* The lists are well linked, whatever the number of lists and links: a link is on one
\* list, found there in both directions, or a circle of its own.
THEOREM AlwaysWellLinked == Spec => [](TypeOK /\ WellLinked)
<1>1. Init => TypeOK /\ WellLinked
  BY InitLists
<1>2. TypeOK /\ WellLinked /\ [Next]_vars => TypeOK' /\ WellLinked'
  BY StepLists
<1> QED
  BY <1>1, <1>2, PTL DEF Spec

\* Backwards, the traversal of a list gives what it gives forwards, the other way round.
THEOREM AlwaysSameBackwards == Spec => []SameBackwards
<1>1. TypeOK /\ WellLinked => SameBackwards
  <2> SUFFICES ASSUME TypeOK, WellLinked, NEW h \in Header
               PROVE  LET s == Walk(p2, h)
                      IN  Walk(p1, h) = [i \in 1..Len(s) |-> s[Len(s) - i + 1]]
    BY DEF SameBackwards
  <2>1. PICK s : s = Held[h]
    BY Zenon
  <2>2. Walk(p2, h) = s /\ Walk(p1, h) = [i \in 1..Len(s) |-> s[Len(s) - i + 1]]
    BY <2>1, WalksAre DEF TypeOK, WellLinked
  <2> QED BY <2>2
<1> QED
  BY <1>1, AlwaysWellLinked, PTL

\* The pointers of queue.c implement lists: every step is the step of Lists that it
\* stands for.
THEOREM LinkedQueueImplementsLists == Spec => ImplementsLists
<1>1. Init => L!Init
  BY InitLists
<1>2. TypeOK /\ WellLinked /\ [Next]_vars => [L!Next]_Held
  BY StepLists
<1> QED
  BY <1>1, <1>2, AlwaysWellLinked, PTL DEF Spec, ImplementsLists, L!Spec
================================================================================
