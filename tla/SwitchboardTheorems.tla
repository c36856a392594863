-------------------------- MODULE SwitchboardTheorems --------------------------
(***************************************************************************)
(* What the switchboard keeps true, for every number of clients, services, *)
(* routines and transactions: IndInv is inductive (one lemma per handler,  *)
(* here and in the modules this one extends), the invariants that the runs *)
(* check on small instances follow from it, no transaction is lost, no     *)
(* request is forgotten, and the switchboard implements Calls.  The first  *)
(* lemmas prove the laws of queues that the others assume.                 *)
(***************************************************************************)
EXTENDS DeletionProofs, CallsProofs, FiniteSetTheorems

\* The positions that survive a deletion are finitely many, all in the queue.
LEMMA KeptFinite ==
    ASSUME NEW S, NEW q \in Seq(S), NEW T
    PROVE  /\ Kept(q, T) \subseteq 1..Len(q)
           /\ Len(q) \in Nat
           /\ IsFiniteSet(Kept(q, T))
           /\ Cardinality(Kept(q, T)) \in Nat
<1>1. Kept(q, T) \subseteq 1..Len(q) /\ Len(q) \in Nat
  BY DEF Kept
<1>2. IsFiniteSet(1..Len(q))
  BY <1>1, FS_Interval
<1>3. IsFiniteSet(Kept(q, T))
  BY <1>1, <1>2, FS_Subset
<1> QED
  BY <1>1, <1>3, FS_CardinalityType, ZenonT(40), SMTT(40)

\* Ranking a finite set of numbers numbers its members from 1 on, each number
\* being used once.
LEMMA RankBijective ==
    ASSUME NEW K \in SUBSET Nat, IsFiniteSet(K)
    PROVE  /\ \A i \in K : Rank(i, K) \in 1..Cardinality(K)
           /\ \A i, j \in K : i < j => Rank(i, K) < Rank(j, K)
           /\ \A n \in 1..Cardinality(K) : \E i \in K : Rank(i, K) = n
<1> DEFINE Below(i) == {k \in K : k <= i}
           n == Cardinality(K)
           R == [i \in K |-> Rank(i, K)]
<1>1. n \in Nat
  BY FS_CardinalityType
<1>2. \A i \in K : IsFiniteSet(Below(i)) /\ Rank(i, K) \in Nat /\ Rank(i, K) <= n
  <2> TAKE i \in K
  <2>1. Below(i) \in SUBSET K
    OBVIOUS
  <2>2. IsFiniteSet(Below(i)) /\ Cardinality(Below(i)) <= n
    BY <2>1, FS_Subset
  <2> QED
    BY <2>2, FS_CardinalityType DEF Rank
<1>3. \A i \in K : Rank(i, K) # 0
  <2> TAKE i \in K
  <2>1. i \in Below(i)
    OBVIOUS
  <2> QED
    BY <2>1, <1>2, FS_EmptySet, ZenonT(40), SMTT(40) DEF Rank
<1>4. \A i \in K : Rank(i, K) \in 1..n
  <2> TAKE i \in K
  <2> DEFINE r == Rank(i, K)
  <2>1. r \in Nat /\ r # 0 /\ r <= n
    BY <1>2, <1>3, ZenonT(40)
  <2> HIDE DEF r, n
  <2> QED
    BY <2>1, <1>1, ZenonT(40), SMTT(40) DEF r
<1>5. \A i, j \in K : i < j => Rank(i, K) < Rank(j, K)
  <2> SUFFICES ASSUME NEW i \in K, NEW j \in K, i < j
               PROVE  Rank(i, K) < Rank(j, K)
    OBVIOUS
  <2>0. i \in Nat /\ j \in Nat
    OBVIOUS
  <2>1. Below(i) \in SUBSET Below(j) /\ j \in Below(j) /\ j \notin Below(i)
    <3>1. \A k \in K : k \in Nat /\ (k <= i => k <= j)
      BY <2>0
    <3>2. \A k \in Below(i) : k \in Below(j)
      BY <3>1
    <3>3. j \in Below(j) /\ j \notin Below(i)
      BY <2>0
    <3> QED
      BY <3>2, <3>3, Zenon
  <2>2. Cardinality(Below(i)) <= Cardinality(Below(j))
        /\ Cardinality(Below(j)) # Cardinality(Below(i))
    BY <2>1, <1>2, FS_Subset, ZenonT(40), SMTT(40)
  <2> QED
    BY <2>2, <1>2 DEF Rank
<1>6. R \in Injection(K, 1..n)
  <2>1. R \in [K -> 1..n]
    BY <1>4
  <2>2. \A i, j \in K : R[i] = R[j] => i = j
    <3> SUFFICES ASSUME NEW i \in K, NEW j \in K, R[i] = R[j]
                 PROVE  i = j
      OBVIOUS
    <3>1. Rank(i, K) = Rank(j, K) /\ Rank(i, K) \in Nat
      BY <1>2, ZenonT(40)
    <3>2. ~(i < j) /\ ~(j < i)
      BY <3>1, <1>5
    <3>3. i \in Nat /\ j \in Nat
      OBVIOUS
    <3> QED
      BY <3>2, <3>3
  <2> QED
    BY <2>1, <2>2 DEF Injection, IsInjective
<1>7. IsFiniteSet(1..n) /\ Cardinality(1..n) = n
  BY <1>1, FS_Interval
<1>8. R \in Surjection(K, 1..n)
  BY <1>6, <1>7, FS_Injection, ZenonT(40), SMTT(40)
<1> QED
  BY <1>4, <1>5, <1>8, ZenonT(40) DEF Surjection

\* Deleting nodes leaves a queue of the nodes that are not deleted.
LEMMA WithoutType ==
    ASSUME NEW S, NEW q \in Seq(S), NEW T
    PROVE  /\ Without(q, T) \in Seq(S)
           /\ Range(Without(q, T)) = Range(q) \ T
<1> DEFINE K == Kept(q, T)
           n == Cardinality(K)
           P(m) == CHOOSE i \in K : Rank(i, K) = m
<1>1. K \in SUBSET Nat /\ IsFiniteSet(K) /\ n \in Nat /\ K \subseteq DOMAIN q
  <2>1. K \subseteq 1..Len(q) /\ Len(q) \in Nat /\ IsFiniteSet(K) /\ n \in Nat
    BY KeptFinite
  <2> QED
    BY <2>1
<1>2. /\ \A i \in K : Rank(i, K) \in 1..n
      /\ \A i, j \in K : i < j => Rank(i, K) < Rank(j, K)
      /\ \A m \in 1..n : \E i \in K : Rank(i, K) = m
  BY <1>1, RankBijective
<1>3. \A m \in 1..n : P(m) \in K /\ Rank(P(m), K) = m
  BY <1>2
<1>4. \A i \in K : P(Rank(i, K)) = i
  <2> TAKE i \in K
  <2> DEFINE j == P(Rank(i, K))
  <2>1. j \in K /\ Rank(j, K) = Rank(i, K)
    BY <1>2, <1>3
  <2>2. ~(i < j) /\ ~(j < i)
    <3> HIDE DEF j
    <3> QED
      BY <2>1, <1>2
  <2> HIDE DEF j
  <2>3. i \in Nat /\ j \in Nat
    BY <2>1, <1>1
  <2>4. i = j
    BY <2>2, <2>3
  <2> QED
    BY <2>4 DEF j
<1>5. Without(q, T) = [m \in 1..n |-> q[P(m)]]
  BY DEF Without
<1> HIDE DEF P
<1>6. \A m \in 1..n : q[P(m)] \in S
  BY <1>1, <1>3
<1>7. Without(q, T) \in Seq(S)
  BY <1>1, <1>5, <1>6, SMTT(40), ZenonT(40)
<1>8. Range(Without(q, T)) = {q[P(m)] : m \in 1..n}
  BY <1>5 DEF Range
<1>9. {q[P(m)] : m \in 1..n} = {q[i] : i \in K}
  BY <1>2, <1>3, <1>4, SMTT(40), ZenonT(40)
<1>10. {q[i] : i \in K} = Range(q) \ T
  BY DEF Kept, Range
<1> QED
  BY <1>7, <1>8, <1>9, <1>10, ZenonT(40), SMTT(40)

\* Deleting other nodes leaves the last node last.
LEMMA WithoutLast ==
    ASSUME NEW S, NEW q \in Seq(S), NEW T, q # <<>>, LastOf(q) \notin T
    PROVE  Without(q, T) # <<>> /\ LastOf(Without(q, T)) = LastOf(q)
<1> DEFINE K == Kept(q, T)
           n == Cardinality(K)
           l == Len(q)
<1>1. /\ K \in SUBSET Nat /\ IsFiniteSet(K) /\ n \in Nat
      /\ l \in Nat /\ l # 0 /\ K \subseteq 1..l
  BY KeptFinite
<1>2. l \in K
  BY <1>1 DEF Kept, LastOf
<1>3. {k \in K : k <= l} = K
  BY <1>1
<1>4. Rank(l, K) = n
  BY <1>3, ZenonT(40) DEF Rank
<1>5. \A i \in K : i < l => Rank(i, K) < Rank(l, K)
  BY <1>1, <1>2, RankBijective, ZenonT(40), SMTT(40)
<1>6. n \in 1..n /\ \A i \in K : Rank(i, K) \in 1..n
  BY <1>1, <1>2, <1>4, RankBijective, ZenonT(40), SMTT(40)
<1>7. (CHOOSE i \in K : Rank(i, K) = n) = l
  <2> DEFINE j == CHOOSE i \in K : Rank(i, K) = n
  <2>1. j \in K /\ Rank(j, K) = n
    BY <1>2, <1>4, ZenonT(40), SMTT(40)
  <2> HIDE DEF j
  <2>2. ~(j < l)
    BY <2>1, <1>1, <1>4, <1>5, SMTT(40), ZenonT(40)
  <2>3. j = l
    BY <2>1, <2>2, <1>1, SMTT(40), ZenonT(40)
  <2> QED
    BY <2>3 DEF j
<1>8. Without(q, T) = [m \in 1..n |-> q[CHOOSE i \in K : Rank(i, K) = m]]
  BY DEF Without
<1>9. Without(q, T) \in Seq(S)
  BY WithoutType
<1>10. Len(Without(q, T)) = n
  BY <1>1, <1>8, <1>9, SMTT(40), ZenonT(40)
<1>11. Without(q, T)[n] = q[l]
  BY <1>6, <1>7, <1>8, ZenonT(40)
<1> QED
  BY <1>6, <1>9, <1>10, <1>11, SMTT(40), ZenonT(40) DEF LastOf

\* A set of numbers that has a bound and a member has a greatest member.
LEMMA GreatestExists ==
    ASSUME NEW N \in Nat, NEW A, A \subseteq 0..N, A # {}
    PROVE  \E a \in A : \A b \in A : b <= a
<1> DEFINE T == {N - a : a \in A}
           R == OpToRel(<, Nat)
<1>0. \A a \in A : a \in Nat /\ N - a \in Nat
  OBVIOUS
<1>1. T \subseteq Nat /\ T # {}
  BY <1>0, ZenonT(40)
<1>2. \E x \in T : \A y \in T : ~(<<y, x>> \in R)
  BY <1>1, NatLessThanWellFounded, WFMin, ZenonT(40)
<1>3. PICK x \in T : \A y \in T : ~(<<y, x>> \in R)
  BY <1>2, ZenonT(40)
<1>4. \A y \in T : ~(y < x)
  BY <1>1, <1>3, ZenonT(40) DEF OpToRel
<1>5. PICK a \in A : x = N - a
  OBVIOUS
<1>6. \A b \in A : ~(N - b < N - a)
  BY <1>4, <1>5, ZenonT(40)
<1>7. \A b \in A : b <= a
  <2> TAKE b \in A
  <2>1. a \in Nat /\ b \in Nat /\ ~(N - b < N - a)
    BY <1>0, <1>6
  <2> QED
    BY <2>1
<1> QED
  BY <1>7

\* The laws hold.
LEMMA QueueLawsHold == QueueLaws
<1>1. ASSUME NEW S, NEW q \in Seq(S), NEW T
      PROVE  /\ Without(q, T) \in Seq(S)
             /\ Range(Without(q, T)) = Range(q) \ T
             /\ q # <<>> /\ LastOf(q) \notin T =>
                   Without(q, T) # <<>> /\ LastOf(Without(q, T)) = LastOf(q)
  BY <1>1, WithoutType, WithoutLast, ZenonT(40), SMTT(40)
<1>2. ASSUME NEW N \in Nat, NEW A \in SUBSET (0..N), A # {}
      PROVE  \E a \in A : \A b \in A : b <= a
  BY <1>2, GreatestExists, ZenonT(40)
<1> QED
  BY <1>1, <1>2, ZenonT(40) DEF QueueLaws

\* Every handler, from accept() to del_client(), preserves the invariant.
LEMMA NextInv ==
    ASSUME QueueLaws, IndInv, [Next]_vars
    PROVE  IndInv'
<1>1. CASE UNCHANGED vars
  <2>1. UNCHANGED <<connVars, callVars, serviceVars, tranVars, serving, status>> /\ out' = out
    BY <1>1, Zenon DEF vars
  <2>2. out' \in [Client -> Messages]
    BY <2>1, Zenon DEF IndInv, TypeOK
  <2> QED
    BY <2>1, <2>2, MessageInv, ZenonT(40), SMTT(40)
<1>2. ASSUME NEW c \in Client, new_client(c) PROVE IndInv'
  BY <1>2, new_clientInv, ZenonT(40), SMTT(40)
<1>3. ASSUME NEW c \in Client, NEW s \in Service, NEW f \in Func, svradvertise(c, s, f)
      PROVE  IndInv'
  BY <1>3, svradvertiseInv
<1>4. ASSUME NEW c \in Client, NEW s \in Service,
             svrunadvertise_fails(c, s) \/ svracall_fails(c, s)
      PROVE  IndInv'
  <2>1. out' \in [Client -> Messages]
    BY <1>4, WroteType, ReplyTypes, SMTT(40), ZenonT(40) DEF svracall_fails, svrunadvertise_fails, Answer, Errno
  <2>2. UNCHANGED <<connVars, callVars, serviceVars, tranVars, serving, status>>
    BY <1>4 DEF svracall_fails, svrunadvertise_fails, Answer
  <2> QED
    BY <2>1, <2>2, MessageInv, ZenonT(40), SMTT(40)
<1>5. ASSUME NEW c \in Client, NEW s \in Service, svrunadvertise(c, s) PROVE IndInv'
  BY <1>5, svrunadvertiseInv, ZenonT(40), SMTT(40)
<1>6. ASSUME NEW c \in Client, NEW s \in Service, NEW t \in Tran, svracall(c, s, t)
      PROVE  IndInv'
  BY <1>6, svracallInv
<1>7. ASSUME NEW c \in Client, send_to_worker(c) PROVE IndInv'
  BY <1>7, send_to_workerInv
<1>8. ASSUME NEW c \in Client, NEW cd \in Tran, NEW getany \in BOOLEAN,
             svrgetrply_extant(c, cd, getany)
      PROVE  IndInv'
  BY <1>8, svrgetrply_extantInv
<1>9. ASSUME NEW c \in Client, NEW cd \in Tran, NEW getany \in BOOLEAN,
             svrgetrply_waits(c, cd, getany)
      PROVE  IndInv'
  BY <1>9, svrgetrply_waitsInv
<1>10. ASSUME NEW c \in Client, NEW cd \in Tran, NEW getany \in BOOLEAN,
              NEW noblock \in BOOLEAN, svrgetrply_fails(c, cd, getany, noblock)
       PROVE  IndInv'
  <2>1. out' \in [Client -> Messages]
    BY <1>10, WroteType, ReplyTypes, ZenonT(40), SMTT(40) DEF svrgetrply_fails, Answer, Errno
  <2>2. UNCHANGED <<connVars, callVars, serviceVars, tranVars, serving, status>>
    BY <1>10, ZenonT(40), SMTT(40) DEF svrgetrply_fails, Answer
  <2> QED
    BY <2>1, <2>2, MessageInv, ZenonT(40), SMTT(40)
<1>11. ASSUME NEW c \in Client, svrservice_immediate(c) PROVE IndInv'
  BY <1>11, svrservice_immediateInv
<1>12. ASSUME NEW c \in Client, svrservice_waits(c) PROVE IndInv'
  BY <1>12, svrservice_waitsInv
<1>13. ASSUME NEW c \in Client, NEW rv \in Results, svrreturn(c, rv) PROVE IndInv'
  BY <1>13, svrreturnInv, ZenonT(40), SMTT(40)
<1>14. ASSUME NEW c \in Client, part2(c) PROVE IndInv'
  BY <1>14, part2Inv
<1>15. ASSUME NEW c \in Client, Quit(c) PROVE IndInv'
  BY <1>15, del_clientInv, ZenonT(40), SMTT(40) DEF Quit
<1> QED
  BY <1>1, <1>2, <1>3, <1>4, <1>5, <1>6, <1>7, <1>8, <1>9, <1>10, <1>11, <1>12, <1>13,
     <1>14, <1>15, Zenon DEF Next

\* Between two messages the tables of the switchboard are consistent, as long as
\* the process runs as written.
THEOREM TablesConsistent == Spec => []IndInv
<1>1. Init => IndInv
  BY InitInv
<1>2. IndInv /\ [Next]_vars => IndInv'
  BY NextInv, QueueLawsHold, ZenonT(40), SMTT(40)
<1> QED
  BY <1>1, <1>2, PTL DEF Spec

\* The tables always hold what their structs declare (server.h).
THEOREM TypeCorrect == Spec => []TypeOK
<1>1. IndInv => TypeOK
  BY ZenonT(40), SMTT(40) DEF IndInv
<1> QED
  BY <1>1, TablesConsistent, PTL

\* A wait queue holds the workers or the transactions of its service, never both,
\* and wait_contains_transactions says which (server.h, struct tpservice).
THEOREM WaitqIsHomogeneous == Spec => []WaitqHomogeneous
<1>1. IndInv => WaitqHomogeneous
  BY ZenonT(40), SMTT(40) DEF IndInv
<1> QED
  BY <1>1, TablesConsistent, PTL

\* A worker waits on the queues of all its services or of none, and only while the
\* switchboard expects no input from it (svrservice, send_to_server).
THEOREM WorkersWaitEverywhere == Spec => []WaitsEverywhere
<1>1. IndInv => WaitsEverywhere
  <2> SUFFICES ASSUME IndInv, Up, NEW c \in clients, NEW s \in Service, Idle(c, s)
               PROVE  Hanging(c) /\ \A r \in Offers(c) : Idle(c, r)
    BY DEF WaitsEverywhere
  <2>1. c \in Client
    BY Basics, ZenonT(40), SMTT(40) DEF IndInv
  <2> QED
    BY <2>1 DEF IndInv, Quiet, Hanging
<1> QED
  BY <1>1, TablesConsistent, PTL

\* No transaction is queued for a service that an idle worker advertises: neither
\* send_to_worker nor svrservice misses a match.
THEOREM NoMissedMatch == Spec => []NoIdleWorkerForQueued
<1>1. IndInv => NoIdleWorkerForQueued
  <2> SUFFICES ASSUME IndInv, Up, NEW c \in clients, NEW s \in Offers(c),
                      NEW r \in Service, Idle(c, r), NEW x \in Range(waitq[s]), x \in Live
               PROVE  FALSE
    BY DEF NoIdleWorkerForQueued
  <2>1. c \in Client /\ s \in Service /\ Live \subseteq Tran
    BY Basics, ZenonT(40), SMTT(40) DEF IndInv, Offers
  <2>2. Idle(c, s)
    BY <2>1 DEF IndInv, Quiet
  <2>3. ~wct[s]
    BY <2>1, <2>2, OnWaitq, ZenonT(40), SMTT(40) DEF Idle
  <2>4. wct[s]
    BY <2>1, OnWaitq, ZenonT(40), SMTT(40)
  <2> QED
    BY <2>3, <2>4, ZenonT(40), SMTT(40)
<1> QED
  BY <1>1, TablesConsistent, PTL

\* Every transaction is on exactly one list, requests or replies, of its caller,
\* which is connected (new_transaction, svracall, part2, del_client).
THEOREM TransactionsAreOwned == Spec => []TransactionsOwned
<1>1. IndInv => TransactionsOwned
  BY ZenonT(40), SMTT(40) DEF IndInv
<1> QED
  BY <1>1, TablesConsistent, PTL

\* A service exists exactly while somebody advertises it (new_advertisement,
\* del_advertisement).
THEOREM ServicesAreAdvertised == Spec => []ServicesAdvertised
<1>1. IndInv => ServicesAdvertised
  BY ZenonT(40), SMTT(40) DEF IndInv
<1> QED
  BY <1>1, TablesConsistent, PTL

\* send_to_worker may take the last of the client's requests: it is the one whose
\* data has just been read (svracall.c).
THEOREM ReadIsMostRecent == Spec => []MostRecentIsRead
<1>1. IndInv => MostRecentIsRead
  BY ZenonT(40), SMTT(40) DEF IndInv, Reading, MostRecentIsRead
<1> QED
  BY <1>1, TablesConsistent, PTL

\* A caller never hangs for a reply that is already there (svrgetrply, part2).
THEOREM NoReplyIsMissed == Spec => []NoMissedReply
<1>1. IndInv => NoMissedReply
  BY ZenonT(40), SMTT(40) DEF IndInv
<1> QED
  BY <1>1, TablesConsistent, PTL

\* What is among the replies has a result to send (svrreturn, del_client).
THEOREM RepliesHaveResults == Spec => []RepliesCompleted
<1>1. IndInv => RepliesCompleted
  BY DEF IndInv
<1> QED
  BY <1>1, TablesConsistent, PTL

\* No handler loses a transaction: one is deleted only when its reply is written to
\* its caller, with its caller or with its service (del_transaction and its callers).
THEOREM NoTransactionIsLost == Spec => TransactionFate
<1>1. IndInv /\ [Next]_vars => [Accounted]_vars
  BY NextAccounted, QueueLawsHold
<1> QED
  BY <1>1, TablesConsistent, PTL DEF Spec, TransactionFate

\* Every request is being read, waits on a queue or is in the hands of a worker, whose
\* end del_client() would notice, as long as no service routine makes calls of its own
\* (svracall, send_to_server, part2, del_client).
THEOREM NoRequestIsForgotten == Spec => []NoneForgotten
<1>1. Init => AttendInv
  BY InitAttend
<1>2. IndInv /\ AttendInv /\ [Next]_vars => AttendInv'
  BY NextAttend, QueueLawsHold, Zenon
<1>3. AttendInv => NoneForgotten
  BY Zenon DEF AttendInv
<1> QED
  BY <1>1, <1>2, <1>3, TablesConsistent, PTL DEF Spec

\* While a caller hangs with a request outstanding, the switchboard expects input from a
\* worker that has it in hand or that advertises its service: it is never everyone that
\* waits (svrgetrply, svrservice).
THEOREM SomebodyMoves == Spec => []NotAllWait
<1>1. Init => AttendInv
  BY InitAttend
<1>2. IndInv /\ AttendInv /\ [Next]_vars => AttendInv'
  BY NextAttend, QueueLawsHold, Zenon
<1>3. IndInv /\ AttendInv => NotAllWait
  BY AttendedMoves, Zenon
<1> QED
  BY <1>1, <1>2, <1>3, TablesConsistent, PTL DEF Spec

\* The switchboard keeps what Calls promises its callers: no call is finished or
\* answered twice, answered to another client, revived, or ended without a reply
\* while its caller and its service stay (svracall, part2, svrgetrply, del_client).
THEOREM CallsImplemented == Spec => ImplementsCalls
<1>1. Init => Promise!Init
  <2> SUFFICES ASSUME Init PROVE Promise!Init
    OBVIOUS
  <2>1. Range(<<>>) = {}
    BY DEF Range
  <2>2. Requested = [c \in Client |-> {}] /\ Replied = [c \in Client |-> {}]
    BY <2>1 DEF Init, Requested, Replied
  <2>3. Sent = {}
    BY DEF Init, Sent, Silent, NoMsg, Msg
  <2> QED
    BY <2>2, <2>3 DEF Init, Promise!Init
<1>2. IndInv /\ [Next]_vars => [Promise!Next]_(Promise!vars)
  BY NextPromised, QueueLawsHold
<1> QED
  BY <1>1, <1>2, TablesConsistent, PTL DEF Spec, ImplementsCalls, Promise!Spec

================================================================================
