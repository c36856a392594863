--------------------------- MODULE SwitchboardProofs ---------------------------
(***************************************************************************)
(* The facts on which the proofs about the switchboard rest: what the      *)
(* queues and the types of the tables say.  Then the handlers that delete  *)
(* no transaction keep the tables consistent, that is, preserve IndInv:    *)
(* first those that dispatch none either, then those that hand one to a    *)
(* worker or leave a worker waiting for one.                               *)
(***************************************************************************)
EXTENDS Switchboard, TLAPS

\* What the handlers need to know of queues and numbers, and what takes induction to
\* show: deleting a set of nodes leaves a queue of the same kind, which holds
\* exactly the other nodes, and whose last node is the old one if that stays; a
\* bounded set of numbers has a greatest member.  These are the only facts about
\* Without that the proofs use.  QueueLawsHold (SwitchboardTheorems) proves them.
QueueLaws ==
    /\ \A S : \A q \in Seq(S) : \A T :
          /\ Without(q, T) \in Seq(S)
          /\ Range(Without(q, T)) = Range(q) \ T
          /\ q # <<>> /\ LastOf(q) \notin T =>
                Without(q, T) # <<>> /\ LastOf(Without(q, T)) = LastOf(q)
    /\ \A N \in Nat : \A A \in SUBSET (0..N) :
          A # {} => \E a \in A : \A b \in A : b <= a

\* qappend() at the end of a queue adds the node, last.
LEMMA AppendFacts ==
    ASSUME NEW S, NEW q \in Seq(S), NEW x \in S
    PROVE  /\ Append(q, x) \in Seq(S)
           /\ Range(Append(q, x)) = Range(q) \cup {x}
           /\ Append(q, x) # <<>>
           /\ LastOf(Append(q, x)) = x
<1> DEFINE r == Append(q, x)
<1>1. r \in Seq(S) /\ Len(r) = Len(q) + 1 /\ Len(q) \in Nat /\ r # <<>>
  OBVIOUS
<1>2. /\ DOMAIN q = 1..Len(q) /\ DOMAIN r = 1..Len(q) + 1
      /\ \A i \in 1..Len(q) : r[i] = q[i]
      /\ r[Len(q) + 1] = x
  OBVIOUS
<1> HIDE DEF r
<1>3. Range(r) = Range(q) \cup {x}
  <2>1. \A i \in DOMAIN r : r[i] \in Range(q) \cup {x}
    BY <1>1, <1>2 DEF Range
  <2>2. \A i \in DOMAIN q : q[i] \in Range(r)
    BY <1>1, <1>2 DEF Range
  <2>3. x \in Range(r)
    BY <1>1, <1>2 DEF Range
  <2> QED
    BY <2>1, <2>2, <2>3 DEF Range
<1>4. LastOf(r) = x
  BY <1>1, <1>2 DEF LastOf
<1> QED
  BY <1>1, <1>3, <1>4 DEF r

\* Moving a node to the end of a queue makes it the last one of the same nodes.
LEMMA MoveToEndFacts ==
    ASSUME QueueLaws, NEW S, NEW q \in Seq(S), NEW x \in S
    PROVE  /\ MoveToEnd(q, x) \in Seq(S)
           /\ Range(MoveToEnd(q, x)) = Range(q) \cup {x}
<1> DEFINE r == Without(q, {x})
<1>1. r \in Seq(S) /\ Range(r) = Range(q) \ {x}
  BY DEF QueueLaws
<1>2. MoveToEnd(q, x) = Append(r, x)
  BY DEF MoveToEnd
<1> HIDE DEF r
<1>3. Append(r, x) \in Seq(S) /\ Range(Append(r, x)) = Range(r) \cup {x}
  BY <1>1, AppendFacts
<1> QED
  BY <1>1, <1>2, <1>3

\* The first and the last node are on the queue, if it has nodes at all.
LEMMA EndsFacts ==
    ASSUME NEW S, NEW q \in Seq(S)
    PROVE  /\ Range(q) \subseteq S
           /\ q = <<>> <=> Range(q) = {}
           /\ q # <<>> => Head(q) \in Range(q) /\ LastOf(q) \in Range(q)
<1>1. Len(q) \in Nat /\ q \in [1..Len(q) -> S] /\ (q = <<>> <=> Len(q) = 0)
  OBVIOUS
<1>2. Range(q) \subseteq S
  BY <1>1 DEF Range
<1>3. ASSUME q # <<>>
      PROVE  Head(q) \in Range(q) /\ LastOf(q) \in Range(q)
  <2>1. Head(q) = q[1] /\ 1 \in DOMAIN q /\ Len(q) \in DOMAIN q
    BY <1>1, <1>3
  <2> QED
    BY <2>1 DEF Range, LastOf
<1>4. q = <<>> => Range(q) = {}
  BY <1>1 DEF Range
<1> QED
  BY <1>2, <1>3, <1>4

\* What the laws say of the queues of transactions.
LEMMA TranQueues ==
    ASSUME QueueLaws
    PROVE  \A q \in Seq(Tran) : \A T :
               /\ Without(q, T) \in Seq(Tran)
               /\ Range(Without(q, T)) = Range(q) \ T
               /\ q # <<>> /\ LastOf(q) \notin T =>
                     Without(q, T) # <<>> /\ LastOf(Without(q, T)) = LastOf(q)
  BY DEF QueueLaws

\* What they say of the services' wait queues.
LEMMA WaitQueues ==
    ASSUME QueueLaws
    PROVE  \A q \in Seq(Client \cup Tran) : \A T :
               /\ Without(q, T) \in Seq(Client \cup Tran)
               /\ Range(Without(q, T)) = Range(q) \ T
  BY DEF QueueLaws

\* Null, freed and real pointers, and the wildcard, can be told apart.
LEMMA Pointers ==
    /\ None \notin Tran /\ AnyTran \notin Tran /\ Freed \notin Tran
    /\ None # AnyTran /\ None # Freed /\ AnyTran # Freed
    /\ None \notin Client /\ Freed \notin Client
    /\ None \notin Service /\ Freed \notin Service /\ None \notin Func
    /\ \A c \in Client : c \notin Tran
  BY SwitchboardConstants

\* The tables hold members of the sets they are declared over.
LEMMA Basics ==
    ASSUME TypeOK
    PROVE  /\ clients \subseteq Client /\ Live \subseteq Tran
           /\ \A d \in Client : /\ Offers(d) \subseteq Service
                               /\ requests[d] \in Seq(Tran) /\ replies[d] \in Seq(Tran)
                               /\ Range(requests[d]) \subseteq Tran
                               /\ Range(replies[d]) \subseteq Tran
           /\ \A s \in Service : /\ waitq[s] \in Seq(Client \cup Tran)
                                /\ Range(waitq[s]) \subseteq Client \cup Tran
<1>1. /\ clients \subseteq Client /\ tptransactions \in Seq(Tran)
      /\ requests \in [Client -> Seq(Tran)] /\ replies \in [Client -> Seq(Tran)]
      /\ waitq \in [Service -> Seq(Client \cup Tran)]
  BY Zenon DEF TypeOK
<1>2. Live \subseteq Tran
  BY <1>1, EndsFacts DEF Live
<1>3. \A d \in Client : Offers(d) \subseteq Service
  BY DEF Offers
<1>4. \A d \in Client : /\ requests[d] \in Seq(Tran) /\ Range(requests[d]) \subseteq Tran
                        /\ replies[d] \in Seq(Tran) /\ Range(replies[d]) \subseteq Tran
  BY <1>1, EndsFacts
<1>5. \A s \in Service : /\ waitq[s] \in Seq(Client \cup Tran)
                         /\ Range(waitq[s]) \subseteq Client \cup Tran
  BY <1>1, EndsFacts
<1> QED
  BY <1>1, <1>2, <1>3, <1>4, <1>5

\* A handler's messages are messages.
LEMMA WroteType ==
    /\ Silent \in [Client -> Messages]
    /\ \A c : \A m \in Messages : Wrote(c, m) \in [Client -> Messages]
  BY DEF Silent, Wrote, NoMsg, Msg, Messages

\* The tables are consistent when the process starts.
LEMMA InitInv == Init => IndInv
<1> SUFFICES ASSUME Init PROVE IndInv
  OBVIOUS
<1>1. TypeOK
  BY WroteType DEF Init, TypeOK
<1>2. Live = {}
  BY DEF Init, Live, Range
<1>3. \A c \in Client : Range(requests[c]) = {} /\ Range(replies[c]) = {}
  BY DEF Init, Range
<1>4. \A s \in Service : Range(waitq[s]) = {}
  BY DEF Init, Range
<1>5. WaitqHomogeneous /\ TransactionsOwned
  BY <1>2, <1>3, <1>4 DEF WaitqHomogeneous, TransactionsOwned
<1>6. ServicesAdvertised
  BY DEF Init, ServicesAdvertised, Advertisers
<1>7. NoMissedReply /\ RepliesCompleted
  BY <1>2, <1>3 DEF Init, NoMissedReply, RepliesCompleted, Hanging
<1>8. Disconnected /\ PointersLive /\ Reading /\ Returning /\ Quiet
  BY <1>4, SwitchboardConstants
     DEF Init, Disconnected, PointersLive, Reading, Returning, Quiet, Offers, Idle
<1> QED
  BY <1>1, <1>5, <1>6, <1>7, <1>8 DEF IndInv

\* Nothing is claimed once the process is down but the types.
LEMMA DownInv ==
    ASSUME TypeOK, NEW why \in {"null", "freed"}, Down(why)
    PROVE  IndInv'
<1>1. TypeOK'
  BY WroteType DEF TypeOK, Down, connVars, callVars, serviceVars, tranVars
<1>2. ~Up'
  BY DEF Down, Up
<1> QED
  BY <1>1, <1>2 DEF IndInv, WaitqHomogeneous, TransactionsOwned,
     ServicesAdvertised, NoMissedReply, RepliesCompleted

\* The same for a handler that fails an assertion.
LEMMA NotUpInv ==
    ASSUME TypeOK', ~Up'
    PROVE  IndInv'
  BY DEF IndInv, WaitqHomogeneous, TransactionsOwned,
     ServicesAdvertised, NoMissedReply, RepliesCompleted

\* A handler that only writes a message changes no table.
LEMMA MessageInv ==
    ASSUME IndInv, out' \in [Client -> Messages],
           UNCHANGED <<connVars, callVars, serviceVars, tranVars, serving, status>>
    PROVE  IndInv'
<1> USE DEF connVars, callVars, serviceVars, tranVars
<1>1. TypeOK'
  BY DEF IndInv, TypeOK
<1>2. WaitqHomogeneous' /\ TransactionsOwned' /\ ServicesAdvertised'
  BY DEF IndInv, WaitqHomogeneous, TransactionsOwned, ServicesAdvertised, Up, Live,
         Offers, Advertisers
<1>3. NoMissedReply' /\ RepliesCompleted'
  BY DEF IndInv, NoMissedReply, RepliesCompleted, Up, Live, Hanging
<1>4. Up' => Disconnected' /\ PointersLive' /\ Reading' /\ Returning' /\ Quiet'
  BY DEF IndInv, Disconnected, PointersLive, Reading, Returning, Quiet, Up, Live,
         Offers, Idle
<1> QED
  BY <1>1, <1>2, <1>3, <1>4 DEF IndInv

\* Iowait accepting a client keeps the tables consistent.
LEMMA new_clientInv ==
    ASSUME IndInv, NEW c \in Client, new_client(c)
    PROVE  IndInv'
<1> USE DEF callVars, serviceVars, tranVars
<1>1. TypeOK'
  BY WroteType, ZenonT(40) DEF IndInv, TypeOK, new_client
<1>2. Up /\ Up' /\ Live' = Live /\ clients' = clients \cup {c}
  BY DEF new_client, Up, Live
<1>3. Offers(c) = {} /\ \A d \in Client : Offers(d)' = Offers(d)
  BY <1>2 DEF IndInv, Disconnected, new_client, Offers
<1>4. \A s \in Service : Advertisers(s)' = Advertisers(s)
  BY <1>2, <1>3 DEF Advertisers, IndInv, TypeOK
<1>5. WaitqHomogeneous'
  BY <1>2, <1>3 DEF IndInv, WaitqHomogeneous, new_client, TypeOK
<1>6. TransactionsOwned'
  BY <1>2 DEF IndInv, TransactionsOwned, new_client
<1>7. ServicesAdvertised'
  BY <1>2, <1>4 DEF IndInv, ServicesAdvertised, new_client
<1>8. RepliesCompleted'
  BY <1>2 DEF IndInv, RepliesCompleted, new_client
<1>9. NoMissedReply'
  BY <1>2 DEF IndInv, NoMissedReply, new_client, Hanging, TypeOK
<1>10. Disconnected' /\ PointersLive' /\ Reading' /\ Returning'
  BY <1>2, <1>3, ZenonT(40), SMTT(40) DEF IndInv, Disconnected, PointersLive, Reading, Returning, new_client, TypeOK
<1>11. \A s \in Service : c \notin Range(waitq[s])
  BY <1>2, Pointers, Basics
     DEF IndInv, WaitqHomogeneous, new_client, Live, TypeOK
<1>12. Quiet'
  BY <1>2, <1>3, <1>11 DEF IndInv, Quiet, Disconnected, new_client, Idle, TypeOK
<1> QED
  BY <1>1, <1>5, <1>6, <1>7, <1>8, <1>9, <1>10, <1>12 DEF IndInv

\* An error number, or a zero status, is a message.
LEMMA ReplyTypes ==
    /\ Msg("ok", None, None) \in Messages
    /\ \A e \in Errno : Msg("errno", None, e) \in Messages
    /\ \A t \in Tran : Msg("cd", t, None) \in Messages
    /\ \A t \in Tran : \A v \in Rval \cup {None} : Msg("reply", t, v) \in Messages
    /\ \A t \in Tran : \A f \in Func \cup {None} : Msg("work", t, f) \in Messages
  BY DEF Msg, Messages

\* A step that changes no advertisement, no client and no service.
LEMMA ServicesKept ==
    ASSUME ServicesAdvertised, Up, clients \subseteq Client,
           clients' = clients, services' = services,
           \A d \in Client : Offers(d)' = Offers(d)
    PROVE  ServicesAdvertised'
<1>1. \A s \in Service : Advertisers(s)' = Advertisers(s)
  BY DEF Advertisers
<1> QED
  BY <1>1 DEF ServicesAdvertised

\* svradvertise keeps the tables consistent: its client is not on a wait queue.
LEMMA svradvertiseInv ==
    ASSUME IndInv, NEW c \in Client, NEW s \in Service, NEW f \in Func,
           svradvertise(c, s, f)
    PROVE  IndInv'
<1> USE DEF connVars, callVars, tranVars
<1>1. out' \in [Client -> Messages]
  BY WroteType, ReplyTypes DEF svradvertise, Answer, Errno
<1>2. TypeOK'
  BY <1>1, ZenonT(90), SMTT(40) DEF IndInv, TypeOK, svradvertise, Answer
<1>3. /\ Up /\ Up' /\ Live' = Live /\ clients' = clients /\ c \in clients
      /\ handler[c] = "command" /\ handler' = handler
  BY ZenonT(40), SMTT(40) DEF svradvertise, Answer, Up, Live, Input
<1>4. /\ Offers(c)' = Offers(c) \cup {s}
      /\ \A d \in Client \ {c} : Offers(d)' = Offers(d)
  <2>1. adverts \in [Client -> [Service -> Func \cup {None}]]
    BY DEF IndInv, TypeOK
  <2>2. adverts' = [adverts EXCEPT ![c][s] = IF @ = None THEN f ELSE @] /\ f # None
    BY Pointers DEF svradvertise
  <2>3. adverts'[c][s] # None /\ \A r \in Service \ {s} : adverts'[c][r] = adverts[c][r]
    BY <2>1, <2>2
  <2>4. \A d \in Client \ {c} : adverts'[d] = adverts[d]
    BY <2>1, <2>2
  <2> QED
    BY <2>3, <2>4, ZenonT(40), SMTT(40) DEF Offers
<1>5. /\ Advertisers(s)' = Advertisers(s) \cup {c}
      /\ \A r \in Service \ {s} : Advertisers(r)' = Advertisers(r)
  <2>1. clients \subseteq Client
    BY DEF IndInv, TypeOK
  <2>2. \A d \in clients : \A r \in Service :
            r \in Offers(d)' <=> r \in Offers(d) \/ (d = c /\ r = s)
    BY <1>4, <2>1
  <2> QED
    BY <1>3, <2>2 DEF Advertisers
<1>6. WaitqHomogeneous'
  <2>1. clients \subseteq Client
    BY DEF IndInv, TypeOK
  <2>2. waitq' = waitq /\ wct' = wct /\ tsvc' = tsvc
    BY DEF svradvertise
  <2>3. \A d \in clients : \A r \in Service : r \in Offers(d) => r \in Offers(d)'
    BY <1>4, <2>1
  <2> QED
    BY <1>3, <2>2, <2>3 DEF IndInv, WaitqHomogeneous
<1>7. TransactionsOwned' /\ RepliesCompleted' /\ NoMissedReply'
  BY <1>3 DEF IndInv, TransactionsOwned, RepliesCompleted, NoMissedReply, Hanging,
              svradvertise, Answer
<1>8. ServicesAdvertised'
  BY <1>3, <1>5, ZenonT(40), SMTT(40) DEF IndInv, ServicesAdvertised, svradvertise
<1>9. Disconnected' /\ PointersLive' /\ Reading' /\ Returning'
  BY <1>3, <1>4 DEF IndInv, Disconnected, PointersLive, Reading, Returning,
                    svradvertise, Answer
<1>10. Quiet'
  BY <1>3, <1>4 DEF IndInv, Quiet, Idle, svradvertise, Answer
<1> QED
  BY <1>2, <1>6, <1>7, <1>8, <1>9, <1>10 DEF IndInv

\* What is on a wait queue: live transactions or connected clients.
LEMMA OnWaitq ==
    ASSUME IndInv, Up, NEW s \in Service, NEW x \in Range(waitq[s])
    PROVE  /\ x \in Client \cup Tran
           /\ x \in Tran => x \in Live /\ tsvc[x] = s /\ wct[s]
           /\ x \in Client => x \in clients /\ s \in Offers(x) /\ ~wct[s]
<1>1. TypeOK
  BY DEF IndInv
<1>2. x \in Client \cup Tran /\ Live \subseteq Tran /\ clients \subseteq Client
  BY <1>1, Basics
<1> QED
  BY <1>2, Pointers DEF IndInv, WaitqHomogeneous

\* svracall keeps the tables consistent: no pointer leads to new memory.
LEMMA svracallInv ==
    ASSUME IndInv, NEW c \in Client, NEW s \in Service, NEW t \in Tran,
           svracall(c, s, t)
    PROVE  IndInv'
<1> USE DEF serviceVars
<1>0. TypeOK
  BY DEF IndInv
<1>1. out' \in [Client -> Messages]
  BY WroteType, ReplyTypes DEF svracall
<1>2. /\ Append(requests[c], t) \in Seq(Tran)
      /\ Range(Append(requests[c], t)) = Range(requests[c]) \cup {t}
      /\ Append(requests[c], t) # <<>> /\ LastOf(Append(requests[c], t)) = t
  <2>1. requests[c] \in Seq(Tran)
    BY <1>0 DEF TypeOK
  <2> QED
    BY <2>1, AppendFacts
<1>3. /\ Append(tptransactions, t) \in Seq(Tran)
      /\ Range(Append(tptransactions, t)) = Live \cup {t}
  BY <1>0, AppendFacts, ZenonT(40), SMTT(40) DEF TypeOK, Live
<1>4. TypeOK'
  BY <1>0, <1>1, <1>2, <1>3, ZenonT(40), SMTT(40) DEF TypeOK, svracall, new_transaction
<1>5. /\ Up /\ Up' /\ Live' = Live \cup {t} /\ t \notin Live
      /\ c \in clients /\ clients' = clients /\ handler[c] = "command"
  BY <1>3 DEF svracall, new_transaction, Up, Live, Input
<1>6. /\ requests'[c] = Append(requests[c], t)
      /\ \A d \in Client \ {c} : requests'[d] = requests[d]
      /\ handler'[c] = "send_to_worker" /\ buf'[c] = t
      /\ \A d \in Client \ {c} : handler'[d] = handler[d] /\ buf'[d] = buf[d]
      /\ tclient'[t] = c /\ tsvc'[t] = s
      /\ \A u \in Tran \ {t} : tclient'[u] = tclient[u] /\ tsvc'[u] = tsvc[u]
      /\ UNCHANGED <<wait4, replies, adverts, services, waitq, wct, rval, serving>>
  BY <1>0 DEF TypeOK, svracall, new_transaction
<1> HIDE DEF serviceVars
<1>7. /\ Live \subseteq Tran
      /\ \A d \in Client : Range(replies[d]) \subseteq Live /\ Range(requests[d]) \subseteq Live
  BY <1>0, <1>5, Basics, ZenonT(40), SMTT(40) DEF IndInv, TransactionsOwned
<1>8. \A d \in Client : Offers(d)' = Offers(d)
  BY <1>6, ZenonT(40), SMTT(40) DEF Offers
<1>9. \A r \in Service : t \notin Range(waitq[r])
  BY <1>5, OnWaitq, ZenonT(40), SMTT(40)
<1>10. WaitqHomogeneous'
  <2> SUFFICES ASSUME NEW r \in Service, NEW x \in Range(waitq[r])
               PROVE  IF wct[r] THEN x \in Live' /\ tsvc'[x] = r
                                ELSE x \in clients /\ r \in Offers(x)'
    BY <1>5, <1>6 DEF WaitqHomogeneous
  <2>1. x # t
    BY <1>9
  <2>2. CASE wct[r]
    <3>1. x \in Live /\ tsvc[x] = r
      BY <2>2, <1>5 DEF IndInv, WaitqHomogeneous
    <3> QED
      BY <2>1, <2>2, <3>1, <1>5, <1>6, <1>7, ZenonT(40), SMTT(40)
  <2>3. CASE ~wct[r]
    <3>1. x \in clients /\ r \in Offers(x) /\ x \in Client
      BY <2>3, <1>5, <1>0, ZenonT(40), SMTT(40) DEF IndInv, WaitqHomogeneous, TypeOK
    <3> QED
      BY <2>3, <3>1, <1>8, ZenonT(40), SMTT(40)
  <2> QED
    BY <2>2, <2>3, ZenonT(40), SMTT(40)
<1>11. TransactionsOwned'
  <2>1. \A d \in Client : \A u :
            u \in Range(requests'[d]) <=> u \in Range(requests[d]) \/ (d = c /\ u = t)
    <3>1. \A u : u \in Range(requests'[c]) <=> u \in Range(requests[c]) \/ u = t
      BY <1>2, <1>6
    <3>2. \A d \in Client \ {c} : requests'[d] = requests[d]
      BY <1>6
    <3> QED
      BY <3>1, <3>2, SMTT(40), ZenonT(40)
  <2>2. \A d \in Client : replies'[d] = replies[d]
    BY <1>6, ZenonT(40), SMTT(40)
  <2>3. \A d \in Client : \A u \in Range(requests'[d]) :
            u \in Live' /\ tclient'[u] = d /\ u \notin Range(replies'[d])
    <3>1. \A d \in Client : \A u \in Range(requests[d]) :
              u \in Live /\ tclient[u] = d /\ u \notin Range(replies[d])
      BY <1>5, ZenonT(40), SMTT(40) DEF IndInv, TransactionsOwned
    <3>2. \A u \in Live : tclient'[u] = tclient[u] /\ u \in Live'
      BY <1>5, <1>6, <1>7, ZenonT(40), SMTT(40)
    <3>3. t \in Live' /\ tclient'[t] = c /\ \A d \in Client : t \notin Range(replies[d])
      BY <1>5, <1>6, <1>7, ZenonT(40), SMTT(40)
    <3> SUFFICES ASSUME NEW d \in Client, NEW u \in Range(requests'[d])
                 PROVE  u \in Live' /\ tclient'[u] = d /\ u \notin Range(replies'[d])
      BY ZenonT(40), SMTT(40)
    <3>4. u \in Range(requests[d]) \/ (d = c /\ u = t)
      BY <2>1, ZenonT(40), SMTT(40)
    <3>5. CASE u \in Range(requests[d])
      BY <3>5, <2>2, <3>1, <3>2, ZenonT(40), SMTT(40)
    <3>6. CASE d = c /\ u = t
      BY <3>6, <2>2, <3>3, ZenonT(40), SMTT(40)
    <3> QED
      BY <3>4, <3>5, <3>6, ZenonT(40), SMTT(40)
  <2>4. \A d \in Client : \A u \in Range(replies'[d]) : u \in Live' /\ tclient'[u] = d
    <3>1. \A d \in Client : \A u \in Range(replies[d]) : u \in Live /\ tclient[u] = d
      BY <1>5, ZenonT(40), SMTT(40) DEF IndInv, TransactionsOwned
    <3>2. \A u \in Live : tclient'[u] = tclient[u] /\ u \in Live'
      BY <1>5, <1>6, <1>7, ZenonT(40), SMTT(40)
    <3> QED
      BY <2>2, <3>1, <3>2, ZenonT(40), SMTT(40)
  <2>5. \A u \in Live' :
            /\ tclient'[u] \in clients'
            /\ u \in Range(requests'[tclient'[u]]) \cup Range(replies'[tclient'[u]])
    <3> TAKE u \in Live'
    <3>1. CASE u = t
      BY <2>1, <3>1, <1>5, <1>6, ZenonT(40), SMTT(40)
    <3>2. CASE u # t
      <4>1. u \in Live /\ tclient'[u] = tclient[u] /\ tclient[u] \in Client
        BY <3>2, <1>0, <1>5, <1>6, <1>7, ZenonT(40) DEF IndInv, TransactionsOwned, TypeOK
      <4> QED
        BY <2>1, <2>2, <4>1, <1>5 DEF IndInv, TransactionsOwned
    <3> QED
      BY <3>1, <3>2
  <2> QED
    BY <2>3, <2>4, <2>5, ZenonT(40), SMTT(40) DEF TransactionsOwned
<1>12. ServicesAdvertised'
  <2>1. ServicesAdvertised /\ clients \subseteq Client
    BY <1>0 DEF IndInv, TypeOK
  <2>2. services' = services
    BY <1>6, ZenonT(40)
  <2> QED
    BY <2>1, <2>2, <1>5, <1>8, ServicesKept, ZenonT(40), SMTT(40)
<1>13. NoMissedReply' /\ RepliesCompleted'
  <2>1. NoMissedReply /\ RepliesCompleted /\ PointersLive
    BY <1>5 DEF IndInv
  <2>2. wait4' = wait4 /\ replies' = replies /\ rval' = rval
    BY <1>6, ZenonT(40)
  <2>3. RepliesCompleted'
    BY <2>1, <2>2, <1>5, ZenonT(40) DEF RepliesCompleted
  <2>4. ASSUME NEW d \in Client, Hanging(d)', wait4[d] \in Live', tclient'[wait4[d]] = d
        PROVE  wait4[d] \in Range(requests'[d])
    <3>1. d # c /\ Hanging(d) /\ requests'[d] = requests[d]
      BY <2>4, <1>5, <1>6, ZenonT(40) DEF Hanging
    <3>2. wait4[d] \in Live /\ wait4[d] # t
      BY <2>1, <2>4, <1>5 DEF PointersLive
    <3>3. tclient[wait4[d]] = d
      BY <2>4, <3>2, <1>6, <1>7, ZenonT(40)
    <3> QED
      BY <2>1, <3>1, <3>2, <3>3, <1>5, ZenonT(40) DEF NoMissedReply
  <2> QED
    BY <2>2, <2>3, <2>4, ZenonT(40) DEF NoMissedReply
<1>14. Disconnected' /\ PointersLive' /\ Returning'
  <2>1. Disconnected'
    BY <1>5, <1>6, <1>8, ZenonT(40) DEF IndInv, Disconnected
  <2>2. PointersLive'
    BY <1>5, <1>6, ZenonT(40) DEF IndInv, PointersLive
  <2>3. Returning'
    BY <1>5, <1>6, ZenonT(40) DEF IndInv, Returning
  <2> QED
    BY <2>1, <2>2, <2>3
<1>15. Reading'
  <2> SUFFICES ASSUME NEW d \in Client, handler'[d] = "send_to_worker"
               PROVE  /\ requests'[d] # <<>> /\ buf'[d] = LastOf(requests'[d])
                      /\ \A e \in Client : wait4[e] # buf'[d]
                      /\ \A r \in Service : buf'[d] \notin Range(waitq[r])
    BY <1>6, ZenonT(40), SMTT(40) DEF Reading
  <2>1. CASE d = c
    BY <2>1, <1>2, <1>5, <1>6, <1>9, ZenonT(40) DEF IndInv, PointersLive
  <2>2. CASE d # c
    <3>1. /\ handler[d] = "send_to_worker" /\ requests'[d] = requests[d]
          /\ buf'[d] = buf[d]
      BY <2>2, <1>6, ZenonT(40)
    <3>2. Reading
      BY <1>5 DEF IndInv
    <3> QED
      BY <3>1, <3>2, ZenonT(40), SMTT(40) DEF Reading
  <2> QED
    BY <2>1, <2>2, ZenonT(40), SMTT(40)
<1>16. Quiet'
  BY <1>5, <1>6, <1>8, ZenonT(40) DEF IndInv, Quiet, Idle
<1> QED
  BY <1>4, <1>10, <1>11, <1>12, <1>13, <1>14, <1>15, <1>16 DEF IndInv

\* Taking worker w off the queues of its services takes it off every queue, and
\* leaves everybody else where they are.
LEMMA RemovedFromWaitq ==
    ASSUME QueueLaws, IndInv, Up, NEW w \in Client
    PROVE  /\ remove_from_waitq(w, Offers(w)) \in [Service -> Seq(Client \cup Tran)]
           /\ \A s \in Service : \A x :
                 x \in Range(remove_from_waitq(w, Offers(w))[s]) <=>
                     x \in Range(waitq[s]) /\ x # w
<1>0. waitq \in [Service -> Seq(Client \cup Tran)]
  BY DEF IndInv, TypeOK
<1>1. \A s \in Service : /\ Without(waitq[s], {w}) \in Seq(Client \cup Tran)
                         /\ Range(Without(waitq[s], {w})) = Range(waitq[s]) \ {w}
  BY <1>0, WaitQueues, ZenonT(40)
<1>2. \A s \in Service \ Offers(w) : w \notin Range(waitq[s])
  BY OnWaitq
<1>3. \A s \in Service : remove_from_waitq(w, Offers(w))[s] =
          IF s \in Offers(w) THEN Without(waitq[s], {w}) ELSE waitq[s]
  BY DEF remove_from_waitq
<1>4. remove_from_waitq(w, Offers(w)) \in [Service -> Seq(Client \cup Tran)]
  BY <1>0, <1>1, ZenonT(40) DEF remove_from_waitq
<1>5. \A s \in Service : \A x :
          x \in Range(remove_from_waitq(w, Offers(w))[s]) <=> x \in Range(waitq[s]) /\ x # w
  <2> TAKE s \in Service
  <2>1. CASE s \in Offers(w)
    BY <2>1, <1>1, <1>3, ZenonT(40)
  <2>2. CASE s \notin Offers(w)
    BY <2>2, <1>2, <1>3, ZenonT(40), SMTT(40)
  <2> QED
    BY <2>1, <2>2
<1> QED
  BY <1>4, <1>5, ZenonT(40), SMTT(40)

\* A client whose request is being read, and that request.
LEMMA ReadingFacts ==
    ASSUME IndInv, Up, NEW c \in Client, handler[c] = "send_to_worker"
    PROVE  /\ c \in clients
           /\ LastOf(requests[c]) = buf[c]
           /\ buf[c] \in Range(requests[c]) /\ buf[c] \in Live /\ buf[c] \in Tran
           /\ tclient[buf[c]] = c
           /\ \A d \in Client : wait4[d] # buf[c]
           /\ \A s \in Service : buf[c] \notin Range(waitq[s])
<1>1. /\ requests[c] # <<>> /\ buf[c] = LastOf(requests[c])
      /\ \A d \in Client : wait4[d] # buf[c]
      /\ \A s \in Service : buf[c] \notin Range(waitq[s])
  BY DEF IndInv, Reading
<1>2. requests[c] \in Seq(Tran)
  BY Basics DEF IndInv
<1>3. buf[c] \in Range(requests[c]) /\ buf[c] \in Tran
  BY <1>1, <1>2, EndsFacts
<1>4. buf[c] \in Live /\ tclient[buf[c]] = c
  BY <1>3 DEF IndInv, TransactionsOwned
<1>5. c \in clients
  BY <1>4 DEF IndInv, TransactionsOwned
<1> QED
  BY <1>1, <1>3, <1>4, <1>5, ZenonT(40), SMTT(40)

\* svrgetrply leaving its client hanging keeps the tables consistent: the client
\* hangs for a request of its own.
LEMMA svrgetrply_waitsInv ==
    ASSUME IndInv, NEW c \in Client, NEW cd \in Tran, NEW getany \in BOOLEAN,
           svrgetrply_waits(c, cd, getany)
    PROVE  IndInv'
<1> DEFINE p == IF getany THEN AnyTran ELSE cd
<1>0. /\ TypeOK /\ Up /\ Up' /\ handler[c] = "command" /\ c \in clients
      /\ clients \subseteq Client /\ Live' = Live
  <2>1. TypeOK
    BY DEF IndInv
  <2>2. Up /\ Up' /\ handler[c] = "command" /\ c \in clients /\ Live' = Live
    BY ZenonT(40), SMTT(40) DEF svrgetrply_waits, Input, Up, Live, tranVars
  <2> QED
    BY <2>1, <2>2, Basics
<1>1. \/ p = AnyTran
      \/ p \in Range(requests[c]) /\ p \in Tran /\ p \in Live /\ tclient[p] = c
  BY <1>0, ZenonT(40), SMTT(40) DEF svrgetrply_waits, Expected, IndInv, TransactionsOwned
<1>2. /\ wait4' \in [Client -> Tran \cup {None, AnyTran, Freed}]
      /\ wait4'[c] = p /\ \A d \in Client \ {c} : wait4'[d] = wait4[d]
  BY <1>0, <1>1, ZenonT(40), SMTT(40) DEF svrgetrply_waits, TypeOK
<1>3. /\ handler' \in [Client -> {"none", "command", "send_to_worker", "part2"}]
      /\ handler'[c] = "none" /\ \A d \in Client \ {c} : handler'[d] = handler[d]
  BY <1>0 DEF svrgetrply_waits, Called, TypeOK
<1>4. /\ UNCHANGED <<clients, buf, requests, replies, adverts, services, waitq, wct,
                     tptransactions, tclient, tsvc, executor, rval, serving, status>>
      /\ out' \in [Client -> Messages]
  BY WroteType, ZenonT(40), SMTT(40) DEF svrgetrply_waits, callVars, serviceVars, tranVars
<1> HIDE DEF p
<1>5. TypeOK'
  BY <1>0, <1>2, <1>3, <1>4 DEF TypeOK
<1>6. \A d \in Client : Offers(d)' = Offers(d)
  BY <1>4 DEF Offers
<1>7. WaitqHomogeneous' /\ TransactionsOwned' /\ RepliesCompleted'
  <2>1. WaitqHomogeneous'
    BY <1>0, <1>4, <1>6, ZenonT(40) DEF IndInv, WaitqHomogeneous
  <2>2. TransactionsOwned'
    BY <1>0, <1>4, <1>6, ZenonT(40) DEF IndInv, TransactionsOwned
  <2>3. RepliesCompleted'
    BY <1>0, <1>4, <1>6, ZenonT(40) DEF IndInv, RepliesCompleted
  <2> QED
    BY <2>1, <2>2, <2>3
<1>8. ServicesAdvertised'
  BY <1>0, <1>4, <1>6, SMTT(40), ZenonT(40) DEF IndInv, ServicesAdvertised, Advertisers
<1>9. NoMissedReply'
  <2> SUFFICES ASSUME NEW d \in Client, Hanging(d)', wait4'[d] \in Live, tclient[wait4'[d]] = d
               PROVE  wait4'[d] \in Range(requests[d])
    BY <1>0, <1>4, ZenonT(40), SMTT(40) DEF NoMissedReply
  <2>1. CASE d = c
    <3>1. Live \subseteq Tran
      BY <1>0, Basics, ZenonT(40), SMTT(40)
    <3>2. wait4'[d] = p /\ p \in Tran
      BY <2>1, <3>1, <1>2, ZenonT(40)
    <3>3. p # AnyTran
      BY <3>2, Pointers, ZenonT(40)
    <3> QED
      BY <2>1, <3>2, <3>3, <1>1, ZenonT(40)
  <2>2. CASE d # c
    BY <2>2, <1>0, <1>2, <1>3, <1>4, ZenonT(40), SMTT(40) DEF IndInv, NoMissedReply, Hanging
  <2> QED
    BY <2>1, <2>2, ZenonT(40)
<1>10. Disconnected' /\ PointersLive' /\ Returning'
  <2>1. Disconnected'
    BY <1>0, <1>1, <1>2, <1>3, <1>4, <1>6, ZenonT(40) DEF IndInv, Disconnected
  <2>2. PointersLive'
    BY <1>0, <1>1, <1>2, <1>3, <1>4, <1>6, Pointers, ZenonT(40), SMTT(40) DEF IndInv, PointersLive
  <2>3. Returning'
    BY <1>0, <1>1, <1>2, <1>3, <1>4, <1>6, ZenonT(40), SMTT(40) DEF IndInv, Returning
  <2> QED
    BY <2>1, <2>2, <2>3
<1>11. Reading'
  <2> SUFFICES ASSUME NEW d \in Client, handler'[d] = "send_to_worker"
               PROVE  /\ requests[d] # <<>> /\ buf[d] = LastOf(requests[d])
                      /\ \A e \in Client : wait4'[e] # buf[d]
                      /\ \A r \in Service : buf[d] \notin Range(waitq[r])
    BY <1>4, ZenonT(40), SMTT(40) DEF Reading
  <2>1. d # c /\ handler[d] = "send_to_worker"
    BY <1>3, ZenonT(40), SMTT(40)
  <2>2. buf[d] \in Tran /\ tclient[buf[d]] = d
    BY <2>1, <1>0, ReadingFacts, ZenonT(40), SMTT(40)
  <2>3. wait4'[c] # buf[d]
    BY <2>1, <2>2, <1>1, <1>2, Pointers, ZenonT(40), SMTT(40)
  <2> QED
    BY <2>1, <2>3, <1>0, <1>2, ZenonT(40), SMTT(40) DEF IndInv, Reading
<1>12. Quiet'
  BY <1>0, <1>2, <1>3, <1>4, <1>6, ZenonT(40) DEF IndInv, Quiet, Idle
<1> QED
  BY <1>5, <1>7, <1>8, <1>9, <1>10, <1>11, <1>12, ZenonT(40), SMTT(40) DEF IndInv

\* svrreturn keeps the tables consistent: the transaction it stores the result in
\* is the one the worker services.
LEMMA svrreturnInv ==
    ASSUME IndInv, NEW c \in Client, NEW rv \in Results, svrreturn(c, rv)
    PROVE  IndInv'
<1> DEFINE t == wait4[c]
<1>0. /\ TypeOK /\ Up /\ handler[c] = "command" /\ c \in clients
      /\ clients \subseteq Client
  <2>1. TypeOK
    BY DEF IndInv
  <2>2. Up /\ handler[c] = "command" /\ c \in clients
    BY ZenonT(40) DEF svrreturn, Input, Up
  <2> QED
    BY <2>1, <2>2, Basics, ZenonT(40), SMTT(40)
<1>1. CASE (t = None /\ Down("null")) \/ (t = Freed /\ Down("freed"))
  BY <1>0, <1>1, DownInv, ZenonT(40), SMTT(40)
<1>2. ASSUME t \in Tran,
             rval' = [rval EXCEPT ![t] = rv],
             buf' = [d \in Client |-> IF d = c THEN t
                                      ELSE IF buf[d] = t THEN Freed ELSE buf[d]],
             handler' = [handler EXCEPT ![c] = "part2"],
             serving' = [serving EXCEPT ![c] = FALSE],
             out' = Silent,
             UNCHANGED <<clients, wait4, callVars, serviceVars,
                         tptransactions, tclient, tsvc, executor, status>>
      PROVE  IndInv'
  <2>1. t \in Live
    BY <1>0, <1>2, ZenonT(40), SMTT(40) DEF IndInv, PointersLive
  <2>2. /\ rval' \in [Tran -> Rval \cup {None}]
        /\ rval'[t] # None /\ \A u \in Tran \ {t} : rval'[u] = rval[u]
    <3>1. rv \in Rval /\ rv # None
      BY SwitchboardConstants, ZenonT(40), SMTT(40) DEF Rval
    <3>2. rval \in [Tran -> Rval \cup {None}]
      BY <1>0, ZenonT(40), SMTT(40) DEF TypeOK
    <3> HIDE DEF t
    <3> QED
      BY <1>2, <3>1, <3>2
  <2>3. /\ buf' \in [Client -> Tran \cup {None, Freed}]
        /\ buf'[c] = t
        /\ \A d \in Client \ {c} : buf'[d] = Freed \/ buf'[d] = buf[d]
        /\ \A d \in Client \ {c} : buf[d] # t => buf'[d] = buf[d]
    BY <1>0, <1>2, ZenonT(40), SMTT(40) DEF TypeOK
  <2>4. /\ handler' \in [Client -> {"none", "command", "send_to_worker", "part2"}]
        /\ handler'[c] = "part2" /\ \A d \in Client \ {c} : handler'[d] = handler[d]
    BY <1>0, <1>2, ZenonT(40), SMTT(40) DEF TypeOK
  <2>5. /\ serving' \in [Client -> BOOLEAN]
        /\ \A d \in Client \ {c} : serving'[d] = serving[d]
    BY <1>0, <1>2 DEF TypeOK
  <2>6. /\ UNCHANGED <<clients, wait4, requests, replies, adverts, services, waitq, wct,
                       tptransactions, tclient, tsvc, executor, status>>
        /\ out' \in [Client -> Messages]
    BY <1>2, WroteType, ZenonT(40) DEF callVars, serviceVars
  <2>7. Up' /\ Live' = Live /\ \A d \in Client : Offers(d)' = Offers(d)
    BY <1>0, <2>6, ZenonT(40) DEF Up, Live, Offers
  <2>8. TypeOK'
    BY <1>0, <2>2, <2>3, <2>4, <2>5, <2>6, ZenonT(40), SMTT(40) DEF TypeOK
  <2> HIDE DEF t
  <2>9. WaitqHomogeneous' /\ TransactionsOwned'
    <3>1. TransactionsOwned'
      BY <1>0, <2>6, <2>7, ZenonT(40) DEF IndInv, TransactionsOwned
    <3>2. WaitqHomogeneous'
      BY <1>0, <2>6, <2>7, ZenonT(40) DEF IndInv, WaitqHomogeneous
    <3> QED
      BY <3>1, <3>2
  <2>10. ServicesAdvertised'
    BY <1>0, <2>6, <2>7, SMTT(40), ZenonT(40) DEF IndInv, ServicesAdvertised, Advertisers
  <2>11. RepliesCompleted'
    <3>1. \A d \in Client : Range(replies[d]) \subseteq Tran
      BY <1>0, Basics, ZenonT(40)
    <3> QED
      BY <3>1, <1>0, <2>2, <2>6, ZenonT(40) DEF IndInv, RepliesCompleted
  <2>12. NoMissedReply' /\ Disconnected' /\ PointersLive'
    <3>1. NoMissedReply'
      BY <1>0, <2>1, <2>3, <2>4, <2>6, <2>7, ZenonT(40) DEF IndInv, NoMissedReply, Hanging
    <3>2. Disconnected'
      BY <1>0, <2>1, <2>3, <2>4, <2>6, <2>7, ZenonT(40) DEF IndInv, Disconnected
    <3>3. PointersLive'
      BY <1>0, <2>1, <2>3, <2>4, <2>6, <2>7, Pointers, ZenonT(40) DEF IndInv, PointersLive
    <3> QED
      BY <3>1, <3>2, <3>3
  <2>13. Returning'
    <3> SUFFICES ASSUME NEW d \in Client, handler'[d] = "part2", buf'[d] # Freed
                 PROVE  buf'[d] \in Tran /\ buf'[d] = wait4[d] /\ rval'[buf'[d]] # None
      BY <2>6, ZenonT(40), SMTT(40) DEF Returning
    <3>1. CASE d = c
      BY <3>1, <1>2, <2>2, <2>3, ZenonT(40), SMTT(40) DEF t
    <3>2. CASE d # c
      <4>1. handler[d] = "part2" /\ buf'[d] = buf[d]
        BY <3>2, <2>3, <2>4, ZenonT(40), SMTT(40)
      <4>2. buf[d] \in Tran /\ buf[d] = wait4[d] /\ rval[buf[d]] # None
        BY <4>1, <1>0 DEF IndInv, Returning
      <4> QED
        BY <4>1, <4>2, <2>2, ZenonT(40), SMTT(40)
    <3> QED
      BY <3>1, <3>2, ZenonT(40), SMTT(40)
  <2>14. Reading'
    <3>1. \A d \in Client : handler[d] = "send_to_worker" => buf[d] # t
      BY <1>0, ReadingFacts, ZenonT(40), SMTT(40) DEF t
    <3> QED
      BY <3>1, <1>0, <2>3, <2>4, <2>6, ZenonT(40) DEF IndInv, Reading
  <2>15. Quiet'
    BY <1>0, <2>4, <2>5, <2>6, <2>7, ZenonT(40) DEF IndInv, Quiet, Idle
  <2> QED
    BY <2>8, <2>9, <2>10, <2>11, <2>12, <2>13, <2>14, <2>15, ZenonT(40), SMTT(40) DEF IndInv
<1> QED
  BY <1>1, <1>2, ZenonT(40) DEF svrreturn

--------------------------------------------------------------------------------
\* A step hands transaction t to worker w: what send_to_server() and the two
\* handlers that call it have in common.
Dispatched(w, t) ==
    /\ waitq' = remove_from_waitq(w, Offers(w))
    /\ wait4' = [wait4 EXCEPT ![w] = t]
    /\ executor' = [executor EXCEPT ![t] = w]
    /\ serving' = [serving EXCEPT ![w] = TRUE]
    /\ out' \in [Client -> Messages]
    /\ status' \in {"up", "assert"}
    /\ handler' \in [Client -> {"none", "command", "send_to_worker", "part2"}]
    /\ buf' \in [Client -> Tran \cup {None, Freed}]
    /\ handler'[w] = "command"
    /\ \A d \in Client : handler'[d] = handler[d] \/ handler'[d] = "command"
    /\ \A d \in Client \ {w} : handler'[d] # handler[d] => handler[d] = "send_to_worker"
    /\ \A d \in Client : buf'[d] = buf[d] \/ (buf'[d] = None /\ handler'[d] = "command")
    /\ \A d \in Client : handler'[d] = "send_to_worker" => buf[d] # t
    /\ UNCHANGED <<clients, requests, replies, adverts, services, wct,
                   tptransactions, tclient, tsvc, rval>>

\* Handing live transaction t to worker w keeps the tables consistent, as long as
\* t is not still being read.
LEMMA DispatchInv ==
    ASSUME QueueLaws, IndInv, Up, NEW w \in clients, NEW t \in Live, Dispatched(w, t)
    PROVE  IndInv'
<1>0. TypeOK /\ clients \subseteq Client /\ Live \subseteq Tran
  BY Basics, ZenonT(40), SMTT(40) DEF IndInv
<1>1. /\ waitq' \in [Service -> Seq(Client \cup Tran)]
      /\ \A s \in Service : \A x :
            x \in Range(waitq'[s]) <=> x \in Range(waitq[s]) /\ x # w
  <2>1. w \in Client /\ waitq' = remove_from_waitq(w, Offers(w))
    BY <1>0, ZenonT(40), SMTT(40) DEF Dispatched
  <2> QED
    BY <2>1, RemovedFromWaitq, Zenon
<1>2. /\ wait4'[w] = t /\ \A d \in Client \ {w} : wait4'[d] = wait4[d]
      /\ serving'[w] /\ \A d \in Client \ {w} : serving'[d] = serving[d]
  BY <1>0, ZenonT(40), SMTT(40) DEF Dispatched, TypeOK
<1>3. /\ clients' = clients /\ requests' = requests /\ replies' = replies
      /\ Live' = Live /\ tclient' = tclient /\ tsvc' = tsvc /\ rval' = rval
  BY ZenonT(40), SMTT(40) DEF Dispatched, Live
<1>4. \A d \in Client : Offers(d)' = Offers(d)
  BY ZenonT(40), SMTT(40) DEF Dispatched, Offers
<1>5. services' = services /\ wct' = wct
  BY ZenonT(40), SMTT(40) DEF Dispatched
<1>6. /\ handler'[w] = "command"
      /\ \A d \in Client : handler'[d] = handler[d] \/ handler'[d] = "command"
      /\ \A d \in Client \ {w} : handler'[d] # handler[d] => handler[d] = "send_to_worker"
  BY ZenonT(40), SMTT(40) DEF Dispatched
<1>7. /\ \A d \in Client : buf'[d] = buf[d] \/ (buf'[d] = None /\ handler'[d] = "command")
      /\ \A d \in Client : handler'[d] = "send_to_worker" => buf[d] # t
  BY ZenonT(40), SMTT(40) DEF Dispatched
<1>8. TypeOK'
  <2>1. wait4' \in [Client -> Tran \cup {None, AnyTran, Freed}]
    BY <1>0, ZenonT(40), SMTT(40) DEF Dispatched, TypeOK
  <2>2. executor' \in [Tran -> Client \cup {None, Freed}]
    BY <1>0, ZenonT(40), SMTT(40) DEF Dispatched, TypeOK
  <2>3. serving' \in [Client -> BOOLEAN]
    BY <1>0, ZenonT(40), SMTT(40) DEF Dispatched, TypeOK
  <2>4. /\ handler' \in [Client -> {"none", "command", "send_to_worker", "part2"}]
        /\ buf' \in [Client -> Tran \cup {None, Freed}]
        /\ out' \in [Client -> Messages] /\ status' \in {"up", "null", "freed", "assert"}
        /\ adverts' = adverts /\ tptransactions' = tptransactions
    BY ZenonT(40), SMTT(40) DEF Dispatched
  <2> QED
    BY <2>1, <2>2, <2>3, <2>4, <1>0, <1>1, <1>3, <1>5, ZenonT(40), SMTT(40) DEF TypeOK
<1>9. WaitqHomogeneous'
  <2> SUFFICES ASSUME NEW s \in Service, NEW x \in Range(waitq'[s]), Up'
               PROVE  IF wct[s] THEN x \in Live /\ tsvc[x] = s
                                ELSE x \in clients /\ s \in Offers(x)'
    BY <1>3, <1>5, ZenonT(40), SMTT(40) DEF WaitqHomogeneous
  <2>1. x \in Range(waitq[s])
    BY <1>1
  <2> QED
    BY <2>1, <1>0, <1>4, ZenonT(40), SMTT(40) DEF IndInv, WaitqHomogeneous
<1>10. TransactionsOwned' /\ RepliesCompleted'
  <2>1. TransactionsOwned /\ RepliesCompleted
    BY ZenonT(40), SMTT(40) DEF IndInv
  <2>2. TransactionsOwned'
    BY <2>1, <1>3 DEF TransactionsOwned
  <2>3. RepliesCompleted'
    BY <2>1, <1>3 DEF RepliesCompleted
  <2> QED
    BY <2>2, <2>3
<1>11. ServicesAdvertised'
  BY <1>0, <1>3, <1>4, <1>5, ServicesKept, ZenonT(40), SMTT(40) DEF IndInv
<1>12. NoMissedReply'
  <2> SUFFICES ASSUME NEW d \in Client, Hanging(d)', wait4'[d] \in Live,
                      tclient[wait4'[d]] = d
               PROVE  wait4'[d] \in Range(requests[d])
    BY <1>3 DEF NoMissedReply
  <2>1. d # w /\ handler[d] = "none" /\ d \in clients
    BY <1>3, <1>6, ZenonT(40), SMTT(40) DEF Hanging
  <2>2. wait4'[d] = wait4[d]
    BY <2>1, <1>2, ZenonT(40), SMTT(40)
  <2> QED
    BY <2>1, <2>2, ZenonT(40), SMTT(40) DEF IndInv, NoMissedReply, Hanging
<1>13. Disconnected'
  <2> SUFFICES ASSUME NEW d \in Client \ clients
               PROVE  Offers(d)' = {} /\ handler'[d] = "none" /\ wait4'[d] = None
    BY <1>3, ZenonT(40), SMTT(40) DEF Disconnected
  <2>1. Offers(d) = {} /\ handler[d] = "none" /\ wait4[d] = None
    BY DEF IndInv, Disconnected
  <2>2. d # w
    BY ZenonT(40), SMTT(40)
  <2> QED
    BY <2>1, <2>2, <1>2, <1>4, <1>6, ZenonT(40), SMTT(40)
<1>14. PointersLive'
  <2>1. \A d \in Client : wait4'[d] \in Tran => wait4'[d] \in Live
    BY <1>2, ZenonT(40), SMTT(40) DEF IndInv, PointersLive
  <2>2. \A d \in Client : buf'[d] \in Tran => buf'[d] \in Live
    BY <1>7, Pointers DEF IndInv, PointersLive
  <2> QED
    BY <2>1, <2>2, <1>3, ZenonT(40), SMTT(40) DEF PointersLive
<1>15. Reading'
  <2> SUFFICES ASSUME NEW d \in Client, handler'[d] = "send_to_worker"
               PROVE  /\ requests[d] # <<>> /\ buf'[d] = LastOf(requests[d])
                      /\ \A e \in Client : wait4'[e] # buf'[d]
                      /\ \A s \in Service : buf'[d] \notin Range(waitq'[s])
    BY <1>3, ZenonT(40) DEF Reading
  <2>1. handler[d] = "send_to_worker" /\ buf'[d] = buf[d] /\ buf[d] # t
    BY <1>6, <1>7, ZenonT(40), SMTT(40)
  <2>2. /\ requests[d] # <<>> /\ buf[d] = LastOf(requests[d])
        /\ \A e \in Client : wait4[e] # buf[d]
        /\ \A s \in Service : buf[d] \notin Range(waitq[s])
    BY <2>1, ZenonT(40), SMTT(40) DEF IndInv, Reading
  <2> QED
    BY <2>1, <2>2, <1>1, <1>2, ZenonT(40)
<1>16. Returning'
  <2> SUFFICES ASSUME NEW d \in Client, handler'[d] = "part2", buf'[d] # Freed
               PROVE  buf'[d] \in Tran /\ buf'[d] = wait4'[d] /\ rval[buf'[d]] # None
    BY <1>3, ZenonT(40), SMTT(40) DEF Returning
  <2>1. d # w /\ handler[d] = "part2" /\ buf'[d] = buf[d]
    BY <1>6, <1>7, ZenonT(40), SMTT(40)
  <2>2. wait4'[d] = wait4[d]
    BY <2>1, <1>2, ZenonT(40), SMTT(40)
  <2> QED
    BY <2>1, <2>2, ZenonT(40), SMTT(40) DEF IndInv, Returning
<1>17. Quiet'
  <2>1. ASSUME NEW d \in Client, handler'[d] \in {"command", "send_to_worker"}, ~serving'[d]
        PROVE  wait4'[d] = None
    <3>1. d # w
      BY <2>1, <1>2, ZenonT(40), SMTT(40)
    <3>2. /\ wait4'[d] = wait4[d] /\ serving'[d] = serving[d]
          /\ handler[d] \in {"command", "send_to_worker"}
      BY <2>1, <3>1, <1>2, <1>6, ZenonT(40), SMTT(40)
    <3> QED
      BY <2>1, <3>2, ZenonT(40) DEF IndInv, Quiet
  <2>2. ASSUME NEW d \in Client, NEW s \in Service, Idle(d, s)'
        PROVE  handler'[d] = "none" /\ wait4'[d] = None /\ \A r \in Offers(d)' : Idle(d, r)'
    <3>1. d # w /\ Idle(d, s)
      BY <2>2, <1>1, ZenonT(40), SMTT(40) DEF Idle
    <3>2. handler[d] = "none" /\ wait4[d] = None /\ \A r \in Offers(d) : Idle(d, r)
      BY <3>1, ZenonT(40), SMTT(40) DEF IndInv, Quiet
    <3>3. \A r \in Offers(d)' : r \in Service /\ Idle(d, r)'
      BY <3>1, <3>2, <1>1, <1>4, ZenonT(40), SMTT(40) DEF Idle, Offers
    <3>4. handler'[d] = "none" /\ wait4'[d] = None
      BY <3>1, <3>2, <1>2, <1>6
    <3> QED
      BY <3>3, <3>4
  <2> QED
    BY <2>1, <2>2 DEF Quiet
<1> QED
  BY <1>8, <1>9, <1>10, <1>11, <1>12, <1>13, <1>14, <1>15, <1>16, <1>17, ZenonT(40), SMTT(40) DEF IndInv

\* send_to_worker keeps the tables consistent: it hands the request it has read
\* to a worker, or queues it behind other requests only.
LEMMA send_to_workerInv ==
    ASSUME QueueLaws, IndInv, NEW c \in Client, send_to_worker(c)
    PROVE  IndInv'
<1> DEFINE t == LastOf(requests[c])
           s == tsvc[t]
           hd == [handler EXCEPT ![c] = "command"]
<1>0. /\ TypeOK /\ Up /\ handler[c] = "send_to_worker" /\ clients \subseteq Client
      /\ Live \subseteq Tran
  <2>1. TypeOK
    BY ZenonT(40), SMTT(40) DEF IndInv
  <2>2. Up /\ handler[c] = "send_to_worker"
    BY ZenonT(40), SMTT(40) DEF send_to_worker, Input, Up
  <2> QED
    BY <2>1, <2>2, Basics
<1>1. /\ t = buf[c] /\ t \in Live /\ t \in Tran /\ tclient[t] = c /\ c \in clients
      /\ t \in Range(requests[c])
      /\ \A r \in Service : t \notin Range(waitq[r])
      /\ \A d \in Client : wait4[d] # t
  BY <1>0, ReadingFacts, ZenonT(40), SMTT(40)
<1>2. \A d \in Client \ {c} : handler[d] = "send_to_worker" => buf[d] # t
  BY <1>0, <1>1, ReadingFacts, ZenonT(40), SMTT(40)
<1>3. /\ hd \in [Client -> {"none", "command", "send_to_worker", "part2"}]
      /\ hd[c] = "command" /\ \A d \in Client \ {c} : hd[d] = handler[d]
  BY <1>0 DEF TypeOK
<1>4. CASE s = Freed /\ Down("freed")
  BY <1>0, <1>4, DownInv
<1>5. ASSUME s \in Service, waitq[s] # <<>>, ~wct[s],
             send_to_server(Head(waitq[s]), t, s, hd),
             buf' = [buf EXCEPT ![c] = None],
             UNCHANGED <<clients, callVars, adverts, services, wct,
                         tptransactions, tclient, tsvc, rval>>
      PROVE  IndInv'
  <2> DEFINE w == Head(waitq[s])
  <2>1. w \in clients /\ w \in Client /\ s \in Offers(w)
    <3>1. w \in Range(waitq[s])
      <4>1. waitq[s] \in Seq(Client \cup Tran)
        BY <1>0, <1>5, Basics, ZenonT(40), SMTT(40)
      <4>2. waitq[s] # <<>>
        BY <1>5
      <4> QED
        BY <4>1, <4>2, EndsFacts, SMTT(40), ZenonT(40)
    <3> QED
      BY <3>1, <1>0, <1>5, ZenonT(40), SMTT(40) DEF IndInv, WaitqHomogeneous
  <2> HIDE DEF w, t, s, hd
  <2>2. /\ waitq' = remove_from_waitq(w, Offers(w))
        /\ wait4' = [wait4 EXCEPT ![w] = t]
        /\ executor' = [executor EXCEPT ![t] = w]
        /\ serving' = [serving EXCEPT ![w] = TRUE]
        /\ out' = Wrote(w, Msg("work", t, adverts[w][s]))
        /\ handler' = [hd EXCEPT ![w] = "command"]
        /\ status' = svriowait(w, hd)
    BY <1>5, ZenonT(40), SMTT(40) DEF send_to_server, w
  <2>3. out' \in [Client -> Messages]
    <3>1. adverts[w][s] \in Func \cup {None}
      BY <1>0, <1>5, <2>1 DEF TypeOK
    <3>2. Msg("work", t, adverts[w][s]) \in Messages
      BY <3>1, <1>1, ReplyTypes, ZenonT(40), SMTT(40)
    <3> QED
      BY <2>2, <3>2, WroteType
  <2>4. status' \in {"up", "assert"}
    BY <2>2 DEF svriowait
  <2>5. /\ handler' \in [Client -> {"none", "command", "send_to_worker", "part2"}]
        /\ handler'[w] = "command" /\ handler'[c] = "command"
        /\ \A d \in Client \ {w, c} : handler'[d] = handler[d]
    BY <2>1, <2>2, <1>3
  <2>6. /\ buf' \in [Client -> Tran \cup {None, Freed}]
        /\ buf'[c] = None /\ \A d \in Client \ {c} : buf'[d] = buf[d]
    BY <1>0, <1>5 DEF TypeOK
  <2>7. /\ \A d \in Client : handler'[d] = handler[d] \/ handler'[d] = "command"
        /\ \A d \in Client \ {w} :
              handler'[d] # handler[d] => handler[d] = "send_to_worker"
    BY <2>5, <1>0
  <2>8. \A d \in Client :
            buf'[d] = buf[d] \/ (buf'[d] = None /\ handler'[d] = "command")
    BY <2>5, <2>6
  <2>9. \A d \in Client : handler'[d] = "send_to_worker" => buf[d] # t
    BY <2>5, <1>2, ZenonT(40), SMTT(40)
  <2>10. Dispatched(w, t)
    BY <1>5, <2>2, <2>3, <2>4, <2>5, <2>6, <2>7, <2>8, <2>9, ZenonT(40), SMTT(40) DEF Dispatched, callVars
  <2> QED
    BY <1>0, <1>1, <2>1, <2>10, DispatchInv, ZenonT(40), SMTT(40)
<1>6. ASSUME s \in Service, waitq[s] = <<>> \/ wct[s],
             wct' = [wct EXCEPT ![s] = TRUE],
             waitq' = [waitq EXCEPT ![s] = Append(@, t)],
             handler' = hd,
             buf' = [buf EXCEPT ![c] = None],
             out' = Silent,
             UNCHANGED <<clients, wait4, callVars, adverts, services, tranVars,
                         serving, status>>
      PROVE  IndInv'
  <2> HIDE DEF t, s, hd
  <2>1. /\ Append(waitq[s], t) \in Seq(Client \cup Tran)
        /\ \A x : x \in Range(Append(waitq[s], t)) <=> x \in Range(waitq[s]) \/ x = t
    <3>1. waitq[s] \in Seq(Client \cup Tran) /\ t \in Client \cup Tran
      BY <1>0, <1>1, <1>6, ZenonT(40), SMTT(40) DEF TypeOK
    <3> QED
      BY <3>1, AppendFacts, ZenonT(40), SMTT(40)
  <2>2. /\ waitq' \in [Service -> Seq(Client \cup Tran)]
        /\ waitq'[s] = Append(waitq[s], t)
        /\ \A r \in Service \ {s} : waitq'[r] = waitq[r] /\ wct'[r] = wct[r]
        /\ wct' \in [Service -> BOOLEAN] /\ wct'[s]
    BY <1>0, <1>6, <2>1 DEF TypeOK
  <2>3. /\ buf' \in [Client -> Tran \cup {None, Freed}]
        /\ buf'[c] = None /\ \A d \in Client \ {c} : buf'[d] = buf[d]
    BY <1>0, <1>6, ZenonT(40), SMTT(40) DEF TypeOK
  <2>4. TypeOK'
    BY <1>0, <1>3, <1>6, <2>2, <2>3, WroteType, ZenonT(40), SMTT(40) DEF TypeOK, callVars, tranVars
  <2>5. /\ requests' = requests /\ replies' = replies /\ Live' = Live /\ Up'
        /\ tclient' = tclient /\ tsvc' = tsvc /\ rval' = rval /\ clients' = clients
        /\ wait4' = wait4 /\ serving' = serving /\ services' = services
    BY <1>0, <1>6, ZenonT(40), SMTT(40) DEF callVars, tranVars, Live, Up
  <2>6. \A d \in Client : Offers(d)' = Offers(d)
    BY <1>6, ZenonT(40), SMTT(40) DEF Offers
  <2>7. WaitqHomogeneous'
    <3> SUFFICES ASSUME NEW r \in Service, NEW x \in Range(waitq'[r])
                 PROVE  IF wct'[r] THEN x \in Live /\ tsvc[x] = r
                                   ELSE x \in clients /\ r \in Offers(x)'
      BY <2>5, ZenonT(40), SMTT(40) DEF WaitqHomogeneous
    <3>1. CASE r = s /\ x = t
      BY <3>1, <1>1, <2>2, ZenonT(40), SMTT(40) DEF s
    <3>2. CASE r = s /\ x # t
      <4>1. x \in Range(waitq[s])
        BY <3>2, <2>1, <2>2, ZenonT(40)
      <4>2. wct[s]
        BY <4>1, <1>0, <1>6, Basics, EndsFacts, SMTT(40), ZenonT(40)
      <4> QED
        BY <3>2, <4>1, <4>2, <1>0, <1>6, <2>2, ZenonT(40), SMTT(40) DEF IndInv, WaitqHomogeneous
    <3>3. CASE r # s
      <4>1. /\ waitq'[r] = waitq[r] /\ wct'[r] = wct[r] /\ x \in Range(waitq[r])
            /\ IF wct[r] THEN x \in Live /\ tsvc[x] = r ELSE x \in clients /\ r \in Offers(x)
        BY <3>3, <1>0, <2>2, ZenonT(40), SMTT(40) DEF IndInv, WaitqHomogeneous
      <4> QED
        BY <4>1, <1>0, <2>6, ZenonT(40), SMTT(40)
    <3> QED
      BY <3>1, <3>2, <3>3
  <2>8. TransactionsOwned' /\ RepliesCompleted'
    BY <1>0, <2>5, ZenonT(40), SMTT(40) DEF IndInv, TransactionsOwned, RepliesCompleted
  <2>9. ServicesAdvertised'
    BY <1>0, <2>5, <2>6 DEF IndInv, ServicesAdvertised, Advertisers
  <2>10. NoMissedReply' /\ Disconnected' /\ PointersLive' /\ Returning'
    <3>1. NoMissedReply'
      BY <1>0, <1>1, <1>3, <1>6, <2>3, <2>5, <2>6, ZenonT(40), SMTT(40) DEF IndInv, NoMissedReply, Hanging
    <3>2. Disconnected'
      BY <1>0, <1>1, <1>3, <1>6, <2>3, <2>5, <2>6, SMTT(40), ZenonT(40) DEF IndInv, Disconnected
    <3>3. PointersLive'
      BY <1>0, <1>1, <1>3, <1>6, <2>3, <2>5, <2>6, Pointers, ZenonT(40), SMTT(40) DEF IndInv, PointersLive
    <3>4. Returning'
      BY <1>0, <1>1, <1>3, <1>6, <2>3, <2>5, <2>6, Pointers, ZenonT(90), SMTT(40) DEF IndInv, Returning
    <3> QED
      BY <3>1, <3>2, <3>3, <3>4
  <2>11. Reading'
    <3> SUFFICES ASSUME NEW d \in Client, handler'[d] = "send_to_worker"
                 PROVE  /\ requests[d] # <<>> /\ buf'[d] = LastOf(requests[d])
                        /\ \A e \in Client : wait4[e] # buf'[d]
                        /\ \A r \in Service : buf'[d] \notin Range(waitq'[r])
      BY <2>5, ZenonT(40), SMTT(40) DEF Reading
    <3>1. d # c /\ handler[d] = "send_to_worker" /\ buf'[d] = buf[d] /\ buf[d] # t
      BY <1>2, <1>3, <1>6, <2>3, ZenonT(40), SMTT(40)
    <3>2. /\ requests[d] # <<>> /\ buf[d] = LastOf(requests[d])
          /\ \A e \in Client : wait4[e] # buf[d]
          /\ \A r \in Service : buf[d] \notin Range(waitq[r])
      BY <3>1, <1>0, ZenonT(40), SMTT(40) DEF IndInv, Reading
    <3> QED
      BY <3>1, <3>2, <2>1, <2>2, ZenonT(40)
  <2>12. Quiet'
    <3>1. \A d \in Client : \A r \in Service : Idle(d, r)' <=> Idle(d, r)
      BY <1>1, <2>1, <2>2, Pointers, ZenonT(40) DEF Idle
    <3>2. \A d \in Client : Offers(d) \subseteq Service
      BY DEF Offers
    <3> QED
      BY <3>1, <3>2, <1>0, <1>3, <1>6, <2>5, <2>6, ZenonT(40), SMTT(40) DEF IndInv, Quiet
  <2> QED
    BY <2>4, <2>7, <2>8, <2>9, <2>10, <2>11, <2>12, ZenonT(40), SMTT(40) DEF IndInv
<1> QED
  BY <1>4, <1>5, <1>6, ZenonT(40) DEF send_to_worker

\* find_earliest returns an advertisement with a transaction waiting, whenever
\* there is one.
LEMMA find_earliestFound ==
    ASSUME QueueLaws, IndInv, Up, NEW c \in Client, Pending(c) # {}
    PROVE  find_earliest(c) \in Pending(c)
<1> DEFINE H(r) == Arrival(Head(waitq[r]))
           N == Len(tptransactions)
           A == {H(r) : r \in Pending(c)}
<1>1. \A r \in Pending(c) : Head(waitq[r]) \in Live
  <2> TAKE r \in Pending(c)
  <2>1. r \in Service /\ wct[r] /\ waitq[r] # <<>>
    BY ZenonT(40), SMTT(40) DEF Pending, Offers
  <2>2. Head(waitq[r]) \in Range(waitq[r])
    BY <2>1, Basics, EndsFacts, ZenonT(40), SMTT(40) DEF IndInv
  <2> QED
    BY <2>1, <2>2 DEF IndInv, WaitqHomogeneous
<1>2. tptransactions \in Seq(Tran)
  BY DEF IndInv, TypeOK
<1>3. N \in Nat /\ DOMAIN tptransactions = 1..N
  BY <1>2
<1>4. \A t \in Live : Arrival(t) \in 1..N
  BY <1>3, ZenonT(40), SMTT(40) DEF Live, Range, Arrival
<1>5. A \subseteq 0..N /\ A # {}
  <2>1. \A r \in Pending(c) : H(r) \in 1..N
    BY <1>1, <1>4
  <2> HIDE DEF H
  <2> QED
    BY <2>1, <1>3
<1>6. PICK a \in A : \A b \in A : b <= a
  BY <1>3, <1>5, ZenonT(40) DEF QueueLaws
<1>7. \E s \in Pending(c) : \A r \in Pending(c) : H(r) <= H(s)
  BY <1>6
<1> QED
  BY <1>7 DEF find_earliest

\* svrservice with work waiting keeps the tables consistent.
LEMMA svrservice_immediateInv ==
    ASSUME QueueLaws, IndInv, NEW c \in Client, svrservice_immediate(c)
    PROVE  IndInv'
<1> DEFINE s == find_earliest(c)
           t == Head(waitq[s])
<1>0. /\ TypeOK /\ Up /\ handler[c] = "command" /\ c \in clients
      /\ Live \subseteq Tran /\ Pending(c) # {}
  <2>1. TypeOK
    BY ZenonT(40), SMTT(40) DEF IndInv
  <2>2. Up /\ handler[c] = "command" /\ c \in clients /\ Pending(c) # {}
    BY ZenonT(40), SMTT(40) DEF svrservice_immediate, Input, Up
  <2> QED
    BY <2>1, <2>2, Basics, ZenonT(40), SMTT(40)
<1>1. s \in Service /\ wct[s] /\ waitq[s] # <<>>
  BY <1>0, find_earliestFound DEF Pending, Offers
<1>2. /\ send_to_server(c, t, s, Called(c))
      /\ UNCHANGED <<clients, buf, callVars, adverts, services, wct,
                     tptransactions, tclient, tsvc, rval>>
  BY ZenonT(40), SMTT(40) DEF svrservice_immediate
<1>3. t \in Range(waitq[s])
  BY <1>0, <1>1, Basics, EndsFacts, ZenonT(40), SMTT(40)
<1> HIDE DEF s, t
<1>4. t \in Live /\ t \in Tran
  BY <1>0, <1>1, <1>3, ZenonT(40), SMTT(40) DEF IndInv, WaitqHomogeneous
<1>5. \A d \in Client : handler[d] = "send_to_worker" => buf[d] # t
  BY <1>0, <1>1, <1>3, ReadingFacts
<1>6. /\ handler' = [Called(c) EXCEPT ![c] = "command"]
      /\ out' = Wrote(c, Msg("work", t, adverts[c][s]))
      /\ status' = svriowait(c, Called(c))
  BY <1>2, ZenonT(40), SMTT(40) DEF send_to_server
<1>7. /\ handler' \in [Client -> {"none", "command", "send_to_worker", "part2"}]
      /\ \A d \in Client : handler'[d] = handler[d]
  BY <1>0, <1>6, ZenonT(40), SMTT(40) DEF Called, TypeOK
<1>8. out' \in [Client -> Messages]
  <2>1. adverts[c][s] \in Func \cup {None}
    BY <1>0, <1>1, ZenonT(40), SMTT(40) DEF TypeOK
  <2>2. Msg("work", t, adverts[c][s]) \in Messages
    BY <2>1, <1>4, ReplyTypes
  <2> QED
    BY <2>2, <1>6, WroteType, ZenonT(40), SMTT(40)
<1>9. status' \in {"up", "assert"}
  BY <1>6, ZenonT(40), SMTT(40) DEF svriowait
<1>10. Dispatched(c, t)
  BY <1>0, <1>2, <1>5, <1>7, <1>8, <1>9, ZenonT(40), SMTT(40) DEF send_to_server, Dispatched, callVars, TypeOK
<1> QED
  BY <1>0, <1>4, <1>10, DispatchInv, ZenonT(40), SMTT(40)

\* svrservice with nothing to do keeps the tables consistent: the queues the
\* worker joins hold workers only.
LEMMA svrservice_waitsInv ==
    ASSUME IndInv, NEW c \in Client, svrservice_waits(c)
    PROVE  IndInv'
<1>0. /\ TypeOK /\ Up /\ Up' /\ handler[c] = "command" /\ c \in clients /\ ~serving[c]
      /\ clients \subseteq Client /\ Live' = Live /\ Live \subseteq Tran
  <2>1. TypeOK
    BY ZenonT(40), SMTT(40) DEF IndInv
  <2>2. /\ Up /\ Up' /\ handler[c] = "command" /\ c \in clients /\ ~serving[c]
        /\ Live' = Live
    BY DEF svrservice_waits, Input, Up, Live, tranVars
  <2> QED
    BY <2>1, <2>2, Basics, ZenonT(40)
<1>1. \A s \in Offers(c) : s \in Service /\ (wct[s] => waitq[s] = <<>>)
  BY ZenonT(40) DEF svrservice_waits, Pending, Offers
<1>2. \A s \in Service :
          /\ Append(waitq[s], c) \in Seq(Client \cup Tran)
          /\ \A x : x \in Range(Append(waitq[s], c)) <=> x \in Range(waitq[s]) \/ x = c
  <2> TAKE s \in Service
  <2>1. waitq[s] \in Seq(Client \cup Tran) /\ c \in Client \cup Tran
    BY <1>0 DEF TypeOK
  <2> QED
    BY <2>1, AppendFacts
<1>3. /\ waitq' \in [Service -> Seq(Client \cup Tran)]
      /\ \A s \in Service : \A x :
            x \in Range(waitq'[s]) <=> x \in Range(waitq[s]) \/ (s \in Offers(c) /\ x = c)
  <2>1. waitq' = add_to_waitq(c)
    BY ZenonT(40), SMTT(40) DEF svrservice_waits
  <2>2. waitq' \in [Service -> Seq(Client \cup Tran)]
    BY <2>1, <1>0, <1>2 DEF add_to_waitq, TypeOK
  <2>3. \A s \in Service :
            waitq'[s] = IF s \in Offers(c) THEN Append(waitq[s], c) ELSE waitq[s]
    BY <2>1, ZenonT(40), SMTT(40) DEF add_to_waitq
  <2> QED
    BY <2>2, <2>3, <1>2, ZenonT(40)
<1>4. /\ wct' \in [Service -> BOOLEAN]
      /\ \A s \in Service : wct'[s] <=> wct[s] /\ s \notin Offers(c)
  BY <1>0, ZenonT(40), SMTT(40) DEF svrservice_waits, MarkWorkers, TypeOK
<1>5. /\ handler' \in [Client -> {"none", "command", "send_to_worker", "part2"}]
      /\ handler'[c] = "none" /\ \A d \in Client \ {c} : handler'[d] = handler[d]
  BY <1>0 DEF svrservice_waits, Called, TypeOK
<1>6. /\ UNCHANGED <<clients, buf, wait4, requests, replies, adverts, services,
                     tptransactions, tclient, tsvc, executor, rval, serving, status>>
      /\ out' \in [Client -> Messages]
  BY WroteType, ZenonT(40), SMTT(40) DEF svrservice_waits, callVars, tranVars
<1>7. TypeOK'
  BY <1>0, <1>3, <1>4, <1>5, <1>6, ZenonT(40), SMTT(40) DEF TypeOK
<1>8. \A d \in Client : Offers(d)' = Offers(d)
  BY <1>6, ZenonT(40), SMTT(40) DEF Offers
<1>9. WaitqHomogeneous'
  <2> SUFFICES ASSUME NEW s \in Service, NEW x \in Range(waitq'[s])
               PROVE  IF wct'[s] THEN x \in Live /\ tsvc[x] = s
                                 ELSE x \in clients /\ s \in Offers(x)'
    BY <1>0, <1>6, ZenonT(40) DEF WaitqHomogeneous
  <2>1. CASE s \in Offers(c)
    <3>1. ~wct'[s]
      BY <2>1, <1>4, ZenonT(40), SMTT(40)
    <3>2. x = c \/ (x \in Range(waitq[s]) /\ ~wct[s])
      BY <2>1, <1>0, <1>1, <1>3, Basics, EndsFacts, ZenonT(40), SMTT(40)
    <3>3. x \in clients /\ s \in Offers(x)
      BY <2>1, <3>2, <1>0, ZenonT(40), SMTT(40) DEF IndInv, WaitqHomogeneous
    <3> QED
      BY <3>1, <3>3, <1>0, <1>8, ZenonT(40)
  <2>2. CASE s \notin Offers(c)
    <3>1. x \in Range(waitq[s]) /\ (wct'[s] <=> wct[s])
      BY <2>2, <1>3, <1>4, ZenonT(40), SMTT(40)
    <3>2. IF wct[s] THEN x \in Live /\ tsvc[x] = s ELSE x \in clients /\ s \in Offers(x)
      BY <3>1, <1>0, ZenonT(40), SMTT(40) DEF IndInv, WaitqHomogeneous
    <3> QED
      BY <3>1, <3>2, <1>0, <1>8, ZenonT(40), SMTT(40)
  <2> QED
    BY <2>1, <2>2, ZenonT(40), SMTT(40)
<1>10. TransactionsOwned' /\ RepliesCompleted'
  BY <1>0, <1>6, ZenonT(40), SMTT(40) DEF IndInv, TransactionsOwned, RepliesCompleted
<1>11. ServicesAdvertised'
  BY <1>0, <1>6, <1>8, ZenonT(40) DEF IndInv, ServicesAdvertised, Advertisers
<1>12. wait4[c] = None
  BY <1>0, ZenonT(40), SMTT(40) DEF IndInv, Quiet
<1>13. NoMissedReply' /\ Disconnected' /\ PointersLive' /\ Returning'
  <2>1. NoMissedReply'
    <3>1. None \notin Live
      BY <1>0, Pointers, ZenonT(40), SMTT(40)
    <3> QED
      BY <3>1, <1>0, <1>5, <1>6, <1>12, ZenonT(40) DEF IndInv, NoMissedReply, Hanging
  <2>2. Disconnected'
    BY <1>0, <1>5, <1>6, <1>8, <1>12, ZenonT(40), SMTT(40) DEF IndInv, Disconnected
  <2>3. PointersLive'
    BY <1>0, <1>5, <1>6, <1>8, <1>12, ZenonT(40), SMTT(40) DEF IndInv, PointersLive
  <2>4. Returning'
    BY <1>0, <1>5, <1>6, <1>8, <1>12, ZenonT(40), SMTT(40) DEF IndInv, Returning
  <2> QED
    BY <2>1, <2>2, <2>3, <2>4
<1>14. Reading'
  <2>1. \A d \in Client : handler[d] = "send_to_worker" => buf[d] # c
    <3> TAKE d \in Client
    <3>1. Up /\ c \notin Tran
      BY <1>0, Pointers
    <3>2. handler[d] = "send_to_worker" => buf[d] \in Tran
      BY <1>0, <3>1, ReadingFacts
    <3> QED
      BY <3>1, <3>2, ZenonT(40), SMTT(40)
  <2> QED
    BY <2>1, <1>0, <1>3, <1>5, <1>6, ZenonT(40) DEF IndInv, Reading
<1>15. Quiet'
  <2>1. \A d \in Client : Offers(d) \subseteq Service
    BY DEF Offers
  <2>2. \A d \in Client : \A s \in Service :
            Idle(d, s)' <=> Idle(d, s) \/ (d = c /\ s \in Offers(c))
    BY <1>3 DEF Idle
  <2>3. \A s \in Service : ~Idle(c, s)
    BY <1>0 DEF IndInv, Quiet
  <2> QED
    BY <2>1, <2>2, <2>3, <1>0, <1>5, <1>6, <1>8, <1>12, ZenonT(40) DEF IndInv, Quiet
<1> QED
  BY <1>7, <1>9, <1>10, <1>11, <1>13, <1>14, <1>15 DEF IndInv

================================================================================
