----------------------------- MODULE DeletionProofs ----------------------------
(***************************************************************************)
(* The handlers that free transactions keep the tables of the switchboard  *)
(* consistent.  Deleted says what del_transaction() does element by        *)
(* element; Freeing what a whole handler that deletes a set T of           *)
(* transactions may do; FreeingInv that this preserves the inductive       *)
(* invariant.  First come the handlers that reply to a caller, then those  *)
(* that free advertisements and services as well, svrunadvertise() and     *)
(* del_client().                                                           *)
(***************************************************************************)
EXTENDS SwitchboardProofs

\* The arguments of del_transaction are tables of the types the code declares.
Tables(w4, rq, rp, wq, in) ==
    /\ w4 \in [Client -> Tran \cup {None, AnyTran, Freed}]
    /\ rq \in [Client -> Seq(Tran)]
    /\ rp \in [Client -> Seq(Tran)]
    /\ wq \in [Service -> Seq(Client \cup Tran)]
    /\ in \in [Client -> Tran \cup {None, Freed}]

\* The tables after the deletion of T, element by element.
Deleted(T, w4, rq, rp, wq, in) ==
    /\ tptransactions' \in Seq(Tran)
    /\ Tables(wait4', requests', replies', waitq', buf')
    /\ \A x : x \in Live' <=> x \in Live /\ x \notin T
    /\ \A d \in Client : \A x :
          /\ x \in Range(requests'[d]) <=> x \in Range(rq[d]) /\ x \notin T
          /\ x \in Range(replies'[d]) <=> x \in Range(rp[d]) /\ x \notin T
    /\ \A d \in Client :
          rq[d] # <<>> /\ LastOf(rq[d]) \notin T =>
              requests'[d] # <<>> /\ LastOf(requests'[d]) = LastOf(rq[d])
    /\ \A s \in Service : \A x :
          x \in Range(waitq'[s]) <=> x \in Range(wq[s]) /\ x \notin T
    /\ \A d \in Client :
          /\ w4[d] \notin T => wait4'[d] = w4[d]
          /\ w4[d] \in T => wait4'[d] \in {None, Freed}
          /\ in[d] \notin T => buf'[d] = in[d]
          /\ in[d] \in T => buf'[d] = Freed

\* del_transaction() takes the members of T, and nothing else, out of every queue
\* and leaves no pointer to them.
LEMMA del_transactionFacts ==
    ASSUME QueueLaws, TypeOK, NEW T, NEW w4, NEW ex, NEW rq, NEW rp, NEW wq, NEW in,
           Tables(w4, rq, rp, wq, in), del_transaction(T, w4, ex, rq, rp, wq, in)
    PROVE  Deleted(T, w4, rq, rp, wq, in)
<1> USE DEF Tables
<1>1. /\ tptransactions' \in Seq(Tran)
      /\ \A x : x \in Live' <=> x \in Live /\ x \notin T
  <2>1. tptransactions \in Seq(Tran) /\ tptransactions' = Without(tptransactions, T)
    BY DEF TypeOK, del_transaction
  <2>2. /\ Without(tptransactions, T) \in Seq(Tran)
        /\ Range(Without(tptransactions, T)) = Range(tptransactions) \ T
    BY <2>1, TranQueues
  <2> QED
    BY <2>1, <2>2 DEF Live
<1>2. /\ requests' \in [Client -> Seq(Tran)]
      /\ \A d \in Client : \A x : x \in Range(requests'[d]) <=> x \in Range(rq[d]) /\ x \notin T
      /\ \A d \in Client :
            rq[d] # <<>> /\ LastOf(rq[d]) \notin T =>
                requests'[d] # <<>> /\ LastOf(requests'[d]) = LastOf(rq[d])
  <2>1. requests' = [d \in Client |-> Without(rq[d], T)]
    BY DEF del_transaction
  <2>2. \A d \in Client : requests'[d] = Without(rq[d], T) /\ rq[d] \in Seq(Tran)
    BY <2>1
  <2>3. requests' \in [Client -> Seq(Tran)]
    BY <2>1, <2>2, TranQueues
  <2> QED
    BY <2>2, <2>3, TranQueues
<1>3. /\ replies' \in [Client -> Seq(Tran)]
      /\ \A d \in Client : \A x : x \in Range(replies'[d]) <=> x \in Range(rp[d]) /\ x \notin T
  <2>1. replies' = [d \in Client |-> Without(rp[d], T)]
    BY DEF del_transaction
  <2>2. \A d \in Client : replies'[d] = Without(rp[d], T) /\ rp[d] \in Seq(Tran)
    BY <2>1
  <2>3. replies' \in [Client -> Seq(Tran)]
    BY <2>1, <2>2, TranQueues
  <2> QED
    BY <2>2, <2>3, TranQueues
<1>4. /\ waitq' \in [Service -> Seq(Client \cup Tran)]
      /\ \A s \in Service : \A x : x \in Range(waitq'[s]) <=> x \in Range(wq[s]) /\ x \notin T
  <2>1. waitq' = [s \in Service |-> Without(wq[s], T)]
    BY DEF del_transaction
  <2>2. \A s \in Service : waitq'[s] = Without(wq[s], T) /\ wq[s] \in Seq(Client \cup Tran)
    BY <2>1
  <2>3. \A s \in Service : /\ Without(wq[s], T) \in Seq(Client \cup Tran)
                           /\ Range(Without(wq[s], T)) = Range(wq[s]) \ T
    BY <2>2, WaitQueues, ZenonT(40)
  <2>4. waitq' \in [Service -> Seq(Client \cup Tran)]
    BY <2>1, <2>3
  <2>5. \A s \in Service : Range(waitq'[s]) = Range(wq[s]) \ T
    BY <2>2, <2>3
  <2> QED
    BY <2>4, <2>5
<1>5. /\ wait4' \in [Client -> Tran \cup {None, AnyTran, Freed}]
      /\ \A d \in Client : /\ w4[d] \notin T => wait4'[d] = w4[d]
                           /\ w4[d] \in T => wait4'[d] \in {None, Freed}
  BY DEF del_transaction, ClearWait4
<1>6. /\ buf' \in [Client -> Tran \cup {None, Freed}]
      /\ \A d \in Client : /\ in[d] \notin T => buf'[d] = in[d]
                           /\ in[d] \in T => buf'[d] = Freed
  BY DEF del_transaction
<1> QED
  BY <1>1, <1>2, <1>3, <1>4, <1>5, <1>6 DEF Deleted

\* A handler deletes T, and what it does besides is harmless: no queue gains a
\* member but for a request that moves to the replies with a result, what a client
\* that stays has offered, read or awaited is still there.
Freeing(T) ==
    /\ \A x : x \in Live' <=> x \in Live /\ x \notin T
    /\ \A s \in Service : \A x \in Range(waitq'[s]) :
          /\ x \in Range(waitq[s]) /\ x \notin T
          /\ wct'[s] = wct[s]
          /\ wct[s] => tsvc'[x] = s
          /\ x \in clients /\ s \in Offers(x) => x \in clients' /\ s \in Offers(x)'
    /\ \A d \in Client : \A x \in Range(requests'[d]) :
          x \in Range(requests[d]) /\ x \notin T /\ x \notin Range(replies'[d])
    /\ \A d \in Client : \A x \in Range(replies'[d]) :
          x \in Range(requests[d]) \cup Range(replies[d]) /\ x \notin T /\ rval'[x] # None
    /\ \A d \in Client : \A x \in Range(requests[d]) \cup Range(replies[d]) :
          x \notin T => x \in Range(requests'[d]) \cup Range(replies'[d])
    /\ \A x \in Live : x \notin T => tclient'[x] = tclient[x] /\ tclient[x] \in clients'
    /\ \A d \in Client :
          /\ wait4'[d] \in Tran => wait4'[d] = wait4[d] /\ wait4[d] \notin T
          /\ wait4[d] = None => wait4'[d] = None
          /\ buf'[d] \in Tran => buf'[d] = buf[d] /\ buf[d] \notin T
    /\ \A d \in clients' :
          handler'[d] = "none" =>
              /\ d \in clients /\ handler[d] = "none"
              /\ wait4'[d] \in Range(requests[d]) => wait4'[d] \in Range(requests'[d])
    /\ \A d \in Client :
          handler'[d] = "send_to_worker" =>
              /\ handler[d] = "send_to_worker" /\ buf'[d] = buf[d]
              /\ requests'[d] # <<>> /\ LastOf(requests'[d]) = LastOf(requests[d])
    /\ \A d \in Client :
          handler'[d] = "part2" /\ buf'[d] # Freed =>
              /\ handler[d] = "part2" /\ buf'[d] = buf[d] /\ wait4'[d] = wait4[d]
              /\ \A x \in Tran : rval[x] # None /\ x = buf[d] => rval'[x] # None
    /\ \A d \in Client :
          handler'[d] \in {"command", "send_to_worker"} /\ ~serving'[d] =>
              \/ wait4'[d] = None
              \/ handler[d] \in {"command", "send_to_worker"} /\ ~serving[d]
    /\ \A d \in Client : \A s \in Service :
          Idle(d, s)' => /\ Idle(d, s) /\ handler'[d] = handler[d]
                         /\ \A r \in Offers(d)' : r \in Offers(d) /\ (Idle(d, r) => Idle(d, r)')

\* A handler that deletes transactions in this way preserves the invariant.
LEMMA FreeingInv ==
    ASSUME IndInv, Up, TypeOK', Up', NEW T, Freeing(T), ServicesAdvertised', Disconnected'
    PROVE  IndInv'
<1>0. /\ TypeOK /\ clients \subseteq Client /\ clients' \subseteq Client
      /\ Live \subseteq Tran /\ Live' \subseteq Tran
  <2>1. TypeOK /\ clients \subseteq Client /\ Live \subseteq Tran
    BY Basics DEF IndInv
  <2>2. clients' \subseteq Client /\ tptransactions' \in Seq(Tran)
    BY Zenon DEF TypeOK
  <2> QED
    BY <2>1, <2>2, EndsFacts DEF Live
<1>1. WaitqHomogeneous'
  <2> SUFFICES ASSUME NEW s \in Service, NEW x \in Range(waitq'[s])
               PROVE  IF wct'[s] THEN x \in Live' /\ tsvc'[x] = s
                                 ELSE x \in clients' /\ s \in Offers(x)'
    BY ZenonT(40), SMTT(40) DEF WaitqHomogeneous
  <2>1. /\ x \in Range(waitq[s]) /\ x \notin T /\ wct'[s] = wct[s]
        /\ wct[s] => tsvc'[x] = s
        /\ x \in clients /\ s \in Offers(x) => x \in clients' /\ s \in Offers(x)'
        /\ x \in Live' <=> x \in Live /\ x \notin T
    BY DEF Freeing
  <2>2. IF wct[s] THEN x \in Live /\ tsvc[x] = s ELSE x \in clients /\ s \in Offers(x)
    BY <2>1 DEF IndInv, WaitqHomogeneous
  <2> QED
    BY <2>1, <2>2
<1>2. TransactionsOwned'
  <2>1. \A d \in Client : \A t \in Range(requests'[d]) :
            t \in Live' /\ tclient'[t] = d /\ t \notin Range(replies'[d])
    BY ZenonT(40), SMTT(40) DEF Freeing, IndInv, TransactionsOwned
  <2>2. \A d \in Client : \A t \in Range(replies'[d]) : t \in Live' /\ tclient'[t] = d
    BY ZenonT(40), SMTT(40) DEF Freeing, IndInv, TransactionsOwned
  <2>3. \A t \in Live' :
            /\ tclient'[t] \in clients'
            /\ t \in Range(requests'[tclient'[t]]) \cup Range(replies'[tclient'[t]])
    BY <1>0, SMTT(40), ZenonT(40) DEF Freeing, IndInv, TransactionsOwned
  <2> QED
    BY <2>1, <2>2, <2>3, ZenonT(40), SMTT(40) DEF TransactionsOwned
<1>3. RepliesCompleted'
  BY ZenonT(40), SMTT(40) DEF Freeing, RepliesCompleted
<1>4. NoMissedReply'
  <2> SUFFICES ASSUME NEW d \in Client, Hanging(d)', wait4'[d] \in Live', tclient'[wait4'[d]] = d
               PROVE  wait4'[d] \in Range(requests'[d])
    BY DEF NoMissedReply
  <2>1. d \in clients' /\ handler'[d] = "none" /\ wait4'[d] \in Tran
    BY <1>0, ZenonT(40), SMTT(40) DEF Hanging
  <2>2. /\ d \in clients /\ handler[d] = "none" /\ wait4'[d] = wait4[d]
        /\ wait4[d] \in Live /\ tclient[wait4[d]] = d
    BY <1>0, <2>1 DEF Freeing
  <2>3. wait4[d] \in Range(requests[d])
    BY <2>2, ZenonT(40), SMTT(40) DEF IndInv, NoMissedReply, Hanging
  <2> QED
    BY <2>1, <2>2, <2>3 DEF Freeing
<1>5. PointersLive'
  BY ZenonT(40), SMTT(40) DEF Freeing, IndInv, PointersLive
<1>6. Reading'
  <2> SUFFICES ASSUME NEW d \in Client, handler'[d] = "send_to_worker"
               PROVE  /\ requests'[d] # <<>> /\ buf'[d] = LastOf(requests'[d])
                      /\ \A e \in Client : wait4'[e] # buf'[d]
                      /\ \A s \in Service : buf'[d] \notin Range(waitq'[s])
    BY ZenonT(40), SMTT(40) DEF Reading
  <2>1. /\ handler[d] = "send_to_worker" /\ buf'[d] = buf[d]
        /\ requests'[d] # <<>> /\ LastOf(requests'[d]) = LastOf(requests[d])
    BY DEF Freeing
  <2>2. /\ buf[d] = LastOf(requests[d]) /\ buf[d] \in Tran
        /\ \A e \in Client : wait4[e] # buf[d]
        /\ \A s \in Service : buf[d] \notin Range(waitq[s])
    BY <2>1, ReadingFacts, ZenonT(40), SMTT(40)
  <2>3. \A e \in Client : wait4'[e] \in Tran => wait4'[e] = wait4[e]
    BY ZenonT(40), SMTT(40) DEF Freeing
  <2>4. \A s \in Service : \A x \in Range(waitq'[s]) : x \in Range(waitq[s])
    BY DEF Freeing
  <2> QED
    BY <2>1, <2>2, <2>3, <2>4
<1>7. Returning'
  <2> SUFFICES ASSUME NEW d \in Client, handler'[d] = "part2", buf'[d] # Freed
               PROVE  buf'[d] \in Tran /\ buf'[d] = wait4'[d] /\ rval'[buf'[d]] # None
    BY ZenonT(40), SMTT(40) DEF Returning
  <2>1. /\ handler[d] = "part2" /\ buf'[d] = buf[d] /\ wait4'[d] = wait4[d]
        /\ \A x \in Tran : rval[x] # None /\ x = buf[d] => rval'[x] # None
    BY DEF Freeing
  <2> QED
    BY <2>1 DEF IndInv, Returning
<1>8. Quiet'
  <2>1. \A d \in Client :
            handler'[d] \in {"command", "send_to_worker"} /\ ~serving'[d] => wait4'[d] = None
    BY DEF Freeing, IndInv, Quiet
  <2>2. ASSUME NEW d \in Client, NEW s \in Service, Idle(d, s)'
        PROVE  handler'[d] = "none" /\ wait4'[d] = None /\ \A r \in Offers(d)' : Idle(d, r)'
    <3>1. /\ Idle(d, s) /\ handler'[d] = handler[d]
          /\ \A r \in Offers(d)' : r \in Offers(d) /\ (Idle(d, r) => Idle(d, r)')
      BY <2>2, ZenonT(40), SMTT(40) DEF Freeing
    <3>2. handler[d] = "none" /\ wait4[d] = None /\ \A r \in Offers(d) : Idle(d, r)
      BY <3>1, ZenonT(40), SMTT(40) DEF IndInv, Quiet
    <3>3. wait4'[d] = None
      BY <3>2 DEF Freeing
    <3> QED
      BY <3>1, <3>2, <3>3, ZenonT(40), SMTT(40)
  <2> QED
    BY <2>1, <2>2, ZenonT(40), SMTT(40) DEF Quiet
<1> QED
  BY <1>1, <1>2, <1>3, <1>4, <1>5, <1>6, <1>7, <1>8, ZenonT(40), SMTT(40) DEF IndInv

\* What snd_reply is called with, for live transaction t: the tables as they are,
\* but for a client other than the caller whose result has just been read.
Replying(t, hd, w4, ex, in) ==
    /\ hd \in [Client -> {"none", "command", "send_to_worker", "part2"}]
    /\ w4 \in [Client -> Tran \cup {None, AnyTran, Freed}]
    /\ ex \in [Tran -> Client \cup {None, Freed}]
    /\ in \in [Client -> Tran \cup {None, Freed}]
    /\ \A d \in Client :
          /\ w4[d] = wait4[d] \/ w4[d] = None
          /\ in[d] = buf[d] \/ in[d] = None
          /\ d # tclient[t] =>
                \/ hd[d] = handler[d] /\ w4[d] = wait4[d] /\ in[d] = buf[d]
                \/ hd[d] = "command" /\ handler[d] # "none" /\ w4[d] = None
          /\ d = tclient[t] => wait4[d] # None \/ handler[d] # "none"
          /\ handler[d] = "send_to_worker" => buf[d] # t

\* snd_reply keeps the tables consistent, or fails svriowait's assertion.
LEMMA snd_replyInv ==
    ASSUME QueueLaws, IndInv, Up, NEW t \in Live, NEW hd, NEW w4, NEW ex, NEW in,
           Replying(t, hd, w4, ex, in), snd_reply(t, hd, w4, ex, in),
           UNCHANGED <<clients, adverts, services, wct, serving>>
    PROVE  IndInv'
<1> DEFINE a == tclient[t]
           w4a == [w4 EXCEPT ![a] = None]
<1>0. /\ TypeOK /\ clients \subseteq Client /\ Live \subseteq Tran
      /\ t \in Tran /\ a \in clients /\ a \in Client
  BY Basics DEF IndInv, TransactionsOwned
<1>1. /\ w4a \in [Client -> Tran \cup {None, AnyTran, Freed}]
      /\ w4a[a] = None /\ \A d \in Client \ {a} : w4a[d] = w4[d]
  BY <1>0 DEF Replying
<1>2. Deleted({t}, w4a, requests, replies, waitq, in)
  <2>1. Tables(w4a, requests, replies, waitq, in)
    BY <1>0, <1>1, ZenonT(40), SMTT(40) DEF Tables, TypeOK, Replying
  <2>2. del_transaction({t}, w4a, ex, requests, replies, waitq, in)
    BY DEF snd_reply
  <2> HIDE DEF a, w4a
  <2> QED
    BY <1>0, <2>1, <2>2, del_transactionFacts
<1>3. /\ tclient' \in [Tran -> Client \cup {None}]
      /\ executor' \in [Tran -> Client \cup {None, Freed}]
      /\ tsvc' \in [Tran -> Service \cup {None, Freed}]
      /\ rval' \in [Tran -> Rval \cup {None}]
      /\ \A u \in Tran \ {t} : tclient'[u] = tclient[u] /\ tsvc'[u] = tsvc[u] /\ rval'[u] = rval[u]
  <2>1. /\ ClearFields({t}, ex, tsvc, rval)
        /\ ex \in [Tran -> Client \cup {None, Freed}]
        /\ tsvc \in [Tran -> Service \cup {None, Freed}]
        /\ rval \in [Tran -> Rval \cup {None}]
    BY <1>0 DEF snd_reply, Replying, TypeOK
  <2> QED
    BY <1>0, <2>1, ZenonT(40), SMTT(40) DEF ClearFields, TypeOK
<1>4. /\ handler' \in [Client -> {"none", "command", "send_to_worker", "part2"}]
      /\ handler'[a] = "command" /\ \A d \in Client \ {a} : handler'[d] = hd[d]
  BY <1>0, ZenonT(40) DEF snd_reply, Replying
<1>5. out' \in [Client -> Messages] /\ status' \in {"up", "assert"}
  <2>1. Msg("reply", t, rval[t]) \in Messages
    BY <1>0, ReplyTypes DEF TypeOK
  <2>2. out' = Wrote(a, Msg("reply", t, rval[t])) /\ status' = svriowait(a, hd)
    BY ZenonT(40) DEF snd_reply
  <2> QED
    BY <2>1, <2>2, WroteType, ZenonT(40), SMTT(40) DEF svriowait
<1>6. TypeOK'
  BY <1>0, <1>2, <1>3, <1>4, <1>5, ZenonT(40), SMTT(40) DEF TypeOK, Deleted, Tables
<1>7. \A d \in Client : Offers(d)' = Offers(d)
  BY DEF Offers
<1>8. CASE ~Up'
  BY <1>6, <1>8, NotUpInv
<1>9. CASE Up'
  <2>1. ServicesAdvertised'
    BY <1>0, <1>7, <1>9 DEF IndInv, ServicesAdvertised, Advertisers
  <2> HIDE DEF a, w4a
  <2>2. \A d \in Client : /\ wait4'[d] \in Tran => wait4'[d] = wait4[d] /\ wait4[d] # t
                          /\ wait4[d] = None => wait4'[d] = None
                          /\ buf'[d] \in Tran => buf'[d] = buf[d] /\ buf[d] # t
    <3> TAKE d \in Client
    <3>1. w4a[d] = wait4[d] \/ w4a[d] = None
      BY <1>1 DEF Replying
    <3>2. in[d] = buf[d] \/ in[d] = None
      BY ZenonT(40), SMTT(40) DEF Replying
    <3>3. /\ w4a[d] # t => wait4'[d] = w4a[d]
          /\ w4a[d] = t => wait4'[d] \in {None, Freed}
          /\ in[d] # t => buf'[d] = in[d]
          /\ in[d] = t => buf'[d] = Freed
      BY <1>2, ZenonT(40), SMTT(40) DEF Deleted
    <3> QED
      BY <1>0, <3>1, <3>2, <3>3, Pointers, ZenonT(40)
  <2>3. \A d \in Client \ {a} :
            /\ \/ hd[d] = handler[d] /\ w4a[d] = wait4[d] /\ in[d] = buf[d]
               \/ hd[d] = "command" /\ handler[d] # "none" /\ w4a[d] = None
            /\ handler'[d] = hd[d]
    BY <1>1, <1>4, ZenonT(40), SMTT(40) DEF Replying, a
  <2>4. Disconnected'
    BY <1>0, <1>7, <2>2, <2>3, ZenonT(40), SMTT(40) DEF IndInv, Disconnected
  <2>5. \A s \in Service : \A x \in Range(waitq'[s]) :
            /\ x \in Range(waitq[s]) /\ x \notin {t} /\ wct'[s] = wct[s]
            /\ wct[s] => tsvc'[x] = s
            /\ x \in clients /\ s \in Offers(x) => x \in clients' /\ s \in Offers(x)'
    <3> TAKE s \in Service
    <3> TAKE x \in Range(waitq'[s])
    <3>1. x \in Range(waitq[s]) /\ x # t
      BY <1>2, ZenonT(40), SMTT(40) DEF Deleted
    <3>2. wct[s] => x \in Tran /\ tsvc[x] = s
      BY <3>1, <1>0, ZenonT(40), SMTT(40) DEF IndInv, WaitqHomogeneous
    <3> QED
      BY <3>1, <3>2, <1>0, <1>3, <1>7, ZenonT(40), SMTT(40)
  <2>6. \A d \in Client : \A x :
            /\ x \in Range(requests'[d]) <=> x \in Range(requests[d]) /\ x # t
            /\ x \in Range(replies'[d]) <=> x \in Range(replies[d]) /\ x # t
    BY <1>2, ZenonT(40), SMTT(40) DEF Deleted
  <2>7. /\ \A d \in Client : \A x \in Range(requests'[d]) :
              x \in Range(requests[d]) /\ x \notin {t} /\ x \notin Range(replies'[d])
        /\ \A d \in Client : \A x \in Range(requests[d]) \cup Range(replies[d]) :
              x \notin {t} => x \in Range(requests'[d]) \cup Range(replies'[d])
    BY <2>6, ZenonT(40), SMTT(40) DEF IndInv, TransactionsOwned
  <2>8. \A d \in Client : \A x \in Range(replies'[d]) :
            /\ x \in Range(requests[d]) \cup Range(replies[d]) /\ x \notin {t}
            /\ rval'[x] # None
    <3> TAKE d \in Client
    <3> TAKE x \in Range(replies'[d])
    <3>1. x \in Range(replies[d]) /\ x # t
      BY <2>6, ZenonT(40), SMTT(40)
    <3>2. x \in Tran /\ rval[x] # None
      BY <3>1, <1>0, ZenonT(40), SMTT(40) DEF IndInv, TransactionsOwned, RepliesCompleted
    <3>3. rval'[x] = rval[x]
      BY <3>1, <3>2, <1>3, ZenonT(40), SMTT(40)
    <3> QED
      BY <3>1, <3>2, <3>3, ZenonT(40), SMTT(40)
  <2>9. \A x \in Live : x \notin {t} => tclient'[x] = tclient[x] /\ tclient[x] \in clients'
    BY <1>0, <1>3, ZenonT(40), SMTT(40) DEF IndInv, TransactionsOwned
  <2>10. \A d \in clients' :
            handler'[d] = "none" =>
                /\ d \in clients /\ handler[d] = "none"
                /\ wait4'[d] \in Range(requests[d]) => wait4'[d] \in Range(requests'[d])
    <3> SUFFICES ASSUME NEW d \in clients', handler'[d] = "none"
                 PROVE  /\ d \in clients /\ handler[d] = "none"
                        /\ wait4'[d] \in Range(requests[d]) => wait4'[d] \in Range(requests'[d])
      BY ZenonT(40), SMTT(40)
    <3>1. d \in clients /\ d \in Client /\ d # a
      BY <1>0, <1>4
    <3>2. handler[d] = "none"
      BY <3>1, <2>3, ZenonT(40), SMTT(40)
    <3>3. wait4'[d] # t
      BY <3>1, <2>2, <1>0, ZenonT(40), SMTT(40)
    <3> QED
      BY <3>1, <3>2, <3>3, <2>6, ZenonT(40), SMTT(40)
  <2>11. \A d \in Client :
            handler'[d] = "send_to_worker" =>
                /\ handler[d] = "send_to_worker" /\ buf'[d] = buf[d]
                /\ requests'[d] # <<>> /\ LastOf(requests'[d]) = LastOf(requests[d])
    <3> SUFFICES ASSUME NEW d \in Client, handler'[d] = "send_to_worker"
                 PROVE  /\ handler[d] = "send_to_worker" /\ buf'[d] = buf[d]
                        /\ requests'[d] # <<>> /\ LastOf(requests'[d]) = LastOf(requests[d])
      OBVIOUS
    <3>1. d # a /\ handler[d] = "send_to_worker" /\ in[d] = buf[d]
      BY <1>4, <2>3, ZenonT(40), SMTT(40)
    <3>2. buf[d] # t
      BY <3>1 DEF Replying
    <3>3. requests[d] # <<>> /\ LastOf(requests[d]) # t
      BY <3>1, <3>2, ZenonT(40) DEF IndInv, Reading
    <3> QED
      BY <3>1, <3>2, <3>3, <1>2, ZenonT(40) DEF Deleted
  <2>12. \A d \in Client :
            handler'[d] = "part2" /\ buf'[d] # Freed =>
                /\ handler[d] = "part2" /\ buf'[d] = buf[d] /\ wait4'[d] = wait4[d]
                /\ \A x \in Tran : rval[x] # None /\ x = buf[d] => rval'[x] # None
    <3> SUFFICES ASSUME NEW d \in Client, handler'[d] = "part2", buf'[d] # Freed
                 PROVE  /\ handler[d] = "part2" /\ buf'[d] = buf[d] /\ wait4'[d] = wait4[d]
                        /\ \A x \in Tran : rval[x] # None /\ x = buf[d] => rval'[x] # None
      BY ZenonT(40), SMTT(40)
    <3>1. d # a /\ handler[d] = "part2" /\ in[d] = buf[d] /\ w4a[d] = wait4[d]
      BY <1>4, <2>3
    <3>2. in[d] # t /\ buf'[d] = buf[d]
      BY <1>2, <3>1, ZenonT(40) DEF Deleted
    <3>3. buf[d] = wait4[d]
      BY <3>1, <3>2 DEF IndInv, Returning
    <3>4. wait4'[d] = wait4[d]
      BY <3>1, <3>2, <3>3, <1>2, ZenonT(40) DEF Deleted
    <3> QED
      BY <3>1, <3>2, <3>4, <1>3, ZenonT(40), SMTT(40)
  <2>13. \A d \in Client :
            handler'[d] \in {"command", "send_to_worker"} /\ ~serving'[d] =>
                \/ wait4'[d] = None
                \/ handler[d] \in {"command", "send_to_worker"} /\ ~serving[d]
    <3> TAKE d \in Client
    <3>1. w4a[d] = None => wait4'[d] = None
      BY <1>0, <1>2, Pointers, ZenonT(40) DEF Deleted
    <3> QED
      BY <3>1, <1>1, <2>3, ZenonT(40), SMTT(40)
  <2>14. \A d \in Client : \A s \in Service :
            Idle(d, s)' => /\ Idle(d, s) /\ handler'[d] = handler[d]
                           /\ \A r \in Offers(d)' : r \in Offers(d) /\ (Idle(d, r) => Idle(d, r)')
    <3> SUFFICES ASSUME NEW d \in Client, NEW s \in Service, Idle(d, s)'
                 PROVE  /\ Idle(d, s) /\ handler'[d] = handler[d]
                        /\ \A r \in Offers(d)' : r \in Offers(d) /\ (Idle(d, r) => Idle(d, r)')
      BY ZenonT(40), SMTT(40)
    <3>1. Idle(d, s)
      BY <2>5, ZenonT(40), SMTT(40) DEF Idle
    <3>2. handler[d] = "none" /\ wait4[d] = None
      BY <3>1, ZenonT(40), SMTT(40) DEF IndInv, Quiet
    <3>3. d # a
      BY <3>2, ZenonT(40), SMTT(40) DEF Replying, a
    <3>4. d # t
      BY <1>0, Pointers
    <3>5. \A r \in Service : Idle(d, r) => Idle(d, r)'
      BY <3>4, <1>2, ZenonT(40) DEF Deleted, Idle
    <3>6. Offers(d) \subseteq Service
      BY DEF Offers
    <3> QED
      BY <3>1, <3>2, <3>3, <3>5, <3>6, <1>7, <2>3, ZenonT(40)
  <2>15. \A x : x \in Live' <=> x \in Live /\ x \notin {t}
    BY <1>2, ZenonT(40) DEF Deleted
  <2>16. \A d \in Client : /\ wait4'[d] \in Tran => wait4'[d] = wait4[d] /\ wait4[d] \notin {t}
                           /\ wait4[d] = None => wait4'[d] = None
                           /\ buf'[d] \in Tran => buf'[d] = buf[d] /\ buf[d] \notin {t}
    BY <2>2
  <2>17. Freeing({t})
    BY <2>5, <2>7, <2>8, <2>9, <2>10, <2>11, <2>12, <2>13, <2>14, <2>15, <2>16, Zenon
       DEF Freeing
  <2> QED
    BY <1>6, <1>9, <2>1, <2>4, <2>17, FreeingInv, ZenonT(40), SMTT(40)
<1> QED
  BY <1>8, <1>9, ZenonT(40), SMTT(40)

\* tpgetrply that finds its reply keeps the tables consistent: a reply is not a
\* request that is still being read.
LEMMA svrgetrply_extantInv ==
    ASSUME QueueLaws, IndInv, NEW c \in Client, NEW cd \in Tran, NEW getany \in BOOLEAN,
           svrgetrply_extant(c, cd, getany)
    PROVE  IndInv'
<1> DEFINE t == ExtantReply(c, cd, getany)
<1>0. /\ TypeOK /\ Up /\ handler[c] = "command" /\ c \in clients /\ replies[c] \in Seq(Tran)
  <2>1. TypeOK
    BY DEF IndInv
  <2>2. Up /\ handler[c] = "command" /\ c \in clients
    BY DEF svrgetrply_extant, Input, Up
  <2> QED
    BY <2>1, <2>2, Basics
<1>1. t \in Range(replies[c])
  BY <1>0, EndsFacts, ZenonT(40) DEF svrgetrply_extant, HasReply, ExtantReply
<1>2. t \in Live /\ tclient[t] = c /\ t \notin Range(requests[c])
  BY <1>0, <1>1, ZenonT(40) DEF IndInv, TransactionsOwned
<1>3. CASE Down("freed")
  BY <1>0, <1>3, DownInv, ZenonT(40), SMTT(40)
<1>4. CASE /\ snd_reply(t, Called(c), wait4, executor, buf)
           /\ UNCHANGED <<clients, adverts, services, wct, serving>>
  <2> HIDE DEF t
  <2>1. \A d \in Client : handler[d] = "send_to_worker" => buf[d] # t
    BY <1>0, <1>2, ReadingFacts, ZenonT(40), SMTT(40)
  <2>2. /\ Called(c) \in [Client -> {"none", "command", "send_to_worker", "part2"}]
        /\ \A d \in Client \ {c} : Called(c)[d] = handler[d]
    BY <1>0, ZenonT(40), SMTT(40) DEF Called, TypeOK
  <2>3. Replying(t, Called(c), wait4, executor, buf)
    BY <1>0, <1>2, <2>1, <2>2, ZenonT(40), SMTT(40) DEF Replying, TypeOK
  <2> QED
    BY <1>0, <1>2, <1>4, <2>3, snd_replyInv, ZenonT(40), SMTT(40)
<1> QED
  BY <1>3, <1>4, ZenonT(40), SMTT(40) DEF svrgetrply_extant

\* The second part of tpreturn keeps the tables consistent: a caller that is
\* answered was waiting, and one that is not finds the reply later.
LEMMA part2Inv ==
    ASSUME QueueLaws, IndInv, NEW c \in Client, part2(c)
    PROVE  IndInv'
<1> DEFINE t == wait4[c]
           a == tclient[t]
           w4 == [wait4 EXCEPT ![c] = None]
           ex == [executor EXCEPT ![t] = None]
           hd == [handler EXCEPT ![c] = "command"]
           in == [buf EXCEPT ![c] = None]
<1>0. /\ TypeOK /\ Up /\ handler[c] = "part2" /\ c \in clients /\ clients \subseteq Client
      /\ Live \subseteq Tran
  <2>1. TypeOK
    BY DEF IndInv
  <2>2. Up /\ handler[c] = "part2" /\ c \in clients
    BY ZenonT(40) DEF part2, Input, Up
  <2> QED
    BY <2>1, <2>2, Basics
<1>1. CASE Down("freed")
  BY <1>0, <1>1, DownInv, ZenonT(40), SMTT(40)
<1>2. ASSUME buf[c] # Freed
      PROVE  /\ t \in Live /\ t \in Tran /\ rval[t] # None /\ a \in clients /\ a \in Client
             /\ t \in Range(requests[a]) \cup Range(replies[a])
             /\ \A d \in Client : handler[d] = "send_to_worker" => buf[d] # t
  <2>1. t \in Tran /\ rval[t] # None
    BY <1>0, <1>2, ZenonT(40), SMTT(40) DEF IndInv, Returning
  <2>2. t \in Live
    BY <1>0, <2>1, ZenonT(40), SMTT(40) DEF IndInv, PointersLive
  <2>3. \A d \in Client : handler[d] = "send_to_worker" => buf[d] # t
    BY <1>0, ReadingFacts, ZenonT(40), SMTT(40)
  <2> QED
    BY <1>0, <2>1, <2>2, <2>3, ZenonT(40), SMTT(40) DEF IndInv, TransactionsOwned
<1>3. /\ w4 \in [Client -> Tran \cup {None, AnyTran, Freed}]
      /\ w4[c] = None /\ \A d \in Client \ {c} : w4[d] = wait4[d]
      /\ hd \in [Client -> {"none", "command", "send_to_worker", "part2"}]
      /\ hd[c] = "command" /\ \A d \in Client \ {c} : hd[d] = handler[d]
      /\ in \in [Client -> Tran \cup {None, Freed}]
      /\ in[c] = None /\ \A d \in Client \ {c} : in[d] = buf[d]
      /\ ex \in [Tran -> Client \cup {None, Freed}]
  <2>1. /\ w4 \in [Client -> Tran \cup {None, AnyTran, Freed}]
        /\ w4[c] = None /\ \A d \in Client \ {c} : w4[d] = wait4[d]
    BY <1>0 DEF TypeOK
  <2>2. /\ hd \in [Client -> {"none", "command", "send_to_worker", "part2"}]
        /\ hd[c] = "command" /\ \A d \in Client \ {c} : hd[d] = handler[d]
    BY <1>0, ZenonT(40), SMTT(40) DEF TypeOK
  <2>3. /\ in \in [Client -> Tran \cup {None, Freed}]
        /\ in[c] = None /\ \A d \in Client \ {c} : in[d] = buf[d]
    BY <1>0 DEF TypeOK
  <2>4. ex \in [Tran -> Client \cup {None, Freed}]
    BY <1>0, ZenonT(40) DEF TypeOK
  <2> QED
    BY <2>1, <2>2, <2>3, <2>4, ZenonT(40), SMTT(40)
<1>4. CASE /\ buf[c] # Freed /\ w4[a] # Freed /\ Awaited(t, w4)
           /\ snd_reply(t, hd, w4, ex, in)
           /\ UNCHANGED <<clients, adverts, services, wct, serving>>
  <2>1. a # c /\ w4[a] \in {AnyTran, t}
    BY <1>2, <1>3, <1>4, Pointers, ZenonT(40) DEF Awaited
  <2> HIDE DEF t, w4, ex, hd, in
  <2>2. Replying(t, hd, w4, ex, in)
    BY <1>0, <1>2, <1>3, <1>4, <2>1, Pointers, ZenonT(40) DEF Replying
  <2> HIDE DEF a
  <2> QED
    BY <1>0, <1>2, <1>4, <2>2, snd_replyInv
<1>5. ASSUME buf[c] # Freed, w4[a] # Freed, ~Awaited(t, w4), QueueReply(t),
             wait4' = w4, executor' = ex, handler' = hd, buf' = in, out' = Silent,
             UNCHANGED <<clients, serviceVars, tptransactions, tclient, tsvc,
                         rval, serving, status>>
      PROVE  IndInv'
  <2>0. /\ t \in Live /\ t \in Tran /\ rval[t] # None /\ a \in clients /\ a \in Client
        /\ t \in Range(requests[a]) \cup Range(replies[a])
        /\ \A d \in Client : handler[d] = "send_to_worker" => buf[d] # t
    BY <1>2, <1>5, ZenonT(40)
  <2>1. /\ requests' \in [Client -> Seq(Tran)]
        /\ \A d \in Client \ {a} : requests'[d] = requests[d]
        /\ \A x : x \in Range(requests'[a]) <=> x \in Range(requests[a]) /\ x # t
        /\ requests[a] # <<>> /\ LastOf(requests[a]) # t =>
              requests'[a] # <<>> /\ LastOf(requests'[a]) = LastOf(requests[a])
    <3>1. requests' = [requests EXCEPT ![a] = Without(@, {t})]
      BY <1>5, ZenonT(40), SMTT(40) DEF QueueReply
    <3> HIDE DEF a, t
    <3>2. requests[a] \in Seq(Tran)
      BY <1>0, <2>0, ZenonT(40), SMTT(40) DEF TypeOK
    <3>3. /\ Without(requests[a], {t}) \in Seq(Tran)
          /\ Range(Without(requests[a], {t})) = Range(requests[a]) \ {t}
          /\ requests[a] # <<>> /\ LastOf(requests[a]) \notin {t} =>
                /\ Without(requests[a], {t}) # <<>>
                /\ LastOf(Without(requests[a], {t})) = LastOf(requests[a])
      BY <3>2, TranQueues, ZenonT(40), SMTT(40)
    <3>4. /\ requests'[a] = Without(requests[a], {t})
          /\ \A d \in Client \ {a} : requests'[d] = requests[d]
          /\ requests' \in [Client -> Seq(Tran)]
      BY <1>0, <2>0, <3>1, <3>3 DEF TypeOK
    <3> QED
      BY <3>3, <3>4, ZenonT(40)
  <2>2. /\ replies' \in [Client -> Seq(Tran)]
        /\ \A d \in Client \ {a} : replies'[d] = replies[d]
        /\ \A x : x \in Range(replies'[a]) <=> x \in Range(replies[a]) \/ x = t
    <3>1. replies' = [replies EXCEPT ![a] = MoveToEnd(@, t)]
      BY <1>5, ZenonT(40), SMTT(40) DEF QueueReply
    <3> HIDE DEF a, t
    <3>2. replies[a] \in Seq(Tran)
      BY <1>0, <2>0, ZenonT(40), SMTT(40) DEF TypeOK
    <3>3. /\ MoveToEnd(replies[a], t) \in Seq(Tran)
          /\ Range(MoveToEnd(replies[a], t)) = Range(replies[a]) \cup {t}
      BY <2>0, <3>2, MoveToEndFacts, SMTT(40), ZenonT(40)
    <3>4. /\ replies'[a] = MoveToEnd(replies[a], t)
          /\ \A d \in Client \ {a} : replies'[d] = replies[d]
          /\ replies' \in [Client -> Seq(Tran)]
      BY <1>0, <2>0, <3>1, <3>3, ZenonT(40), SMTT(40) DEF TypeOK
    <3> QED
      BY <3>3, <3>4, ZenonT(40), SMTT(40)
  <2>3. /\ UNCHANGED <<clients, adverts, services, waitq, wct, tptransactions, tclient,
                       tsvc, rval, serving, status>>
        /\ wait4' = w4 /\ executor' = ex /\ handler' = hd /\ buf' = in
        /\ out' \in [Client -> Messages]
    BY <1>5, WroteType, ZenonT(40), SMTT(40) DEF serviceVars
  <2>4. Up' /\ Live' = Live /\ \A d \in Client : Offers(d)' = Offers(d)
    BY <1>0, <2>3 DEF Up, Live, Offers
  <2> HIDE DEF w4, ex, hd, in
  <2>5. TypeOK'
    BY <1>0, <1>3, <2>1, <2>2, <2>3, ZenonT(40) DEF TypeOK
  <2>6. ServicesAdvertised'
    BY <1>0, <2>3, <2>4, ZenonT(40), SMTT(40) DEF IndInv, ServicesAdvertised, Advertisers
  <2>7. Disconnected'
    BY <1>0, <1>3, <2>3, <2>4, ZenonT(40) DEF IndInv, Disconnected
  <2>8. \A d \in Client : a = d => wait4'[d] # t
    BY <1>0, <1>3, <1>5, <2>0, <2>3, ZenonT(40) DEF Awaited
  <2> HIDE DEF a, t
  <2>9. \A s \in Service : \A x \in Range(waitq'[s]) :
            /\ x \in Range(waitq[s]) /\ x \notin {} /\ wct'[s] = wct[s]
            /\ wct[s] => tsvc'[x] = s
            /\ x \in clients /\ s \in Offers(x) => x \in clients' /\ s \in Offers(x)'
    BY <1>0, <2>3, <2>4, ZenonT(40) DEF IndInv, WaitqHomogeneous
  <2>10. \A d \in Client : \A x \in Range(requests'[d]) :
            x \in Range(requests[d]) /\ x \notin {} /\ x \notin Range(replies'[d])
    BY <1>0, <2>1, <2>2, ZenonT(40) DEF IndInv, TransactionsOwned
  <2>11. \A d \in Client : \A x \in Range(replies'[d]) :
            /\ x \in Range(requests[d]) \cup Range(replies[d]) /\ x \notin {}
            /\ rval'[x] # None
    BY <1>0, <2>0, <2>2, <2>3, ZenonT(40) DEF IndInv, RepliesCompleted
  <2>12. \A d \in Client : \A x \in Range(requests[d]) \cup Range(replies[d]) :
            x \notin {} => x \in Range(requests'[d]) \cup Range(replies'[d])
    BY <2>1, <2>2, ZenonT(40)
  <2>13. \A x \in Live : x \notin {} => tclient'[x] = tclient[x] /\ tclient[x] \in clients'
    BY <1>0, <2>3, ZenonT(40), SMTT(40) DEF IndInv, TransactionsOwned
  <2>14. \A d \in Client : /\ wait4'[d] \in Tran => wait4'[d] = wait4[d] /\ wait4[d] \notin {}
                           /\ wait4[d] = None => wait4'[d] = None
                           /\ buf'[d] \in Tran => buf'[d] = buf[d] /\ buf[d] \notin {}
    BY <1>3, <2>3, Pointers, ZenonT(40)
  <2>15. \A d \in clients' :
            handler'[d] = "none" =>
                /\ d \in clients /\ handler[d] = "none"
                /\ wait4'[d] \in Range(requests[d]) => wait4'[d] \in Range(requests'[d])
    BY <1>0, <1>3, <2>1, <2>3, <2>8, ZenonT(40)
  <2>16. \A d \in Client :
            handler'[d] = "send_to_worker" =>
                /\ handler[d] = "send_to_worker" /\ buf'[d] = buf[d]
                /\ requests'[d] # <<>> /\ LastOf(requests'[d]) = LastOf(requests[d])
    <3> SUFFICES ASSUME NEW d \in Client, handler'[d] = "send_to_worker"
                 PROVE  /\ handler[d] = "send_to_worker" /\ buf'[d] = buf[d]
                        /\ requests'[d] # <<>> /\ LastOf(requests'[d]) = LastOf(requests[d])
      OBVIOUS
    <3>1. d # c /\ handler[d] = "send_to_worker" /\ buf'[d] = buf[d]
      BY <1>3, <2>3, ZenonT(40), SMTT(40)
    <3>2. requests[d] # <<>> /\ LastOf(requests[d]) # t
      BY <3>1, <1>0, <2>0, ZenonT(40), SMTT(40) DEF IndInv, Reading
    <3>3. CASE d = a
      BY <3>1, <3>2, <3>3, <2>1, ZenonT(40), SMTT(40)
    <3>4. CASE d # a
      BY <3>1, <3>2, <3>4, <2>1, ZenonT(40), SMTT(40)
    <3> QED
      BY <3>3, <3>4, ZenonT(40)
  <2>17. \A d \in Client :
            handler'[d] = "part2" /\ buf'[d] # Freed =>
                /\ handler[d] = "part2" /\ buf'[d] = buf[d] /\ wait4'[d] = wait4[d]
                /\ \A x \in Tran : rval[x] # None /\ x = buf[d] => rval'[x] # None
    BY <1>3, <2>3
  <2>18. \A d \in Client :
            handler'[d] \in {"command", "send_to_worker"} /\ ~serving'[d] =>
                \/ wait4'[d] = None
                \/ handler[d] \in {"command", "send_to_worker"} /\ ~serving[d]
    BY <1>3, <2>3, ZenonT(40)
  <2>19. \A d \in Client : \A s \in Service :
            Idle(d, s)' => /\ Idle(d, s) /\ handler'[d] = handler[d]
                           /\ \A r \in Offers(d)' : r \in Offers(d) /\ (Idle(d, r) => Idle(d, r)')
    BY <1>0, <1>3, <2>3, <2>4, ZenonT(40) DEF IndInv, Quiet, Idle
  <2>20. \A x : x \in Live' <=> x \in Live /\ x \notin {}
    BY <2>4
  <2>21. Freeing({})
    BY <2>9, <2>10, <2>11, <2>12, <2>13, <2>14, <2>15, <2>16, <2>17, <2>18, <2>19, <2>20, Zenon
       DEF Freeing
  <2> QED
    BY <1>0, <2>4, <2>5, <2>6, <2>7, <2>21, FreeingInv
<1> QED
  BY <1>1, <1>4, <1>5, ZenonT(40), SMTT(40) DEF part2

--------------------------------------------------------------------------------
\* c's advertisements of the services S are gone, and with them the services that
\* nobody else advertises, whose waiting transactions are all in T.
Withdrawn(c, S, T) ==
    LET gone == Deserted(c, S)
        wq == remove_from_waitq(c, S)
    IN  /\ S \subseteq Offers(c)
        /\ \A r \in Service \ S : c \notin Range(waitq[r])
        /\ Stranded(gone) \subseteq T /\ T \subseteq Tran
        /\ clients' = clients \/ (clients' = clients \ {c} /\ S = Offers(c))
        /\ Offers(c)' = Offers(c) \ S
        /\ \A d \in Client \ {c} : Offers(d)' = Offers(d)
        /\ services' = services \ gone
        /\ wct' = [r \in Service |-> wct[r] /\ r \notin gone]
        /\ \A r \in Service : \A x :
              x \in Range(waitq'[r]) <=> x \in Range(wq[r]) /\ x \notin T
        /\ \A u \in Tran \ T : tsvc'[u] = FreeServices(gone)[u]

\* Then a service is in the tree exactly while it is advertised, the queues hold
\* what their flags say, and an idle worker other than c is idle as before.
LEMMA WithdrawnFacts ==
    ASSUME QueueLaws, IndInv, Up, Up', NEW c \in clients, NEW S, NEW T, Withdrawn(c, S, T)
    PROVE  /\ ServicesAdvertised'
           /\ \A r \in Service : \A x \in Range(waitq'[r]) :
                 /\ x \in Range(waitq[r]) /\ x \notin T
                 /\ wct'[r] = wct[r]
                 /\ wct[r] => tsvc'[x] = r
                 /\ x \in clients /\ r \in Offers(x) => x \in clients' /\ r \in Offers(x)'
           /\ \A d \in Client : \A r \in Service :
                 Idle(d, r)' => /\ Idle(d, r) /\ d # c
                                /\ \A q \in Offers(d)' :
                                      q \in Offers(d) /\ (Idle(d, q) => Idle(d, q)')
<1> DEFINE gone == Deserted(c, S)
           wq == remove_from_waitq(c, S)
<1>0. /\ TypeOK /\ clients \subseteq Client /\ c \in Client /\ Live \subseteq Tran
      /\ \A d \in Client : Offers(d) \subseteq Service
  BY Basics, ZenonT(40), SMTT(40) DEF IndInv
<1>1. /\ S \subseteq Offers(c) /\ S \subseteq Service
      /\ \A r \in Service \ S : c \notin Range(waitq[r])
      /\ Stranded(gone) \subseteq T /\ T \subseteq Tran
      /\ clients' = clients \/ (clients' = clients \ {c} /\ S = Offers(c))
      /\ Offers(c)' = Offers(c) \ S
      /\ \A d \in Client \ {c} : Offers(d)' = Offers(d)
  BY <1>0, ZenonT(40), SMTT(40) DEF Withdrawn
<1>2. gone = {r \in S : \A d \in clients \ {c} : r \notin Offers(d)}
  BY <1>1 DEF Deserted, Advertisers
<1>3. \A r \in Service : \A x : x \in Range(wq[r]) <=> x \in Range(waitq[r]) /\ x # c
  <2> TAKE r \in Service
  <2>1. waitq[r] \in Seq(Client \cup Tran)
    BY <1>0 DEF TypeOK
  <2>2. Range(Without(waitq[r], {c})) = Range(waitq[r]) \ {c}
    BY <2>1, WaitQueues, ZenonT(40), SMTT(40)
  <2>3. wq[r] = IF r \in S THEN Without(waitq[r], {c}) ELSE waitq[r]
    BY ZenonT(40), SMTT(40) DEF remove_from_waitq
  <2> QED
    BY <2>2, <2>3, <1>1, ZenonT(40)
<1>4. \A r \in Service : \A x :
          x \in Range(waitq'[r]) <=> x \in Range(waitq[r]) /\ x # c /\ x \notin T
  BY <1>3 DEF Withdrawn
<1>5. ServicesAdvertised'
  <2>1. services = {r \in Service : \E d \in clients : r \in Offers(d)}
    BY ZenonT(40), SMTT(40) DEF IndInv, ServicesAdvertised, Advertisers
  <2>2. services' = services \ gone
    BY DEF Withdrawn
  <2>3. \A r \in Service :
            (\E d \in clients' : r \in Offers(d)')
                <=> r \notin gone /\ \E d \in clients : r \in Offers(d)
    <3> TAKE r \in Service
    <3>1. CASE r \in S
      <4>1. r \notin Offers(c)'
        BY <3>1, <1>1, ZenonT(40), SMTT(40)
      <4>2. (\E d \in clients' : r \in Offers(d)') <=> \E d \in clients \ {c} : r \in Offers(d)
        BY <4>1, <1>0, <1>1
      <4> QED
        BY <3>1, <4>2, <1>2, ZenonT(40), SMTT(40)
    <3>2. CASE r \notin S
      <4>1. \A d \in Client : r \in Offers(d)' <=> r \in Offers(d)
        BY <3>2, <1>0, <1>1
      <4>2. r \in Offers(c) => clients' = clients
        BY <3>2, <1>1, ZenonT(40), SMTT(40)
      <4>3. (\E d \in clients' : r \in Offers(d)') <=> \E d \in clients : r \in Offers(d)
        BY <4>1, <4>2, <1>0, <1>1, ZenonT(40), SMTT(40)
      <4> QED
        BY <3>2, <4>3, <1>2, ZenonT(40), SMTT(40)
    <3> QED
      BY <3>1, <3>2
  <2> HIDE DEF gone
  <2> QED
    BY <2>1, <2>2, <2>3 DEF ServicesAdvertised, Advertisers
<1>6. ASSUME NEW r \in Service, NEW x \in Range(waitq'[r])
      PROVE  /\ x \in Range(waitq[r]) /\ x \notin T
             /\ wct'[r] = wct[r]
             /\ wct[r] => tsvc'[x] = r
             /\ x \in clients /\ r \in Offers(x) => x \in clients' /\ r \in Offers(x)'
  <2>1. x \in Range(waitq[r]) /\ x # c /\ x \notin T
    BY <1>4, <1>6, ZenonT(40), SMTT(40)
  <2>2. wct[r] => r \notin gone
    <3>1. wct[r] /\ r \in gone => x \in Stranded(gone)
      BY <2>1, <1>2, ZenonT(40), SMTT(40) DEF Stranded
    <3> QED
      BY <3>1, <2>1, <1>1, ZenonT(40), SMTT(40)
  <2>3. wct'[r] = wct[r]
    <3>1. wct' = [q \in Service |-> wct[q] /\ q \notin gone] /\ wct[r] \in BOOLEAN
      BY <1>0, ZenonT(40), SMTT(40) DEF Withdrawn, TypeOK
    <3> QED
      BY <3>1, <2>2, ZenonT(40), SMTT(40)
  <2>4. ASSUME wct[r] PROVE tsvc'[x] = r
    <3>1. x \in Tran /\ tsvc[x] = r
      BY <2>1, <2>4, <1>0, ZenonT(40), SMTT(40) DEF IndInv, WaitqHomogeneous
    <3>2. tsvc'[x] = FreeServices(gone)[x]
      BY <3>1, <2>1 DEF Withdrawn
    <3> QED
      BY <3>1, <3>2, <2>2, <2>4, ZenonT(40), SMTT(40) DEF FreeServices
  <2>5. x \in clients /\ r \in Offers(x) => x \in clients' /\ r \in Offers(x)'
    BY <2>1, <1>0, <1>1, ZenonT(40), SMTT(40)
  <2> QED
    BY <2>1, <2>3, <2>4, <2>5, ZenonT(40), SMTT(40)
<1>7. ASSUME NEW d \in Client, NEW r \in Service, Idle(d, r)'
      PROVE  /\ Idle(d, r) /\ d # c
             /\ \A q \in Offers(d)' : q \in Offers(d) /\ (Idle(d, q) => Idle(d, q)')
  <2>1. Idle(d, r) /\ d # c /\ d \notin T
    BY <1>4, <1>7, ZenonT(40), SMTT(40) DEF Idle
  <2>2. \A q \in Service : Idle(d, q) => Idle(d, q)'
    BY <2>1, <1>4 DEF Idle
  <2>3. Offers(d)' = Offers(d) /\ Offers(d) \subseteq Service
    BY <2>1, <1>0, <1>1
  <2> QED
    BY <2>1, <2>2, <2>3, ZenonT(40), SMTT(40)
<1> QED
  BY <1>5, <1>6, <1>7, ZenonT(40), SMTT(40)

\* What del_service deletes is live, waits on a queue and is not being read.
LEMMA StrandedFacts ==
    ASSUME IndInv, Up, NEW S \in SUBSET Service
    PROVE  /\ Stranded(S) \subseteq Live
           /\ \A d \in Client : handler[d] = "send_to_worker" => buf[d] \notin Stranded(S)
<1>1. \A x \in Stranded(S) : \E s \in Service : wct[s] /\ x \in Range(waitq[s])
  BY ZenonT(40), SMTT(40) DEF Stranded
<1>2. Stranded(S) \subseteq Live
  BY <1>1 DEF IndInv, WaitqHomogeneous
<1>3. \A d \in Client : handler[d] = "send_to_worker" => buf[d] \notin Stranded(S)
  BY <1>1 DEF IndInv, Reading
<1> QED
  BY <1>2, <1>3

\* tpunadvertise keeps the tables consistent: with the last advertisement of a
\* service go the transactions that wait for it, and nothing else.
LEMMA svrunadvertiseInv ==
    ASSUME QueueLaws, IndInv, NEW c \in Client, NEW s \in Service, svrunadvertise(c, s)
    PROVE  IndInv'
<1> DEFINE gone == Deserted(c, {s})
           T == Stranded(gone)
           wq == remove_from_waitq(c, {s})
           ex == FreeExecutors(c, {s}, executor)
           sv == FreeServices(gone)
<1>0. /\ TypeOK /\ Up /\ handler[c] = "command" /\ c \in clients /\ clients \subseteq Client
      /\ Live \subseteq Tran /\ s \in Offers(c)
  <2>1. TypeOK
    BY ZenonT(40), SMTT(40) DEF IndInv
  <2>2. Up /\ handler[c] = "command" /\ c \in clients /\ s \in Offers(c)
    BY DEF svrunadvertise, Input, Up
  <2> QED
    BY <2>1, <2>2, Basics
<1>1. CASE Down("freed")
  BY <1>0, <1>1, DownInv
<1>2. ASSUME del_transaction(T, wait4, executor, requests, replies, wq, buf),
             ClearFields(T, ex, sv, rval),
             adverts' = [adverts EXCEPT ![c][s] = None],
             services' = services \ gone,
             wct' = [r \in Service |-> wct[r] /\ r \notin gone],
             out' = Wrote(c, Msg("ok", None, None)),
             UNCHANGED <<clients, handler, serving, status>>
      PROVE  IndInv'
  <2>1. /\ T \subseteq Live /\ T \subseteq Tran /\ gone \subseteq {s}
        /\ \A d \in Client : handler[d] = "send_to_worker" => buf[d] \notin T
    <3>1. gone \subseteq {s} /\ gone \in SUBSET Service
      BY DEF Deserted
    <3> HIDE DEF gone
    <3> QED
      BY <3>1, <1>0, StrandedFacts, ZenonT(40), SMTT(40)
  <2>2. wq \in [Service -> Seq(Client \cup Tran)]
    BY <1>0, WaitQueues, ZenonT(40) DEF remove_from_waitq, TypeOK
  <2>3. /\ ex \in [Tran -> Client \cup {None, Freed}]
        /\ sv \in [Tran -> Service \cup {None, Freed}]
        /\ rval \in [Tran -> Rval \cup {None}]
    BY <1>0, ZenonT(40), SMTT(40) DEF FreeExecutors, FreeServices, TypeOK
  <2>4. Deleted(T, wait4, requests, replies, wq, buf)
    <3>1. Tables(wait4, requests, replies, wq, buf)
      BY <1>0, <2>2, ZenonT(40) DEF Tables, TypeOK
    <3> HIDE DEF T, wq
    <3> QED
      BY <1>0, <1>2, <3>1, del_transactionFacts, ZenonT(40), SMTT(40)
  <2>5. /\ tclient' \in [Tran -> Client \cup {None}]
        /\ executor' \in [Tran -> Client \cup {None, Freed}]
        /\ tsvc' \in [Tran -> Service \cup {None, Freed}]
        /\ rval' \in [Tran -> Rval \cup {None}]
        /\ \A u \in Tran \ T : tclient'[u] = tclient[u] /\ tsvc'[u] = sv[u] /\ rval'[u] = rval[u]
    <3> HIDE DEF T, ex, sv
    <3> QED
      BY <1>0, <1>2, <2>3, ZenonT(40), SMTT(40) DEF ClearFields, TypeOK
  <2>6. /\ adverts' \in [Client -> [Service -> Func \cup {None}]]
        /\ Offers(c)' = Offers(c) \ {s}
        /\ \A d \in Client \ {c} : Offers(d)' = Offers(d)
    BY <1>0, <1>2 DEF Offers, TypeOK
  <2>7. Up' /\ UNCHANGED <<clients, handler, serving, status>>
    BY <1>0, <1>2, ZenonT(40), SMTT(40) DEF Up
  <2>8. TypeOK'
    <3>1. out' \in [Client -> Messages]
      BY <1>2, WroteType, ReplyTypes, ZenonT(40), SMTT(40)
    <3>2. wct' \in [Service -> BOOLEAN] /\ services' \subseteq Service
      BY <1>0, <1>2, ZenonT(40), SMTT(40) DEF TypeOK
    <3> HIDE DEF T, wq, ex, sv, gone
    <3> QED
      BY <1>0, <2>4, <2>5, <2>6, <2>7, <3>1, <3>2, ZenonT(40), SMTT(40) DEF TypeOK, Deleted, Tables
  <2>9. Withdrawn(c, {s}, T)
    <3>1. \A r \in Service \ {s} : c \notin Range(waitq[r])
      BY <1>0, ZenonT(40), SMTT(40) DEF IndInv, Quiet, Idle
    <3>2. /\ {s} \subseteq Offers(c) /\ clients' = clients
          /\ services' = services \ gone
          /\ wct' = [r \in Service |-> wct[r] /\ r \notin gone]
      BY <1>0, <1>2
    <3>3. \A r \in Service : \A x : x \in Range(waitq'[r]) <=> x \in Range(wq[r]) /\ x \notin T
      BY <2>4, ZenonT(40) DEF Deleted
    <3>4. \A u \in Tran \ T : tsvc'[u] = sv[u]
      BY <2>5, ZenonT(40)
    <3> QED
      BY <2>1, <2>6, <3>1, <3>2, <3>3, <3>4, ZenonT(40) DEF Withdrawn
  <2> HIDE DEF T, wq, ex, sv, gone
  <2>10. /\ ServicesAdvertised'
         /\ \A r \in Service : \A x \in Range(waitq'[r]) :
               /\ x \in Range(waitq[r]) /\ x \notin T
               /\ wct'[r] = wct[r]
               /\ wct[r] => tsvc'[x] = r
               /\ x \in clients /\ r \in Offers(x) => x \in clients' /\ r \in Offers(x)'
         /\ \A d \in Client : \A r \in Service :
               Idle(d, r)' => /\ Idle(d, r) /\ d # c
                              /\ \A q \in Offers(d)' :
                                    q \in Offers(d) /\ (Idle(d, q) => Idle(d, q)')
    BY <1>0, <2>7, <2>9, WithdrawnFacts, ZenonT(40), SMTT(40)
  <2>11. None \notin T /\ Freed \notin T
    BY <2>1, Pointers, ZenonT(40), SMTT(40)
  <2>12. \A d \in Client : /\ wait4[d] \notin T => wait4'[d] = wait4[d]
                           /\ wait4[d] \in T => wait4'[d] \in {None, Freed}
                           /\ buf[d] \notin T => buf'[d] = buf[d]
                           /\ buf[d] \in T => buf'[d] = Freed
    BY <2>4 DEF Deleted
  <2>13. Disconnected'
    BY <1>0, <2>6, <2>7, <2>11, <2>12, ZenonT(40), SMTT(40) DEF IndInv, Disconnected
  <2>14. \A d \in Client : \A x :
            /\ x \in Range(requests'[d]) <=> x \in Range(requests[d]) /\ x \notin T
            /\ x \in Range(replies'[d]) <=> x \in Range(replies[d]) /\ x \notin T
    BY <2>4, ZenonT(40), SMTT(40) DEF Deleted
  <2>15. /\ \A d \in Client : \A x \in Range(requests'[d]) :
               x \in Range(requests[d]) /\ x \notin T /\ x \notin Range(replies'[d])
         /\ \A d \in Client : \A x \in Range(requests[d]) \cup Range(replies[d]) :
               x \notin T => x \in Range(requests'[d]) \cup Range(replies'[d])
    BY <1>0, <2>14, ZenonT(40), SMTT(40) DEF IndInv, TransactionsOwned
  <2>16. \A d \in Client : \A x \in Range(replies'[d]) :
            x \in Range(requests[d]) \cup Range(replies[d]) /\ x \notin T /\ rval'[x] # None
    <3> TAKE d \in Client
    <3> TAKE x \in Range(replies'[d])
    <3>1. x \in Range(replies[d]) /\ x \notin T
      BY <2>14
    <3>2. x \in Tran /\ rval[x] # None
      BY <3>1, <1>0, Basics, ZenonT(40), SMTT(40) DEF IndInv, RepliesCompleted
    <3> QED
      BY <3>1, <3>2, <2>5, ZenonT(40), SMTT(40)
  <2>17. \A x \in Live : x \notin T => tclient'[x] = tclient[x] /\ tclient[x] \in clients'
    BY <1>0, <2>5, <2>7, ZenonT(40), SMTT(40) DEF IndInv, TransactionsOwned
  <2>18. \A d \in Client : /\ wait4'[d] \in Tran => wait4'[d] = wait4[d] /\ wait4[d] \notin T
                           /\ wait4[d] = None => wait4'[d] = None
                           /\ buf'[d] \in Tran => buf'[d] = buf[d] /\ buf[d] \notin T
    BY <2>11, <2>12, Pointers, ZenonT(40), SMTT(40)
  <2>19. \A d \in clients' :
            handler'[d] = "none" =>
                /\ d \in clients /\ handler[d] = "none"
                /\ wait4'[d] \in Range(requests[d]) => wait4'[d] \in Range(requests'[d])
    <3>1. \A d \in Client : Range(requests[d]) \subseteq Tran
      BY <1>0, Basics, ZenonT(40), SMTT(40)
    <3> QED
      BY <3>1, <1>0, <2>7, <2>14, <2>18, ZenonT(40), SMTT(40)
  <2>20. \A d \in Client :
            handler'[d] = "send_to_worker" =>
                /\ handler[d] = "send_to_worker" /\ buf'[d] = buf[d]
                /\ requests'[d] # <<>> /\ LastOf(requests'[d]) = LastOf(requests[d])
    <3> SUFFICES ASSUME NEW d \in Client, handler[d] = "send_to_worker"
                 PROVE  /\ buf'[d] = buf[d]
                        /\ requests'[d] # <<>> /\ LastOf(requests'[d]) = LastOf(requests[d])
      BY <2>7
    <3>1. requests[d] # <<>> /\ LastOf(requests[d]) = buf[d] /\ buf[d] \notin T
      BY <1>0, <2>1, ZenonT(40), SMTT(40) DEF IndInv, Reading
    <3> QED
      BY <3>1, <2>4, ZenonT(40), SMTT(40) DEF Deleted
  <2>21. \A d \in Client :
            handler'[d] = "part2" /\ buf'[d] # Freed =>
                /\ handler[d] = "part2" /\ buf'[d] = buf[d] /\ wait4'[d] = wait4[d]
                /\ \A x \in Tran : rval[x] # None /\ x = buf[d] => rval'[x] # None
    <3> SUFFICES ASSUME NEW d \in Client, handler[d] = "part2", buf'[d] # Freed
                 PROVE  /\ buf'[d] = buf[d] /\ wait4'[d] = wait4[d]
                        /\ \A x \in Tran : rval[x] # None /\ x = buf[d] => rval'[x] # None
      BY <2>7, ZenonT(40), SMTT(40)
    <3>1. buf[d] \notin T /\ buf'[d] = buf[d]
      BY <2>12
    <3>2. buf[d] = wait4[d]
      BY <3>1, <1>0, ZenonT(40), SMTT(40) DEF IndInv, Returning
    <3> QED
      BY <3>1, <3>2, <2>5, <2>12, ZenonT(40), SMTT(40)
  <2>22. \A d \in Client :
            handler'[d] \in {"command", "send_to_worker"} /\ ~serving'[d] =>
                \/ wait4'[d] = None
                \/ handler[d] \in {"command", "send_to_worker"} /\ ~serving[d]
    BY <2>7
  <2>23. \A d \in Client : \A r \in Service :
            Idle(d, r)' => /\ Idle(d, r) /\ handler'[d] = handler[d]
                           /\ \A q \in Offers(d)' : q \in Offers(d) /\ (Idle(d, q) => Idle(d, q)')
    BY <2>7, <2>10, ZenonT(40), SMTT(40)
  <2>24. \A x : x \in Live' <=> x \in Live /\ x \notin T
    BY <2>4, ZenonT(40), SMTT(40) DEF Deleted
  <2>25. Freeing(T)
    BY <2>10, <2>15, <2>16, <2>17, <2>18, <2>19, <2>20, <2>21, <2>22, <2>23, <2>24, Zenon
       DEF Freeing
  <2> QED
    BY <1>0, <2>7, <2>8, <2>10, <2>13, <2>25, FreeingInv, ZenonT(40), SMTT(40)
<1> QED
  BY <1>1, <1>2, ZenonT(40) DEF svrunadvertise

\* del_client keeps the tables consistent: the transaction the client was executing
\* ends up answered or among the caller's replies, and everything else the client
\* had goes.
LEMMA del_clientInv ==
    ASSUME QueueLaws, IndInv, NEW c \in Client, del_client(c)
    PROVE  IndInv'
<1> DEFINE t == wait4[c]
           fails == Executing(c)
           caller == tclient[t]
           w4 == IF fails THEN [wait4 EXCEPT ![c] = None] ELSE wait4
           ex == IF fails THEN [executor EXCEPT ![t] = None] ELSE executor
           rv == IF fails THEN [rval EXCEPT ![t] = "TPERRNO"] ELSE rval
           answered == fails /\ w4[caller] = t
           w4a == IF answered THEN [w4 EXCEPT ![caller] = None] ELSE w4
           rq == IF fails THEN [requests EXCEPT ![caller] = Without(@, {t})] ELSE requests
           rp == IF fails THEN [replies EXCEPT ![caller] = MoveToEnd(@, t)] ELSE replies
           gone == Deserted(c, Offers(c))
           failed == IF answered THEN {t} ELSE {}
           others == failed \cup Stranded(gone)
           own == (Range(rq[c]) \cup Range(rp[c])) \ others
           T == others \cup own
           exa == FreeExecutors(c, Offers(c), ex)
           w4c == [w4a EXCEPT ![c] = None]
           wq == remove_from_waitq(c, Offers(c))
           in == [buf EXCEPT ![c] = None]
           sv == FreeServices(gone)
<1>0. /\ TypeOK /\ Up /\ c \in clients /\ clients \subseteq Client /\ Live \subseteq Tran
      /\ Offers(c) \subseteq Service
  <2>1. Up /\ c \in clients
    BY Zenon DEF del_client, Up
  <2> QED
    BY <2>1, Basics DEF IndInv
<1>1. CASE Down("freed")
  BY <1>0, <1>1, DownInv
<1>2. ASSUME del_transaction(T, w4c, ex, rq, rp, wq, in),
             ClearFields(T, exa, sv, rv),
             clients' = clients \ {c},
             adverts' = [adverts EXCEPT ![c] = [s \in Service |-> None]],
             services' = services \ gone,
             wct' = [s \in Service |-> wct[s] /\ s \notin gone],
             serving' = [serving EXCEPT ![c] = FALSE],
             IF answered
             THEN /\ out' = Wrote(caller, Msg("reply", t, "TPERRNO"))
                  /\ handler' = [handler EXCEPT ![c] = "none", ![caller] = "command"]
                  /\ status' = svriowait(caller, handler)
             ELSE /\ out' = Silent
                  /\ handler' = [handler EXCEPT ![c] = "none"]
                  /\ UNCHANGED status
      PROVE  IndInv'
  <2>1. fails => /\ t \in Tran /\ t \in Live /\ caller \in clients /\ caller \in Client
                 /\ t \in Range(requests[caller]) \cup Range(replies[caller])
    BY <1>0 DEF Executing, IndInv, PointersLive, TransactionsOwned
  <2>2. /\ rq \in [Client -> Seq(Tran)]
        /\ \A d \in Client : \A x :
              x \in Range(rq[d]) <=> x \in Range(requests[d]) /\ ~(fails /\ d = caller /\ x = t)
        /\ \A d \in Client :
              requests[d] # <<>> /\ LastOf(requests[d]) # t =>
                  rq[d] # <<>> /\ LastOf(rq[d]) = LastOf(requests[d])
    <3>1. CASE ~fails
      BY <3>1, <1>0 DEF TypeOK
    <3>2. CASE fails
      <4>1. rq = [requests EXCEPT ![caller] = Without(@, {t})]
        BY <3>2, ZenonT(40), SMTT(40)
      <4> HIDE DEF rq, t, caller, fails
      <4>2. requests[caller] \in Seq(Tran)
        BY <1>0, <2>1, <3>2, ZenonT(40), SMTT(40) DEF TypeOK
      <4>3. /\ Without(requests[caller], {t}) \in Seq(Tran)
            /\ Range(Without(requests[caller], {t})) = Range(requests[caller]) \ {t}
            /\ requests[caller] # <<>> /\ LastOf(requests[caller]) \notin {t} =>
                  /\ Without(requests[caller], {t}) # <<>>
                  /\ LastOf(Without(requests[caller], {t})) = LastOf(requests[caller])
        BY <4>2, TranQueues
      <4>4. /\ rq[caller] = Without(requests[caller], {t})
            /\ \A d \in Client \ {caller} : rq[d] = requests[d]
            /\ rq \in [Client -> Seq(Tran)]
        BY <1>0, <2>1, <3>2, <4>1, <4>3, ZenonT(40), SMTT(40) DEF TypeOK
      <4> QED
        BY <3>2, <4>3, <4>4, ZenonT(40)
    <3> QED
      BY <3>1, <3>2, ZenonT(40)
  <2>3. /\ rp \in [Client -> Seq(Tran)]
        /\ \A d \in Client : \A x :
              x \in Range(rp[d]) <=> x \in Range(replies[d]) \/ (fails /\ d = caller /\ x = t)
    <3>1. CASE ~fails
      BY <3>1, <1>0, ZenonT(40), SMTT(40) DEF TypeOK
    <3>2. CASE fails
      <4>1. rp = [replies EXCEPT ![caller] = MoveToEnd(@, t)]
        BY <3>2, ZenonT(40), SMTT(40)
      <4> HIDE DEF rp, t, caller, fails
      <4>2. replies[caller] \in Seq(Tran)
        BY <1>0, <2>1, <3>2, ZenonT(40), SMTT(40) DEF TypeOK
      <4>3. /\ MoveToEnd(replies[caller], t) \in Seq(Tran)
            /\ Range(MoveToEnd(replies[caller], t)) = Range(replies[caller]) \cup {t}
        BY <2>1, <3>2, <4>2, MoveToEndFacts, ZenonT(40), SMTT(40)
      <4>4. /\ rp[caller] = MoveToEnd(replies[caller], t)
            /\ \A d \in Client \ {caller} : rp[d] = replies[d]
            /\ rp \in [Client -> Seq(Tran)]
        BY <1>0, <2>1, <3>2, <4>1, <4>3, ZenonT(40), SMTT(40) DEF TypeOK
      <4> QED
        BY <3>2, <4>3, <4>4, ZenonT(40), SMTT(40)
    <3> QED
      BY <3>1, <3>2, ZenonT(40), SMTT(40)
  <2>4. /\ rv \in [Tran -> Rval \cup {None}]
        /\ \A x \in Tran : rval[x] # None \/ (fails /\ x = t) => rv[x] # None
    <3>1. rval \in [Tran -> Rval \cup {None}] /\ "TPERRNO" \in Rval /\ "TPERRNO" # None
      BY <1>0, SwitchboardConstants DEF TypeOK, Rval
    <3>2. CASE ~fails
      BY <3>1, <3>2
    <3>3. CASE fails
      <4>1. rv = [rval EXCEPT ![t] = "TPERRNO"]
        BY <3>3
      <4> HIDE DEF rv, t, fails
      <4> QED
        BY <3>1, <3>3, <4>1, <2>1, ZenonT(40), SMTT(40)
    <3> QED
      BY <3>2, <3>3, ZenonT(40), SMTT(40)
  <2>5. /\ w4 \in [Client -> Tran \cup {None, AnyTran, Freed}]
        /\ \A d \in Client \ {c} : w4[d] = wait4[d]
        /\ fails => w4[c] = None
    BY <1>0, ZenonT(40), SMTT(40) DEF TypeOK
  <2>6. answered => /\ fails /\ caller # c /\ caller \in Client /\ caller \in clients
                    /\ wait4[caller] = t /\ t \in Tran
    <3> HIDE DEF w4, t, caller, fails
    <3> QED
      BY <2>1, <2>5, Pointers, ZenonT(40), SMTT(40)
  <2>7. fails /\ ~answered => \A d \in Client \ {c} : d = caller => wait4[d] # t
    <3> HIDE DEF w4, t, caller, fails
    <3> QED
      BY <2>5, ZenonT(40), SMTT(40)
  <2>8. /\ w4c \in [Client -> Tran \cup {None, AnyTran, Freed}]
        /\ w4c[c] = None
        /\ \A d \in Client \ {c} : ~(answered /\ d = caller) => w4c[d] = wait4[d]
        /\ \A d \in Client : answered /\ d = caller => w4c[d] = None
    <3> HIDE DEF w4, t, caller, fails, answered
    <3>1. /\ w4a \in [Client -> Tran \cup {None, AnyTran, Freed}]
          /\ \A d \in Client \ {c} : ~(answered /\ d = caller) => w4a[d] = wait4[d]
          /\ \A d \in Client : answered /\ d = caller => w4a[d] = None
      BY <2>5, <2>6
    <3> HIDE DEF w4a
    <3> QED
      BY <3>1
  <2>9. /\ ex \in [Tran -> Client \cup {None, Freed}]
        /\ exa \in [Tran -> Client \cup {None, Freed}]
        /\ sv \in [Tran -> Service \cup {None, Freed}]
    BY <1>0, ZenonT(40) DEF FreeExecutors, FreeServices, TypeOK
  <2>10. wq \in [Service -> Seq(Client \cup Tran)]
    BY <1>0, RemovedFromWaitq, ZenonT(40), SMTT(40)
  <2>11. /\ in \in [Client -> Tran \cup {None, Freed}]
         /\ in[c] = None /\ \A d \in Client \ {c} : in[d] = buf[d]
    BY <1>0 DEF TypeOK
  <2>12. gone \in SUBSET Service
    BY <1>0 DEF Deserted
  <2> HIDE DEF w4, t, caller, fails, answered, w4a, rq, rp, rv, ex, exa, sv, gone, w4c, wq, in
  <2>13. /\ Stranded(gone) \subseteq Live
         /\ \A d \in Client : handler[d] = "send_to_worker" => buf[d] \notin Stranded(gone)
    BY <1>0, <2>12, StrandedFacts, ZenonT(40), SMTT(40)
  <2>14. \A x : x \in T <=> \/ answered /\ x = t
                            \/ x \in Stranded(gone)
                            \/ x \in Range(rq[c]) \cup Range(rp[c])
    BY ZenonT(40), SMTT(40)
  <2> HIDE DEF T
  <2>15. /\ Stranded(gone) \subseteq T
         /\ answered => t \in T
         /\ \A x \in Range(requests[c]) \cup Range(replies[c]) : x \in T
         /\ \A x \in T : \/ answered /\ x = t
                         \/ x \in Stranded(gone)
                         \/ x \in Live /\ tclient[x] = c
    <3>1. \A x \in Range(requests[c]) \cup Range(replies[c]) : x \in T
      BY <2>2, <2>3, <2>14, ZenonT(40), SMTT(40)
    <3>2. fails /\ c = caller => t \in Live /\ tclient[t] = c
      BY <2>1, ZenonT(40), SMTT(40) DEF caller
    <3>3. \A x \in Range(requests[c]) \cup Range(replies[c]) : x \in Live /\ tclient[x] = c
      BY <1>0, ZenonT(40), SMTT(40) DEF IndInv, TransactionsOwned
    <3>4. \A x \in Range(rq[c]) : x \in Range(requests[c])
      BY <2>2, ZenonT(40), SMTT(40)
    <3>5. \A x \in Range(rp[c]) : x \in Range(replies[c]) \/ (fails /\ c = caller /\ x = t)
      BY <2>3
    <3>6. \A x \in Range(rq[c]) \cup Range(rp[c]) : x \in Live /\ tclient[x] = c
      BY <3>2, <3>3, <3>4, <3>5, ZenonT(40), SMTT(40)
    <3> QED
      BY <2>14, <3>1, <3>6, ZenonT(40), SMTT(40)
  <2>16. T \subseteq Live /\ T \subseteq Tran /\ None \notin T /\ Freed \notin T
    BY <1>0, <2>1, <2>6, <2>13, <2>15, Pointers, ZenonT(40), SMTT(40)
  <2>17. Deleted(T, w4c, rq, rp, wq, in)
    <3>1. Tables(w4c, rq, rp, wq, in)
      BY <2>2, <2>3, <2>8, <2>10, <2>11, ZenonT(40) DEF Tables
    <3> QED
      BY <1>0, <1>2, <3>1, del_transactionFacts, ZenonT(40), SMTT(40)
  <2>18. /\ tclient' \in [Tran -> Client \cup {None}]
         /\ executor' \in [Tran -> Client \cup {None, Freed}]
         /\ tsvc' \in [Tran -> Service \cup {None, Freed}]
         /\ rval' \in [Tran -> Rval \cup {None}]
         /\ \A u \in Tran \ T : tclient'[u] = tclient[u] /\ tsvc'[u] = sv[u] /\ rval'[u] = rv[u]
    BY <1>0, <1>2, <2>4, <2>9, ZenonT(40), SMTT(40) DEF ClearFields, TypeOK
  <2>19. /\ adverts' \in [Client -> [Service -> Func \cup {None}]]
         /\ Offers(c)' = {} /\ \A d \in Client \ {c} : Offers(d)' = Offers(d)
    BY <1>0, <1>2, ZenonT(40), SMTT(40) DEF Offers, TypeOK
  <2>20. /\ handler' \in [Client -> {"none", "command", "send_to_worker", "part2"}]
         /\ handler'[c] = "none"
         /\ \A d \in Client \ {c} : ~(answered /\ d = caller) => handler'[d] = handler[d]
         /\ \A d \in Client : answered /\ d = caller => handler'[d] = "command"
    <3>1. handler \in [Client -> {"none", "command", "send_to_worker", "part2"}]
      BY <1>0 DEF TypeOK
    <3>2. CASE answered
      <4>1. handler' = [handler EXCEPT ![c] = "none", ![caller] = "command"]
        BY <1>2, <3>2, ZenonT(40), SMTT(40)
      <4> QED
        BY <3>1, <3>2, <4>1, <2>6, ZenonT(40), SMTT(40)
    <3>3. CASE ~answered
      <4>1. handler' = [handler EXCEPT ![c] = "none"]
        BY <1>2, <3>3, ZenonT(40), SMTT(40)
      <4> QED
        BY <3>1, <3>3, <4>1, ZenonT(40), SMTT(40)
    <3> QED
      BY <3>2, <3>3, ZenonT(40), SMTT(40)
  <2>21. /\ serving' \in [Client -> BOOLEAN]
         /\ \A d \in Client \ {c} : serving'[d] = serving[d]
    BY <1>0, <1>2, ZenonT(40), SMTT(40) DEF TypeOK
  <2>22. out' \in [Client -> Messages] /\ status' \in {"up", "assert"}
    <3>1. answered => Msg("reply", t, "TPERRNO") \in Messages
      BY <2>6, ReplyTypes DEF Rval
    <3>2. status = "up"
      BY <1>0 DEF Up
    <3> QED
      BY <1>2, <3>1, <3>2, WroteType, ZenonT(40), SMTT(40) DEF svriowait
  <2>23. TypeOK'
    <3>1. /\ wct' \in [Service -> BOOLEAN] /\ services' \subseteq Service
          /\ clients' \subseteq Client
      BY <1>0, <1>2, ZenonT(40), SMTT(40) DEF TypeOK
    <3> QED
      BY <2>17, <2>18, <2>19, <2>20, <2>21, <2>22, <3>1, ZenonT(40) DEF TypeOK, Deleted, Tables
  <2>24. CASE ~Up'
    BY <2>23, <2>24, NotUpInv, ZenonT(40), SMTT(40)
  <2>25. CASE Up'
    <3>1. Withdrawn(c, Offers(c), T)
      <4>1. \A r \in Service \ Offers(c) : c \notin Range(waitq[r])
        BY <1>0, OnWaitq
      <4>2. /\ services' = services \ Deserted(c, Offers(c))
            /\ wct' = [r \in Service |-> wct[r] /\ r \notin Deserted(c, Offers(c))]
            /\ Stranded(Deserted(c, Offers(c))) \subseteq T
        BY <1>2, <2>15, ZenonT(40) DEF gone
      <4>3. \A r \in Service : \A x :
                x \in Range(waitq'[r]) <=>
                    x \in Range(remove_from_waitq(c, Offers(c))[r]) /\ x \notin T
        BY <2>17, ZenonT(40) DEF Deleted, wq
      <4>4. \A u \in Tran \ T : tsvc'[u] = FreeServices(Deserted(c, Offers(c)))[u]
        BY <2>18 DEF sv, gone
      <4> QED
        BY <1>2, <2>16, <2>19, <4>1, <4>2, <4>3, <4>4, ZenonT(40) DEF Withdrawn
    <3>2. /\ ServicesAdvertised'
          /\ \A r \in Service : \A x \in Range(waitq'[r]) :
                /\ x \in Range(waitq[r]) /\ x \notin T
                /\ wct'[r] = wct[r]
                /\ wct[r] => tsvc'[x] = r
                /\ x \in clients /\ r \in Offers(x) => x \in clients' /\ r \in Offers(x)'
          /\ \A d \in Client : \A r \in Service :
                Idle(d, r)' => /\ Idle(d, r) /\ d # c
                               /\ \A q \in Offers(d)' :
                                     q \in Offers(d) /\ (Idle(d, q) => Idle(d, q)')
      BY <1>0, <2>25, <3>1, WithdrawnFacts, ZenonT(40)
    <3>3. \A d \in Client : /\ w4c[d] \notin T => wait4'[d] = w4c[d]
                            /\ w4c[d] \in T => wait4'[d] \in {None, Freed}
                            /\ in[d] \notin T => buf'[d] = in[d]
                            /\ in[d] \in T => buf'[d] = Freed
      BY <2>17, ZenonT(40), SMTT(40) DEF Deleted
    <3>4. \A d \in Client : w4c[d] = wait4[d] \/ w4c[d] = None
      BY <2>8
    <3>5. Disconnected'
      <4> SUFFICES ASSUME NEW d \in Client \ clients'
                   PROVE  Offers(d)' = {} /\ handler'[d] = "none" /\ wait4'[d] = None
        BY ZenonT(40), SMTT(40) DEF Disconnected
      <4>1. CASE d = c
        BY <4>1, <2>8, <2>16, <2>19, <2>20, <3>3, ZenonT(40), SMTT(40)
      <4>2. CASE d # c
        <5>1. d \notin clients /\ ~(answered /\ d = caller)
          BY <4>2, <1>2, <2>6
        <5> QED
          BY <4>2, <5>1, <1>0, <2>8, <2>16, <2>19, <2>20, <3>3, ZenonT(40) DEF IndInv, Disconnected
      <4> QED
        BY <4>1, <4>2, ZenonT(40), SMTT(40)
    <3>6. \A d \in Client : \A x :
              /\ x \in Range(requests'[d]) <=> /\ x \in Range(requests[d]) /\ x \notin T
                                               /\ ~(fails /\ d = caller /\ x = t)
              /\ x \in Range(replies'[d]) <=> /\ x \notin T
                                              /\ \/ x \in Range(replies[d])
                                                 \/ fails /\ d = caller /\ x = t
      BY <2>2, <2>3, <2>17, ZenonT(40) DEF Deleted
    <3>7. \A d \in Client : fails /\ d = caller => t \in Range(requests[d]) \cup Range(replies[d])
      BY <2>1, ZenonT(40), SMTT(40)
    <3>8. \A d \in Client : \A x \in Range(requests'[d]) :
              x \in Range(requests[d]) /\ x \notin T /\ x \notin Range(replies'[d])
      BY <1>0, <3>6, ZenonT(40), SMTT(40) DEF IndInv, TransactionsOwned
    <3>9. \A d \in Client : \A x \in Range(requests[d]) \cup Range(replies[d]) :
              x \notin T => x \in Range(requests'[d]) \cup Range(replies'[d])
      BY <3>6, ZenonT(40), SMTT(40)
    <3>10. \A d \in Client : \A x \in Range(replies'[d]) :
              x \in Range(requests[d]) \cup Range(replies[d]) /\ x \notin T /\ rval'[x] # None
      <4> TAKE d \in Client
      <4> TAKE x \in Range(replies'[d])
      <4>1. x \notin T /\ (x \in Range(replies[d]) \/ (fails /\ d = caller /\ x = t))
        BY <3>6, ZenonT(40), SMTT(40)
      <4>2. x \in Tran /\ (rval[x] # None \/ (fails /\ x = t))
        BY <4>1, <1>0, <2>1, ZenonT(40), SMTT(40) DEF IndInv, TransactionsOwned, RepliesCompleted
      <4> QED
        BY <4>1, <4>2, <2>4, <2>18, <3>7, ZenonT(40), SMTT(40)
    <3>11. \A x \in Live : x \notin T => tclient'[x] = tclient[x] /\ tclient[x] \in clients'
      <4> SUFFICES ASSUME NEW x \in Live, x \notin T
                   PROVE  tclient'[x] = tclient[x] /\ tclient[x] \in clients'
        BY ZenonT(40)
      <4>1. /\ tclient[x] \in clients
            /\ x \in Range(requests[tclient[x]]) \cup Range(replies[tclient[x]])
        BY <1>0, ZenonT(40), SMTT(40) DEF IndInv, TransactionsOwned
      <4>2. tclient[x] # c
        BY <4>1, <2>15, ZenonT(40), SMTT(40)
      <4> QED
        BY <4>1, <4>2, <1>0, <1>2, <2>18, ZenonT(40)
    <3>12. \A d \in Client : /\ wait4'[d] \in Tran => wait4'[d] = wait4[d] /\ wait4[d] \notin T
                             /\ wait4[d] = None => wait4'[d] = None
                             /\ buf'[d] \in Tran => buf'[d] = buf[d] /\ buf[d] \notin T
      BY <2>11, <2>16, <3>3, <3>4, Pointers, ZenonT(40), SMTT(40)
    <3>13. \A d \in clients' :
              handler'[d] = "none" =>
                  /\ d \in clients /\ handler[d] = "none"
                  /\ wait4'[d] \in Range(requests[d]) => wait4'[d] \in Range(requests'[d])
      <4> SUFFICES ASSUME NEW d \in clients', handler'[d] = "none"
                   PROVE  /\ d \in clients /\ handler[d] = "none"
                          /\ wait4'[d] \in Range(requests[d]) => wait4'[d] \in Range(requests'[d])
        BY ZenonT(40), SMTT(40)
      <4>1. d \in clients /\ d \in Client /\ d # c /\ ~(answered /\ d = caller)
        BY <1>0, <1>2, <2>20, ZenonT(40), SMTT(40)
      <4>2. handler[d] = "none"
        BY <4>1, <2>20
      <4>3. ASSUME wait4'[d] \in Range(requests[d])
            PROVE  wait4'[d] \in Range(requests'[d])
        <5>1. wait4'[d] \in Tran
          BY <4>1, <4>3, <1>0, ZenonT(40) DEF IndInv, TransactionsOwned
        <5>2. wait4'[d] = wait4[d] /\ wait4[d] \notin T
          BY <4>1, <5>1, <3>12, ZenonT(40)
        <5>3. ~(fails /\ d = caller /\ wait4[d] = t)
          BY <4>1, <2>7
        <5> QED
          BY <4>1, <4>3, <5>2, <5>3, <3>6, ZenonT(40)
      <4> QED
        BY <4>1, <4>2, <4>3, ZenonT(40), SMTT(40)
    <3>14. \A d \in Client :
              handler'[d] = "send_to_worker" =>
                  /\ handler[d] = "send_to_worker" /\ buf'[d] = buf[d]
                  /\ requests'[d] # <<>> /\ LastOf(requests'[d]) = LastOf(requests[d])
      <4> SUFFICES ASSUME NEW d \in Client, handler'[d] = "send_to_worker"
                   PROVE  /\ handler[d] = "send_to_worker" /\ buf'[d] = buf[d]
                          /\ requests'[d] # <<>> /\ LastOf(requests'[d]) = LastOf(requests[d])
        OBVIOUS
      <4>1. d # c /\ handler[d] = "send_to_worker"
        BY <2>20, ZenonT(40), SMTT(40)
      <4>2. /\ requests[d] # <<>> /\ LastOf(requests[d]) = buf[d] /\ buf[d] # t
            /\ tclient[buf[d]] = d
        BY <4>1, <1>0, ReadingFacts, ZenonT(40), SMTT(40) DEF t, IndInv, Reading
      <4>3. buf[d] \notin T
        BY <4>1, <4>2, <2>13, <2>15, ZenonT(40), SMTT(40)
      <4>4. rq[d] # <<>> /\ LastOf(rq[d]) = buf[d]
        BY <4>2, <2>2
      <4>5. requests'[d] # <<>> /\ LastOf(requests'[d]) = buf[d]
        BY <4>3, <4>4, <2>17, ZenonT(40) DEF Deleted
      <4> QED
        BY <4>1, <4>2, <4>3, <4>5, <2>11, <3>3, ZenonT(40)
    <3>15. \A d \in Client :
              handler'[d] = "part2" /\ buf'[d] # Freed =>
                  /\ handler[d] = "part2" /\ buf'[d] = buf[d] /\ wait4'[d] = wait4[d]
                  /\ \A x \in Tran : rval[x] # None /\ x = buf[d] => rval'[x] # None
      <4> SUFFICES ASSUME NEW d \in Client, handler'[d] = "part2", buf'[d] # Freed
                   PROVE  /\ handler[d] = "part2" /\ buf'[d] = buf[d] /\ wait4'[d] = wait4[d]
                          /\ \A x \in Tran : rval[x] # None /\ x = buf[d] => rval'[x] # None
        BY ZenonT(40)
      <4>1. d # c /\ handler[d] = "part2" /\ ~(answered /\ d = caller)
        BY <2>20
      <4>2. buf[d] \notin T /\ buf'[d] = buf[d]
        BY <4>1, <2>11, <3>3, ZenonT(40), SMTT(40)
      <4>3. buf[d] = wait4[d]
        BY <4>1, <4>2, <1>0, ZenonT(40), SMTT(40) DEF IndInv, Returning
      <4>4. wait4'[d] = wait4[d]
        BY <4>1, <4>2, <4>3, <2>8, <3>3, ZenonT(40), SMTT(40)
      <4> QED
        BY <4>1, <4>2, <4>4, <2>4, <2>18, ZenonT(40), SMTT(40)
    <3>16. \A d \in Client :
              handler'[d] \in {"command", "send_to_worker"} /\ ~serving'[d] =>
                  \/ wait4'[d] = None
                  \/ handler[d] \in {"command", "send_to_worker"} /\ ~serving[d]
      <4> TAKE d \in Client
      <4>1. CASE d = c
        BY <4>1, <2>20, ZenonT(40), SMTT(40)
      <4>2. CASE answered /\ d = caller
        BY <4>2, <2>8, <2>16, <3>3, ZenonT(40), SMTT(40)
      <4>3. CASE d # c /\ ~(answered /\ d = caller)
        BY <4>3, <2>20, <2>21, ZenonT(40), SMTT(40)
      <4> QED
        BY <4>1, <4>2, <4>3, ZenonT(40), SMTT(40)
    <3>17. \A d \in Client : \A r \in Service :
              Idle(d, r)' => /\ Idle(d, r) /\ handler'[d] = handler[d]
                             /\ \A q \in Offers(d)' : q \in Offers(d) /\ (Idle(d, q) => Idle(d, q)')
      <4> SUFFICES ASSUME NEW d \in Client, NEW r \in Service, Idle(d, r)'
                   PROVE  handler'[d] = handler[d]
        BY <3>2, ZenonT(40)
      <4>1. Idle(d, r) /\ d # c
        BY <3>2, ZenonT(40)
      <4>2. wait4[d] = None
        BY <4>1, <1>0, ZenonT(40) DEF IndInv, Quiet
      <4>3. ~(answered /\ d = caller)
        BY <4>2, <2>6, Pointers
      <4> QED
        BY <4>1, <4>3, <2>20, ZenonT(40), SMTT(40)
    <3>18. \A x : x \in Live' <=> x \in Live /\ x \notin T
      BY <2>17, ZenonT(40) DEF Deleted
    <3>19. Freeing(T)
      BY <3>2, <3>8, <3>9, <3>10, <3>11, <3>12, <3>13, <3>14, <3>15, <3>16, <3>17, <3>18, Zenon
         DEF Freeing
    <3> QED
      BY <1>0, <2>23, <2>25, <3>2, <3>5, <3>19, FreeingInv, ZenonT(40)
  <2> QED
    BY <2>24, <2>25, ZenonT(40), SMTT(40)
<1> QED
  BY <1>1, <1>2, Zenon DEF del_client

================================================================================
