------------------------------ MODULE CallsProofs ------------------------------
(***************************************************************************)
(* Where the transactions go that a handler deletes (Accounted), and that  *)
(* every handler, from tables that are consistent, is a step of Calls or   *)
(* leaves the calls alone.  Last, that no handler forgets a request, and   *)
(* that whoever is to see to one is not waiting too (AttendInv).           *)
(***************************************************************************)
EXTENDS SwitchboardProofs, SwitchboardCalls

--------------------------------------------------------------------------------
(* No transaction is lost: where the ones go that a handler deletes.         *)

\* A handler that leaves tptransactions alone deletes nothing.
LEMMA KeptAccounted ==
    ASSUME tptransactions' = tptransactions
    PROVE  Accounted
  BY DEF Accounted, Live

\* snd_reply() deletes the transaction whose reply it has written.
LEMMA snd_replyAccounted ==
    ASSUME QueueLaws, TypeOK, NEW t \in Live, rval[t] \in Rval, tclient[t] \in Client,
           NEW hd, NEW w4, NEW ex, NEW in, snd_reply(t, hd, w4, ex, in)
    PROVE  Accounted
<1>1. tptransactions' = Without(tptransactions, {t}) /\ tptransactions \in Seq(Tran)
  BY DEF snd_reply, del_transaction, TypeOK
<1>2. Range(tptransactions') = Range(tptransactions) \ {t}
  BY <1>1, TranQueues
<1>3. out'[tclient[t]] = Msg("reply", t, rval[t])
  BY DEF snd_reply, Wrote
<1> QED
  BY <1>2, <1>3 DEF Accounted, Live

\* What del_service() deletes was queued for a service that goes.
LEMMA StrandedAccounted ==
    ASSUME IndInv, Up, NEW c \in clients, NEW S, S \subseteq Offers(c),
           services' = services \ Deserted(c, S),
           NEW x \in Stranded(Deserted(c, S))
    PROVE  tsvc[x] \in services \ services'
<1>1. clients \subseteq Client /\ Offers(c) \subseteq Service
  BY Basics DEF IndInv
<1>2. PICK s \in Deserted(c, S) : wct[s] /\ x \in Range(waitq[s])
  BY DEF Stranded
<1>3. s \in Offers(c) /\ s \in Service
  BY <1>1 DEF Deserted
<1>4. tsvc[x] = s
  BY <1>2, <1>3 DEF IndInv, WaitqHomogeneous
<1>5. s \in services
  BY <1>3 DEF IndInv, ServicesAdvertised, Advertisers
<1> QED
  BY <1>4, <1>5

\* tpgetrply for a reply that is there.
LEMMA svrgetrply_extantAccounted ==
    ASSUME QueueLaws, IndInv, NEW c \in Client, NEW cd \in Tran, NEW getany \in BOOLEAN,
           svrgetrply_extant(c, cd, getany)
    PROVE  Accounted
<1> DEFINE t == ExtantReply(c, cd, getany)
<1>0. TypeOK /\ Up /\ replies[c] \in Seq(Tran) /\ Live \subseteq Tran
  BY Basics DEF IndInv, svrgetrply_extant, Input, Up
<1>1. t \in Range(replies[c])
  BY <1>0, EndsFacts DEF svrgetrply_extant, HasReply, ExtantReply
<1>2. t \in Live /\ tclient[t] = c /\ rval[t] # None
  BY <1>0, <1>1 DEF IndInv, TransactionsOwned, RepliesCompleted
<1>3. rval[t] \in Rval
  BY <1>0, <1>2 DEF TypeOK
<1>4. CASE Down("freed")
  BY <1>4, KeptAccounted DEF Down, tranVars
<1>5. CASE snd_reply(t, Called(c), wait4, executor, buf)
  <2> HIDE DEF t
  <2> QED
    BY <1>0, <1>2, <1>3, <1>5, snd_replyAccounted, ZenonT(40), SMTT(40)
<1> QED
  BY <1>4, <1>5 DEF svrgetrply_extant

\* The second part of tpreturn.
LEMMA part2Accounted ==
    ASSUME QueueLaws, IndInv, NEW c \in Client, part2(c)
    PROVE  Accounted
<1> DEFINE t == wait4[c]
           w4 == [wait4 EXCEPT ![c] = None]
           ex == [executor EXCEPT ![t] = None]
           hd == [handler EXCEPT ![c] = "command"]
           in == [buf EXCEPT ![c] = None]
<1>0. TypeOK /\ Up /\ handler[c] = "part2" /\ clients \subseteq Client
  BY Basics DEF IndInv, part2, Input, Up
<1>1. CASE tptransactions' = tptransactions
  BY <1>1, KeptAccounted
<1>2. CASE buf[c] # Freed /\ snd_reply(t, hd, w4, ex, in)
  <2>1. t \in Tran /\ rval[t] # None
    BY <1>0, <1>2 DEF IndInv, Returning
  <2>2. t \in Live
    BY <1>0, <2>1 DEF IndInv, PointersLive
  <2>3. tclient[t] \in Client
    BY <1>0, <2>2 DEF IndInv, TransactionsOwned
  <2>4. rval[t] \in Rval
    BY <1>0, <2>1 DEF TypeOK
  <2> HIDE DEF t, w4, ex, hd, in
  <2> QED
    BY <1>0, <1>2, <2>2, <2>3, <2>4, snd_replyAccounted
<1> QED
  BY <1>1, <1>2, ZenonT(40), SMTT(40) DEF part2, Down, tranVars

\* tpunadvertise: what is deleted waited for the service.
LEMMA svrunadvertiseAccounted ==
    ASSUME QueueLaws, IndInv, NEW c \in Client, NEW s \in Service, svrunadvertise(c, s)
    PROVE  Accounted
<1> DEFINE gone == Deserted(c, {s})
           T == Stranded(gone)
<1>0. TypeOK /\ Up /\ c \in clients /\ {s} \subseteq Offers(c)
  BY DEF IndInv, svrunadvertise, Input, Up
<1>1. CASE Down("freed")
  BY <1>1, KeptAccounted DEF Down, tranVars
<1>2. CASE tptransactions' = Without(tptransactions, T) /\ services' = services \ gone
  <2>1. \A x \in T : tsvc[x] \in services \ services'
    BY <1>0, <1>2, StrandedAccounted, ZenonT(40)
  <2> HIDE DEF T
  <2>2. Range(tptransactions') = Range(tptransactions) \ T
    BY <1>0, <1>2, TranQueues DEF TypeOK
  <2> QED
    BY <2>1, <2>2 DEF Accounted, Live
<1> QED
  BY <1>1, <1>2, ZenonT(40) DEF svrunadvertise, del_transaction

\* del_client(): the transaction the client was executing is answered or kept,
\* the others that go were queued for a service that goes, or are its own.
LEMMA del_clientAccounted ==
    ASSUME QueueLaws, IndInv, NEW c \in Client, del_client(c)
    PROVE  Accounted
<1> DEFINE t == wait4[c]
           fails == Executing(c)
           caller == tclient[t]
           w4 == IF fails THEN [wait4 EXCEPT ![c] = None] ELSE wait4
           answered == fails /\ w4[caller] = t
           rq == IF fails THEN [requests EXCEPT ![caller] = Without(@, {t})] ELSE requests
           rp == IF fails THEN [replies EXCEPT ![caller] = MoveToEnd(@, t)] ELSE replies
           gone == Deserted(c, Offers(c))
           failed == IF answered THEN {t} ELSE {}
           others == failed \cup Stranded(gone)
           own == (Range(rq[c]) \cup Range(rp[c])) \ others
           T == others \cup own
<1>0. /\ TypeOK /\ Up /\ c \in clients /\ clients \subseteq Client
      /\ requests[c] \in Seq(Tran) /\ replies[c] \in Seq(Tran)
  <2>1. Up /\ c \in clients
    BY Zenon DEF del_client, Up
  <2> QED
    BY <2>1, Basics DEF IndInv
<1>1. CASE Down("freed")
  BY <1>1, KeptAccounted DEF Down, tranVars
<1>2. ASSUME tptransactions' = Without(tptransactions, T),
             services' = services \ gone,
             clients' = clients \ {c},
             answered => out' = Wrote(caller, Msg("reply", t, "TPERRNO"))
      PROVE  Accounted
  <2>1. fails => t \in Tran /\ t \in Live /\ caller \in Client
    BY <1>0, ZenonT(40), SMTT(40) DEF Executing, IndInv, PointersLive, TransactionsOwned
  <2>2. \A x \in Range(requests[c]) \cup Range(replies[c]) : tclient[x] = c
    BY <1>0, ZenonT(40), SMTT(40) DEF IndInv, TransactionsOwned
  <2>3. \A x \in Range(rq[c]) \cup Range(rp[c]) : tclient[x] = c
    <3>1. CASE fails /\ caller = c
      <4>1. rq[c] = Without(requests[c], {t}) /\ rp[c] = MoveToEnd(replies[c], t)
        BY <1>0, <3>1 DEF TypeOK
      <4>2. /\ Range(Without(requests[c], {t})) = Range(requests[c]) \ {t}
            /\ Range(MoveToEnd(replies[c], t)) = Range(replies[c]) \cup {t}
        <5>1. Range(Without(requests[c], {t})) = Range(requests[c]) \ {t}
          BY <1>0, TranQueues, ZenonT(40), SMTT(40)
        <5>2. t \in Tran
          BY <2>1, <3>1, ZenonT(40), SMTT(40)
        <5> HIDE DEF t
        <5>3. Range(MoveToEnd(replies[c], t)) = Range(replies[c]) \cup {t}
          BY <1>0, <5>2, MoveToEndFacts, SMTT(40), ZenonT(90)
        <5> QED
          BY <5>1, <5>3
      <4> HIDE DEF rq, rp
      <4> QED
        BY <3>1, <4>1, <4>2, <2>2, ZenonT(40), SMTT(40)
    <3>2. CASE ~(fails /\ caller = c)
      <4>1. rq[c] = requests[c] /\ rp[c] = replies[c]
        BY <1>0, <3>2, ZenonT(40), SMTT(40) DEF TypeOK
      <4> HIDE DEF rq, rp
      <4> QED
        BY <4>1, <2>2
    <3> QED
      BY <3>1, <3>2, ZenonT(40), SMTT(40)
  <2>4. \A x \in Stranded(gone) : tsvc[x] \in services \ services'
    BY <1>0, <1>2, StrandedAccounted, ZenonT(40), SMTT(40)
  <2>5. answered => out'[caller] \in {Msg("reply", t, v) : v \in Rval}
    <3> HIDE DEF t, caller, w4, fails
    <3> QED
      BY <1>2, <2>1 DEF Wrote, Rval
  <2> HIDE DEF t, fails, w4, answered, rq, rp, gone
  <2>6. \A x \in T : \/ answered /\ x = t
                     \/ x \in Stranded(gone)
                     \/ x \in Range(rq[c]) \cup Range(rp[c])
    OBVIOUS
  <2> HIDE DEF T
  <2>7. Range(tptransactions') = Range(tptransactions) \ T
    BY <1>0, <1>2, TranQueues, ZenonT(40), SMTT(40) DEF TypeOK
  <2> QED
    BY <1>2, <2>3, <2>4, <2>5, <2>6, <2>7, ZenonT(40), SMTT(40) DEF Accounted, Live, caller
<1>3. CASE ~Down("freed")
  <2>1. /\ tptransactions' = Without(tptransactions, T)
        /\ services' = services \ gone
        /\ clients' = clients \ {c}
        /\ answered => out' = Wrote(caller, Msg("reply", t, "TPERRNO"))
    BY <1>3, Zenon DEF del_client, del_transaction
  <2> QED
    BY <2>1, <1>2
<1> QED
  BY <1>1, <1>3

\* Every step accounts for the transactions it deletes.
LEMMA NextAccounted ==
    ASSUME QueueLaws, IndInv, [Next]_vars
    PROVE  [Accounted]_vars
<1> USE DEF tranVars
<1>1. CASE UNCHANGED vars
  BY <1>1
<1>2. ASSUME NEW c \in Client, new_client(c) PROVE Accounted
  BY <1>2, KeptAccounted DEF new_client
<1>3. ASSUME NEW c \in Client, NEW s \in Service, NEW f \in Func, svradvertise(c, s, f)
      PROVE  Accounted
  BY <1>3, KeptAccounted DEF svradvertise
<1>4. ASSUME NEW c \in Client, NEW s \in Service,
             svrunadvertise_fails(c, s) \/ svracall_fails(c, s)
      PROVE  Accounted
  BY <1>4, KeptAccounted DEF svracall_fails, svrunadvertise_fails
<1>5. ASSUME NEW c \in Client, NEW s \in Service, svrunadvertise(c, s) PROVE Accounted
  BY <1>5, svrunadvertiseAccounted
<1>6. ASSUME NEW c \in Client, NEW s \in Service, NEW t \in Tran, svracall(c, s, t)
      PROVE  Accounted
  <2>1. tptransactions' = Append(tptransactions, t) /\ tptransactions \in Seq(Tran)
    BY <1>6 DEF svracall, new_transaction, IndInv, TypeOK
  <2>2. Range(tptransactions') = Range(tptransactions) \cup {t}
    BY <2>1, AppendFacts
  <2> QED
    BY <2>2, ZenonT(40), SMTT(40) DEF Accounted, Live
<1>7. ASSUME NEW c \in Client, send_to_worker(c) PROVE Accounted
  <2>1. tptransactions' = tptransactions
    BY <1>7 DEF send_to_worker, Down
  <2> QED
    BY <2>1, KeptAccounted, ZenonT(40), SMTT(40)
<1>8. ASSUME NEW c \in Client, NEW cd \in Tran, NEW getany \in BOOLEAN,
             svrgetrply_extant(c, cd, getany)
      PROVE  Accounted
  BY <1>8, svrgetrply_extantAccounted
<1>9. ASSUME NEW c \in Client, NEW cd \in Tran, NEW getany \in BOOLEAN,
             svrgetrply_waits(c, cd, getany)
      PROVE  Accounted
  BY <1>9, KeptAccounted DEF svrgetrply_waits
<1>10. ASSUME NEW c \in Client, NEW cd \in Tran, NEW getany \in BOOLEAN,
              NEW noblock \in BOOLEAN, svrgetrply_fails(c, cd, getany, noblock)
       PROVE  Accounted
  BY <1>10, KeptAccounted DEF svrgetrply_fails
<1>11. ASSUME NEW c \in Client, svrservice_immediate(c) PROVE Accounted
  BY <1>11, KeptAccounted DEF svrservice_immediate
<1>12. ASSUME NEW c \in Client, svrservice_waits(c) PROVE Accounted
  BY <1>12, KeptAccounted DEF svrservice_waits
<1>13. ASSUME NEW c \in Client, NEW rv \in Results, svrreturn(c, rv) PROVE Accounted
  <2>1. tptransactions' = tptransactions
    BY <1>13 DEF svrreturn, Down
  <2> QED
    BY <2>1, KeptAccounted, ZenonT(40), SMTT(40)
<1>14. ASSUME NEW c \in Client, part2(c) PROVE Accounted
  BY <1>14, part2Accounted
<1>15. ASSUME NEW c \in Client, Quit(c) PROVE Accounted
  BY <1>15, del_clientAccounted DEF Quit
<1> QED
  BY <1>1, <1>2, <1>3, <1>4, <1>5, <1>6, <1>7, <1>8, <1>9, <1>10, <1>11, <1>12, <1>13,
     <1>14, <1>15, Zenon DEF Next

--------------------------------------------------------------------------------
(* The switchboard implements Calls.                                         *)

\* A handler that writes nothing, or something else than a reply, sends no reply.
LEMMA NothingSent ==
    ASSUME \/ out' = Silent
           \/ \E kind \in {"cd", "errno", "work", "ok"} : \E c, t, v :
                 out' = Wrote(c, Msg(kind, t, v))
    PROVE  Sent' = {}
<1>1. \A d \in Client : out'[d].kind # "reply"
  BY DEF Silent, Wrote, NoMsg, Msg
<1> QED
  BY <1>1 DEF Sent

\* snd_reply() sends one reply.
LEMMA ReplySent ==
    ASSUME NEW c \in Client, NEW t, NEW v, out' = Wrote(c, Msg("reply", t, v))
    PROVE  Sent' = {<<c, t>>}
<1>1. out'[c].kind = "reply" /\ out'[c].tran = t
  BY DEF Wrote, Msg
<1>2. \A d \in Client \ {c} : out'[d].kind # "reply"
  BY DEF Wrote, NoMsg, Msg
<1> QED
  BY <1>1, <1>2 DEF Sent

\* A handler that leaves the calls alone is no step of the callers'.
LEMMA OtherStep ==
    ASSUME UNCHANGED <<requests, replies, tsvc>>,
           clients \subseteq clients', services \subseteq services', Sent' = {}
    PROVE  Promise!Next
<1>1. Requested' = Requested /\ Replied' = Replied
  BY DEF Requested, Replied
<1> QED
  BY <1>1 DEF Promise!Next, Promise!Other

\* A process that goes down leaves the calls alone.
LEMMA DownPromised ==
    ASSUME NEW why, Down(why)
    PROVE  Promise!Next
<1>1. Sent' = {}
  BY NothingSent DEF Down
<1> QED
  BY <1>1, OtherStep DEF Down, connVars, callVars, serviceVars, tranVars

\* What a handler does to the queues of requests and replies, as the end of calls.
LEMMA EndStep ==
    ASSUME NEW S, NEW T, NEW F,
           services' = services \ S,
           tsvc' = [t \in Tran |-> IF t \in T THEN None
                                   ELSE IF tsvc[t] \in S THEN Freed ELSE tsvc[t]],
           \A d \in Client :
              /\ Range(requests'[d]) = Range(requests[d]) \ (T \cup F)
              /\ Range(replies'[d]) =
                    (Range(replies[d]) \cup (Range(requests[d]) \cap F)) \ T
    PROVE  Promise!End(S, T, F)
<1>1. Requested' = [d \in Client |-> Requested[d] \ (T \cup F)]
  BY DEF Requested
<1>2. Replied' = [d \in Client |-> (Replied[d] \cup (Requested[d] \cap F)) \ T]
  BY DEF Requested, Replied
<1> QED
  BY <1>1, <1>2, Zenon DEF Promise!End

\* svracall() makes a call.
LEMMA svracallPromised ==
    ASSUME IndInv, NEW c \in Client, NEW s \in Service, NEW t \in Tran, svracall(c, s, t)
    PROVE  Promise!Next
<1>0. /\ Up /\ c \in clients /\ s \in services /\ t \notin Live
      /\ requests \in [Client -> Seq(Tran)]
  BY DEF svracall, Input, Up, IndInv, TypeOK
<1>1. Sent' = {}
  <2>1. out' = Wrote(c, Msg("cd", t, None))
    BY DEF svracall
  <2> QED
    BY <2>1, NothingSent
<1>2. Range(Append(requests[c], t)) = Range(requests[c]) \cup {t}
  BY <1>0, AppendFacts
<1>3. requests' = [requests EXCEPT ![c] = Append(@, t)]
  BY DEF svracall
<1>4. Requested' = [Requested EXCEPT ![c] = @ \cup {t}]
  BY <1>0, <1>2, <1>3, ZenonT(40) DEF Requested
<1>5. tsvc' = [tsvc EXCEPT ![t] = s] /\ UNCHANGED <<clients, services, replies>>
  BY ZenonT(40), SMTT(40) DEF svracall, new_transaction, serviceVars
<1>6. \A d \in Client : t \notin Range(requests[d]) \cup Range(replies[d])
  BY <1>0 DEF IndInv, TransactionsOwned
<1>7. \A d \in Client : t \notin Promise!CallsOf(d)
  BY <1>6 DEF Promise!CallsOf, Requested, Replied
<1>8. Replied' = Replied
  BY <1>5 DEF Replied
<1>9. Promise!Call(c, s, t)
  BY <1>0, <1>1, <1>4, <1>5, <1>7, <1>8 DEF Promise!Call
<1> QED
  BY <1>9, Zenon DEF Promise!Next

\* snd_reply() is the reply to a call.
LEMMA snd_replyPromised ==
    ASSUME QueueLaws, IndInv, Up, NEW t \in Live, services' = services, clients' = clients,
           NEW hd, NEW w4, NEW ex, NEW in, snd_reply(t, hd, w4, ex, in)
    PROVE  Promise!Next
<1> DEFINE c == tclient[t]
<1>0. /\ t \in Tran /\ c \in Client
      /\ \A d \in Client : requests[d] \in Seq(Tran) /\ replies[d] \in Seq(Tran)
      /\ t \in Range(requests[c]) \cup Range(replies[c])
  <2>1. Live \subseteq Tran /\ clients \subseteq Client
    BY Basics DEF IndInv
  <2> QED
    BY <2>1, Basics, ZenonT(40), SMTT(40) DEF IndInv, TransactionsOwned
<1>1. Sent' = {<<c, t>>}
  <2>1. out' = Wrote(c, Msg("reply", t, rval[t]))
    BY DEF snd_reply
  <2> HIDE DEF c
  <2> QED
    BY <1>0, <2>1, ReplySent, ZenonT(40), SMTT(40)
<1>2. \A d \in Client : /\ requests'[d] = Without(requests[d], {t})
                        /\ replies'[d] = Without(replies[d], {t})
  BY ZenonT(40) DEF snd_reply, del_transaction
<1>3. \A d \in Client : /\ Range(requests'[d]) = Range(requests[d]) \ {t}
                        /\ Range(replies'[d]) = Range(replies[d]) \ {t}
  BY <1>0, <1>2, TranQueues, ZenonT(40), SMTT(40)
<1>4. tsvc' = [u \in Tran |-> IF u \in {t} THEN None ELSE tsvc[u]]
  BY Zenon DEF snd_reply, ClearFields
<1>5. Promise!End({}, {t}, {})
  <2>1. tsvc' = [u \in Tran |-> IF u \in {t} THEN None
                                ELSE IF tsvc[u] \in {} THEN Freed ELSE tsvc[u]]
    BY <1>4, ZenonT(40), SMTT(40)
  <2>2. \A d \in Client :
              /\ Range(requests'[d]) = Range(requests[d]) \ ({t} \cup {})
              /\ Range(replies'[d]) =
                    (Range(replies[d]) \cup (Range(requests[d]) \cap {})) \ {t}
    BY <1>3, ZenonT(40), SMTT(40)
  <2>3. services' = services \ {}
    BY ZenonT(40), SMTT(40)
  <2> QED
    BY <2>1, <2>2, <2>3, EndStep, ZenonT(40), SMTT(40)
<1>6. t \in Promise!CallsOf(c)
  BY <1>0, ZenonT(40), SMTT(40) DEF Promise!CallsOf, Requested, Replied
<1>7. Promise!Reply(c, t)
  BY <1>1, <1>5, <1>6, ZenonT(40), SMTT(40) DEF Promise!Reply
<1> HIDE DEF c
<1> QED
  BY <1>0, <1>7, Zenon DEF Promise!Next

\* tpgetrply for a reply that is there.
LEMMA svrgetrply_extantPromised ==
    ASSUME QueueLaws, IndInv, NEW c \in Client, NEW cd \in Tran, NEW getany \in BOOLEAN,
           svrgetrply_extant(c, cd, getany)
    PROVE  Promise!Next
<1> DEFINE t == ExtantReply(c, cd, getany)
<1>0. Up /\ replies[c] \in Seq(Tran)
  BY Basics, ZenonT(40) DEF IndInv, svrgetrply_extant, Input, Up
<1>1. t \in Range(replies[c])
  BY <1>0, EndsFacts, ZenonT(40) DEF svrgetrply_extant, HasReply, ExtantReply
<1>2. t \in Live
  BY <1>0, <1>1 DEF IndInv, TransactionsOwned
<1>3. CASE Down("freed")
  BY <1>3, DownPromised
<1>4. CASE /\ snd_reply(t, Called(c), wait4, executor, buf)
           /\ UNCHANGED <<clients, services>>
  <2> HIDE DEF t
  <2> QED
    BY <1>0, <1>2, <1>4, snd_replyPromised, ZenonT(40), SMTT(40)
<1> QED
  BY <1>3, <1>4 DEF svrgetrply_extant

\* The second part of tpreturn: the reply, or the call is finished, or it was
\* finished before by another worker.
LEMMA part2Promised ==
    ASSUME QueueLaws, IndInv, NEW c \in Client, part2(c)
    PROVE  Promise!Next
<1> DEFINE t == wait4[c]
           w4 == [wait4 EXCEPT ![c] = None]
           ex == [executor EXCEPT ![t] = None]
           hd == [handler EXCEPT ![c] = "command"]
           in == [buf EXCEPT ![c] = None]
<1>0. Up /\ handler[c] = "part2" /\ tsvc \in [Tran -> Service \cup {None, Freed}]
  BY DEF IndInv, TypeOK, part2, Input, Up
<1>1. CASE Down("freed")
  BY <1>1, DownPromised, ZenonT(40), SMTT(40)
<1>2. ASSUME buf[c] # Freed
      PROVE  t \in Tran /\ t \in Live
  BY <1>0, <1>2, ZenonT(40), SMTT(40) DEF IndInv, Returning, PointersLive
<1>3. CASE buf[c] # Freed /\ snd_reply(t, hd, w4, ex, in) /\ UNCHANGED <<clients, services>>
  <2>1. t \in Live
    BY <1>2, <1>3
  <2> HIDE DEF t, w4, ex, hd, in
  <2> QED
    BY <1>0, <1>3, <2>1, snd_replyPromised
<1>4. CASE /\ buf[c] # Freed /\ QueueReply(t) /\ out' = Silent
           /\ UNCHANGED <<clients, services, tsvc>>
  <2> DEFINE d == tclient[t]
  <2>1. t \in Tran /\ t \in Live
    BY <1>2, <1>4, ZenonT(40), SMTT(40)
  <2> HIDE DEF t
  <2>2. d \in Client /\ t \in Range(requests[d]) \cup Range(replies[d])
    <3>1. clients \subseteq Client
      BY Basics, ZenonT(40), SMTT(40) DEF IndInv
    <3> QED
      BY <1>0, <2>1, <3>1, ZenonT(40), SMTT(40) DEF IndInv, TransactionsOwned
  <2>3. /\ requests \in [Client -> Seq(Tran)] /\ replies \in [Client -> Seq(Tran)]
        /\ \A e \in Client \ {d} : t \notin Range(requests[e])
    BY <1>0 DEF IndInv, TypeOK, TransactionsOwned
  <2>4. /\ requests' = [requests EXCEPT ![d] = Without(@, {t})]
        /\ replies' = [replies EXCEPT ![d] = MoveToEnd(@, t)]
    BY <1>4, ZenonT(40), SMTT(40) DEF QueueReply
  <2> HIDE DEF d
  <2>5. /\ Range(Without(requests[d], {t})) = Range(requests[d]) \ {t}
        /\ Range(MoveToEnd(replies[d], t)) = Range(replies[d]) \cup {t}
    <3>1. requests[d] \in Seq(Tran) /\ replies[d] \in Seq(Tran)
      BY <2>2, <2>3, ZenonT(40), SMTT(40)
    <3>2. Range(Without(requests[d], {t})) = Range(requests[d]) \ {t}
      BY <3>1, TranQueues, ZenonT(40), SMTT(40)
    <3>3. Range(MoveToEnd(replies[d], t)) = Range(replies[d]) \cup {t}
      BY <2>1, <3>1, MoveToEndFacts
    <3> QED
      BY <3>2, <3>3, ZenonT(40), SMTT(40)
  <2>6. /\ Range(requests'[d]) = Range(requests[d]) \ {t}
        /\ Range(replies'[d]) = Range(replies[d]) \cup {t}
        /\ \A e \in Client \ {d} : requests'[e] = requests[e] /\ replies'[e] = replies[e]
    BY <2>2, <2>3, <2>4, <2>5, ZenonT(40)
  <2>7. Sent' = {}
    BY <1>4, NothingSent
  <2>8. CASE t \in Range(requests[d])
    <3>1. \A e \in Client :
              /\ Range(requests'[e]) = Range(requests[e]) \ ({} \cup {t})
              /\ Range(replies'[e]) =
                    (Range(replies[e]) \cup (Range(requests[e]) \cap {t})) \ {}
      BY <2>3, <2>6, <2>8, ZenonT(40)
    <3>2. tsvc' = [u \in Tran |-> IF u \in {} THEN None
                                  ELSE IF tsvc[u] \in {} THEN Freed ELSE tsvc[u]]
      BY <1>0, <1>4
    <3>3. services' = services \ {}
      BY <1>4, ZenonT(40), SMTT(40)
    <3>4. Promise!End({}, {}, {t})
      BY <3>1, <3>2, <3>3, EndStep, ZenonT(40), SMTT(40)
    <3>5. t \in Requested[d]
      BY <2>2, <2>8, ZenonT(40), SMTT(40) DEF Requested
    <3>6. Promise!Finish(d, t)
      BY <1>4, <2>7, <3>4, <3>5 DEF Promise!Finish
    <3> QED
      BY <2>1, <2>2, <3>6, Zenon DEF Promise!Next
  <2>9. CASE t \notin Range(requests[d])
    <3>1. Requested' = Requested
      BY <2>6, <2>9, ZenonT(40), SMTT(40) DEF Requested
    <3>2. Replied' = Replied
      BY <2>2, <2>6, <2>9, SMTT(40), ZenonT(90) DEF Replied
    <3>3. Promise!Other
      BY <1>4, <2>7, <3>1, <3>2, ZenonT(40), SMTT(40) DEF Promise!Other
    <3> QED
      BY <3>3, ZenonT(40), SMTT(40) DEF Promise!Next
  <2> QED
    BY <2>8, <2>9
<1> QED
  BY <1>1, <1>3, <1>4, ZenonT(40), SMTT(40) DEF part2, serviceVars

\* The services that go with client c, and the calls that wait for them.
LEMMA WithdrawnMade ==
    ASSUME IndInv, Up, NEW c \in clients, NEW S, S \subseteq Offers(c),
           services' = services \ Deserted(c, S)
    PROVE  /\ Promise!Made(Stranded(Deserted(c, S)), Deserted(c, S))
           /\ Stranded(Deserted(c, S)) \subseteq Tran
           /\ Deserted(c, S) \subseteq Service
<1>1. \A x \in Stranded(Deserted(c, S)) : tsvc[x] \in services \ services'
  BY StrandedAccounted
<1>2. Deserted(c, S) \subseteq Service
  <2>1. Offers(c) \subseteq Service
    BY DEF Offers
  <2> QED
    BY <2>1 DEF Deserted
<1>3. Stranded(Deserted(c, S)) \subseteq Tran
  <2>1. \A s \in Service : wct[s] => Range(waitq[s]) \subseteq Tran
    BY Basics DEF IndInv, WaitqHomogeneous
  <2> QED
    BY <1>2, <2>1, ZenonT(40), SMTT(40) DEF Stranded
<1> QED
  BY <1>1, <1>2, <1>3 DEF Promise!Made

\* tpunadvertise withdraws a service.
LEMMA svrunadvertisePromised ==
    ASSUME QueueLaws, IndInv, NEW c \in Client, NEW s \in Service, svrunadvertise(c, s)
    PROVE  Promise!Next
<1> DEFINE gone == Deserted(c, {s})
           T == Stranded(gone)
<1>0. /\ Up /\ c \in clients /\ {s} \subseteq Offers(c)
      /\ \A d \in Client : requests[d] \in Seq(Tran) /\ replies[d] \in Seq(Tran)
  BY Basics DEF IndInv, svrunadvertise, Input, Up
<1>1. CASE Down("freed")
  BY <1>1, DownPromised
<1>2. ASSUME requests' = [d \in Client |-> Without(requests[d], T)],
             replies' = [d \in Client |-> Without(replies[d], T)],
             tsvc' = [t \in Tran |-> IF t \in T THEN None ELSE FreeServices(gone)[t]],
             services' = services \ gone,
             out' = Wrote(c, Msg("ok", None, None)), clients' = clients
      PROVE  Promise!Next
  <2>1. Promise!Made(T, gone) /\ T \subseteq Tran /\ gone \subseteq Service
    BY <1>0, <1>2, WithdrawnMade, ZenonT(40)
  <2> HIDE DEF T, gone
  <2>2. \A d \in Client :
              /\ Range(requests'[d]) = Range(requests[d]) \ (T \cup {})
              /\ Range(replies'[d]) =
                    (Range(replies[d]) \cup (Range(requests[d]) \cap {})) \ T
    <3> TAKE d \in Client
    <3>1. requests'[d] = Without(requests[d], T) /\ replies'[d] = Without(replies[d], T)
      BY <1>2, ZenonT(40)
    <3>2. /\ Range(requests'[d]) = Range(requests[d]) \ T
          /\ Range(replies'[d]) = Range(replies[d]) \ T
      BY <1>0, <3>1, TranQueues, ZenonT(40)
    <3>3. /\ T \cup {} = T
          /\ Range(replies[d]) \cup (Range(requests[d]) \cap {}) = Range(replies[d])
      OBVIOUS
    <3> QED
      BY <3>2, <3>3, ZenonT(40)
  <2>3. tsvc' = [t \in Tran |-> IF t \in T THEN None
                                ELSE IF tsvc[t] \in gone THEN Freed ELSE tsvc[t]]
    BY <1>2, ZenonT(40) DEF FreeServices
  <2>4. Promise!End(gone, T, {})
    BY <1>2, <2>2, <2>3, EndStep, ZenonT(40)
  <2>5. Sent' = {}
    BY <1>2, NothingSent, ZenonT(40)
  <2>6. Promise!Withdraw(gone, T)
    BY <1>2, <2>1, <2>4, <2>5, ZenonT(40) DEF Promise!Withdraw
  <2> QED
    BY <2>1, <2>6, Zenon DEF Promise!Next
<1>3. CASE ~Down("freed")
  <2>1. /\ del_transaction(T, wait4, executor, requests, replies,
                                 remove_from_waitq(c, {s}), buf)
        /\ ClearFields(T, FreeExecutors(c, {s}, executor), FreeServices(gone), rval)
        /\ services' = services \ gone
        /\ out' = Wrote(c, Msg("ok", None, None)) /\ clients' = clients
    BY <1>3, ZenonT(40), SMTT(40) DEF svrunadvertise
  <2> HIDE DEF T, gone
  <2> QED
    BY <1>2, <2>1, Zenon DEF del_transaction, ClearFields
<1> QED
  BY <1>1, <1>3, ZenonT(40), SMTT(40)

\* del_client(): the client leaves, and the call that it executes fails.
LEMMA del_clientPromised ==
    ASSUME QueueLaws, IndInv, NEW c \in Client, del_client(c)
    PROVE  Promise!Next
<1> DEFINE t == wait4[c]
           fails == Executing(c)
           caller == tclient[t]
           w4 == IF fails THEN [wait4 EXCEPT ![c] = None] ELSE wait4
           answered == fails /\ w4[caller] = t
           rq == IF fails THEN [requests EXCEPT ![caller] = Without(@, {t})] ELSE requests
           rp == IF fails THEN [replies EXCEPT ![caller] = MoveToEnd(@, t)] ELSE replies
           gone == Deserted(c, Offers(c))
           failed == IF answered THEN {t} ELSE {}
           others == failed \cup Stranded(gone)
           own == (Range(rq[c]) \cup Range(rp[c])) \ others
           T == others \cup own
           F == IF fails THEN {t} ELSE {}
<1>0. /\ Up /\ c \in clients /\ clients \subseteq Client
      /\ requests \in [Client -> Seq(Tran)] /\ replies \in [Client -> Seq(Tran)]
  <2>1. Up /\ c \in clients
    BY Zenon DEF del_client, Up
  <2> QED
    BY <2>1 DEF IndInv, TypeOK
<1>1. CASE Down("freed")
  BY <1>1, DownPromised
<1>2. /\ fails => t \in Tran /\ t \in Live /\ caller \in Client
      /\ fails => t \in Range(requests[caller]) \cup Range(replies[caller])
      /\ \A d \in Client \ {caller} : t \notin Range(requests[d])
  BY <1>0, ZenonT(40) DEF Executing, IndInv, PointersLive, TransactionsOwned
<1>3. \A d \in Client :
          /\ rq[d] \in Seq(Tran) /\ Range(rq[d]) = Range(requests[d]) \ F
          /\ rp[d] \in Seq(Tran)
          /\ Range(rp[d]) = Range(replies[d]) \cup (Range(requests[d]) \cap F)
  <2>1. CASE fails
    <3> HIDE DEF t, fails, caller
    <3>1. /\ Without(requests[caller], {t}) \in Seq(Tran)
          /\ Range(Without(requests[caller], {t})) = Range(requests[caller]) \ {t}
      BY <1>0, <1>2, <2>1, TranQueues
    <3>2. /\ MoveToEnd(replies[caller], t) \in Seq(Tran)
          /\ Range(MoveToEnd(replies[caller], t)) = Range(replies[caller]) \cup {t}
      <4>1. replies[caller] \in Seq(Tran) /\ t \in Tran
        BY <1>0, <1>2, <2>1, ZenonT(40), SMTT(40)
      <4> QED
        BY <4>1, MoveToEndFacts, ZenonT(40), SMTT(40)
    <3>3. /\ rq[caller] = Without(requests[caller], {t})
          /\ rp[caller] = MoveToEnd(replies[caller], t)
          /\ \A d \in Client \ {caller} : rq[d] = requests[d] /\ rp[d] = replies[d]
      BY <1>0, <1>2, <2>1
    <3>4. F = {t}
      BY <2>1
    <3> HIDE DEF rq, rp, F
    <3>5. /\ rq[caller] \in Seq(Tran) /\ Range(rq[caller]) = Range(requests[caller]) \ F
          /\ rp[caller] \in Seq(Tran)
          /\ Range(rp[caller]) = Range(replies[caller]) \cup (Range(requests[caller]) \cap F)
      BY <1>2, <2>1, <3>1, <3>2, <3>3, <3>4, ZenonT(40)
    <3>6. ASSUME NEW d \in Client \ {caller}
          PROVE  /\ rq[d] \in Seq(Tran) /\ Range(rq[d]) = Range(requests[d]) \ F
                 /\ rp[d] \in Seq(Tran)
                 /\ Range(rp[d]) = Range(replies[d]) \cup (Range(requests[d]) \cap F)
      BY <1>0, <1>2, <3>3, <3>4
    <3> QED
      BY <3>5, <3>6, ZenonT(40)
  <2>2. CASE ~fails
    <3>1. rq = requests /\ rp = replies /\ F = {}
      BY <2>2, ZenonT(40), SMTT(40)
    <3> HIDE DEF rq, rp, F, fails
    <3> QED
      BY <1>0, <3>1, ZenonT(40), SMTT(40)
  <2> QED
    BY <2>1, <2>2, ZenonT(40)
<1>4. ASSUME requests' = [d \in Client |-> Without(rq[d], T)],
             replies' = [d \in Client |-> Without(rp[d], T)],
             tsvc' = [u \in Tran |-> IF u \in T THEN None ELSE FreeServices(gone)[u]],
             services' = services \ gone, clients' = clients \ {c},
             out' = IF answered THEN Wrote(caller, Msg("reply", t, "TPERRNO")) ELSE Silent
      PROVE  Promise!Next
  <2>1. /\ Promise!Made(Stranded(gone), gone)
        /\ Stranded(gone) \subseteq Tran /\ gone \subseteq Service
    BY <1>0, <1>4, WithdrawnMade, ZenonT(40)
  <2>2. answered => fails /\ F = {t} /\ t \in T
    OBVIOUS
  <2>3. F \subseteq Tran /\ \A u, v \in F : u = v
    BY <1>2, ZenonT(40), SMTT(40)
  <2>4. failed \subseteq Tran /\ (answered => failed = {t}) /\ (~answered => failed = {})
    BY <1>2, ZenonT(40), SMTT(40)
  <2> HIDE DEF t, fails, caller, w4, answered, rq, rp, gone, failed, F
  <2>5. Range(rq[c]) \cup Range(rp[c]) = Promise!CallsOf(c)
    BY <1>3, ZenonT(40) DEF Promise!CallsOf, Requested, Replied
  <2>6. /\ Promise!CallsOf(c) \subseteq T
        /\ T \subseteq Promise!CallsOf(c) \cup failed \cup Stranded(gone)
    BY <2>5, ZenonT(40), SMTT(40)
  <2>7. T \subseteq Tran
    <3>1. Promise!CallsOf(c) \subseteq Tran
      BY Basics DEF Promise!CallsOf, Requested, Replied, IndInv
    <3> QED
      BY <2>1, <2>4, <2>6, <3>1, ZenonT(40), SMTT(40)
  <2> HIDE DEF T
  <2>8. \A d \in Client :
              /\ Range(requests'[d]) = Range(requests[d]) \ (T \cup F)
              /\ Range(replies'[d]) =
                    (Range(replies[d]) \cup (Range(requests[d]) \cap F)) \ T
    <3> SUFFICES ASSUME NEW d \in Client
                 PROVE  /\ Range(requests'[d]) = Range(requests[d]) \ (T \cup F)
                        /\ Range(replies'[d]) =
                             (Range(replies[d]) \cup (Range(requests[d]) \cap F)) \ T
      BY ZenonT(40), SMTT(40)
    <3>1. requests'[d] = Without(rq[d], T) /\ replies'[d] = Without(rp[d], T)
      BY <1>4, ZenonT(40), SMTT(40)
    <3>2. /\ Range(Without(rq[d], T)) = Range(rq[d]) \ T
          /\ Range(Without(rp[d], T)) = Range(rp[d]) \ T
      BY <1>3, TranQueues, ZenonT(40), SMTT(40)
    <3> QED
      BY <1>3, <3>1, <3>2, ZenonT(40)
  <2>9. tsvc' = [u \in Tran |-> IF u \in T THEN None
                                ELSE IF tsvc[u] \in gone THEN Freed ELSE tsvc[u]]
    BY <1>4 DEF FreeServices
  <2>10. Promise!End(gone, T, F)
    BY <1>4, <2>8, <2>9, EndStep, ZenonT(40)
  <2>11. CASE ~answered
    <3>1. Sent' = {}
      BY <1>4, <2>11, NothingSent, ZenonT(40)
    <3>2. Promise!Made(T \ Promise!CallsOf(c), gone)
      BY <2>1, <2>4, <2>6, <2>11 DEF Promise!Made
    <3>3. Promise!Leave(c, gone, T, F)
      BY <1>4, <2>3, <2>6, <2>10, <3>1, <3>2, ZenonT(40) DEF Promise!Leave
    <3> QED
      BY <2>1, <2>3, <2>7, <3>3, Zenon DEF Promise!Next
  <2>12. CASE answered
    <3>1. caller \in Client /\ t \in Promise!CallsOf(caller)
      BY <1>2, <2>2, <2>12, ZenonT(40), SMTT(40) DEF Promise!CallsOf, Requested, Replied
    <3>2. Sent' = {<<caller, t>>}
      BY <1>4, <2>12, <3>1, ReplySent, ZenonT(40), SMTT(40)
    <3>3. Promise!Made(T \ (Promise!CallsOf(c) \cup {t}), gone)
      BY <2>1, <2>4, <2>6, <2>12, ZenonT(40), SMTT(40) DEF Promise!Made
    <3>4. t \in F \cap T \cap Promise!CallsOf(caller)
      BY <2>2, <2>12, <3>1, ZenonT(40), SMTT(40)
    <3>5. Promise!Leave(c, gone, T, F)
      BY <1>4, <2>3, <2>6, <2>10, <3>1, <3>2, <3>3, <3>4, ZenonT(40) DEF Promise!Leave
    <3> QED
      BY <2>1, <2>3, <2>7, <3>5, Zenon DEF Promise!Next
  <2> QED
    BY <2>11, <2>12
<1>5. CASE ~Down("freed")
  <2>1. /\ requests' = [d \in Client |-> Without(rq[d], T)]
        /\ replies' = [d \in Client |-> Without(rp[d], T)]
        /\ tsvc' = [u \in Tran |-> IF u \in T THEN None ELSE FreeServices(gone)[u]]
        /\ services' = services \ gone /\ clients' = clients \ {c}
        /\ answered => out' = Wrote(caller, Msg("reply", t, "TPERRNO"))
        /\ ~answered => out' = Silent
    BY <1>5, ZenonT(40) DEF del_client, del_transaction, ClearFields
  <2> HIDE DEF t, fails, caller, w4, answered, rq, rp, gone, failed, T
  <2> QED
    BY <2>1, <1>4
<1> QED
  BY <1>1, <1>5, ZenonT(40), SMTT(40)

\* Every handler is a step of the promise.
LEMMA NextPromised ==
    ASSUME QueueLaws, IndInv, [Next]_vars
    PROVE  [Promise!Next]_(Promise!vars)
<1>1. CASE UNCHANGED vars
  <2>1. UNCHANGED <<clients, services, tsvc, requests, replies, out>>
    BY <1>1 DEF vars, connVars, callVars, serviceVars, tranVars
  <2> QED
    BY <2>1, ZenonT(40), SMTT(40) DEF Promise!vars, Requested, Replied, Sent
<1>2. ASSUME NEW c \in Client, new_client(c) PROVE Promise!Next
  <2>1. out' = Silent /\ UNCHANGED <<requests, replies, tsvc, services>> /\ clients \subseteq clients'
    BY <1>2 DEF new_client, callVars, serviceVars, tranVars
  <2> QED
    BY <2>1, NothingSent, OtherStep, ZenonT(40), SMTT(40)
<1>3. ASSUME NEW c \in Client, NEW s \in Service, NEW f \in Func, svradvertise(c, s, f)
      PROVE  Promise!Next
  <2>1. UNCHANGED <<requests, replies, tsvc, clients>> /\ services \subseteq services'
    BY <1>3, ZenonT(40), SMTT(40) DEF svradvertise, Answer, connVars, callVars, tranVars
  <2>2. Sent' = {}
    BY <1>3, NothingSent DEF svradvertise, Answer
  <2> QED
    BY <2>1, <2>2, OtherStep, ZenonT(40), SMTT(40)
<1>4. ASSUME NEW c \in Client, NEW s \in Service,
             svrunadvertise_fails(c, s) \/ svracall_fails(c, s)
      PROVE  Promise!Next
  <2>1. UNCHANGED <<requests, replies, tsvc, clients, services>>
    BY <1>4, ZenonT(40), SMTT(40) DEF svracall_fails, svrunadvertise_fails, Answer, connVars, callVars, serviceVars, tranVars
  <2>2. Sent' = {}
    BY <1>4, NothingSent DEF svracall_fails, svrunadvertise_fails, Answer
  <2> QED
    BY <2>1, <2>2, OtherStep, ZenonT(40), SMTT(40)
<1>5. ASSUME NEW c \in Client, NEW s \in Service, svrunadvertise(c, s) PROVE Promise!Next
  BY <1>5, svrunadvertisePromised, ZenonT(40), SMTT(40)
<1>6. ASSUME NEW c \in Client, NEW s \in Service, NEW t \in Tran, svracall(c, s, t)
      PROVE  Promise!Next
  BY <1>6, svracallPromised
<1>7. ASSUME NEW c \in Client, send_to_worker(c) PROVE Promise!Next
  <2>1. CASE Down("freed")
    BY <2>1, DownPromised
  <2>2. CASE ~Down("freed")
    <3>1. UNCHANGED <<callVars, tsvc, clients, services>>
      BY <1>7, <2>2, ZenonT(40) DEF send_to_worker, tranVars
    <3>2. out' = Silent \/ \E d, t, v : out' = Wrote(d, Msg("work", t, v))
      BY <1>7, <2>2, ZenonT(40) DEF send_to_worker, send_to_server
    <3>3. Sent' = {}
      BY <3>2, NothingSent, ZenonT(40), SMTT(40)
    <3> QED
      BY <3>1, <3>3, OtherStep DEF callVars
  <2> QED
    BY <2>1, <2>2
<1>8. ASSUME NEW c \in Client, NEW cd \in Tran, NEW getany \in BOOLEAN,
             svrgetrply_extant(c, cd, getany)
      PROVE  Promise!Next
  BY <1>8, svrgetrply_extantPromised
<1>9. ASSUME NEW c \in Client, NEW cd \in Tran, NEW getany \in BOOLEAN,
             svrgetrply_waits(c, cd, getany)
      PROVE  Promise!Next
  <2>1. out' = Silent /\ UNCHANGED <<requests, replies, tsvc, clients, services>>
    BY <1>9 DEF svrgetrply_waits, callVars, serviceVars, tranVars
  <2> QED
    BY <2>1, NothingSent, OtherStep, ZenonT(40), SMTT(40)
<1>10. ASSUME NEW c \in Client, NEW cd \in Tran, NEW getany \in BOOLEAN,
              NEW noblock \in BOOLEAN, svrgetrply_fails(c, cd, getany, noblock)
       PROVE  Promise!Next
  <2>1. UNCHANGED <<requests, replies, tsvc, clients, services>>
    BY <1>10 DEF svrgetrply_fails, Answer, connVars, callVars, serviceVars, tranVars
  <2>2. Sent' = {}
    BY <1>10, NothingSent, ZenonT(40), SMTT(40) DEF svrgetrply_fails, Answer
  <2> QED
    BY <2>1, <2>2, OtherStep, ZenonT(40), SMTT(40)
<1>11. ASSUME NEW c \in Client, svrservice_immediate(c) PROVE Promise!Next
  <2>1. UNCHANGED <<requests, replies, tsvc, clients, services>>
    BY <1>11 DEF svrservice_immediate, callVars
  <2>2. \E t, v : out' = Wrote(c, Msg("work", t, v))
    BY <1>11 DEF svrservice_immediate, send_to_server
  <2>3. Sent' = {}
    BY <2>2, NothingSent
  <2> QED
    BY <2>1, <2>3, OtherStep
<1>12. ASSUME NEW c \in Client, svrservice_waits(c) PROVE Promise!Next
  <2>1. out' = Silent /\ UNCHANGED <<requests, replies, tsvc, clients, services>>
    BY <1>12 DEF svrservice_waits, callVars, tranVars
  <2> QED
    BY <2>1, NothingSent, OtherStep
<1>13. ASSUME NEW c \in Client, NEW rv \in Results, svrreturn(c, rv) PROVE Promise!Next
  <2>1. out' = Silent /\ UNCHANGED <<requests, replies, tsvc, clients, services>>
    BY <1>13 DEF svrreturn, Down, connVars, callVars, serviceVars, tranVars
  <2> QED
    BY <2>1, NothingSent, OtherStep, ZenonT(40), SMTT(40)
<1>14. ASSUME NEW c \in Client, part2(c) PROVE Promise!Next
  BY <1>14, part2Promised
<1>15. ASSUME NEW c \in Client, Quit(c) PROVE Promise!Next
  BY <1>15, del_clientPromised DEF Quit
<1> QED
  BY <1>1, <1>2, <1>3, <1>4, <1>5, <1>6, <1>7, <1>8, <1>9, <1>10, <1>11, <1>12, <1>13,
     <1>14, <1>15, Zenon DEF Next

--------------------------------------------------------------------------------
(* No request is forgotten (NoneForgotten), and not everyone waits for       *)
(* everyone (NotAllWait).  What sees to a request does so after every        *)
(* handler (Steady), or the handler hands the request on to somebody else.   *)

USE Zenon, SMTT(20)

\* What sees to request t of client c before a step does so after it.
Steady(c, t) ==
    /\ handler[c] = "send_to_worker" /\ buf[c] = t =>
         handler'[c] = "send_to_worker" /\ buf'[c] = t
    /\ \A s \in Service : t \in Range(waitq[s]) => t \in Range(waitq'[s])
    /\ \A d \in Workers :
         InHand(d, t) /\ executor[t] \in {d, Freed} =>
             InHand(d, t)' /\ executor'[t] \in {d, Freed}

\* A step that is steady for all the requests there are after it, and brings no new
\* one, forgets none.
LEMMA SteadyAttended ==
    ASSUME NoneForgotten, Up,
           Callers \cap Workers = {} =>
               \A c \in Client : \A t \in Range(requests'[c]) :
                   Attended(c, t)' \/ (t \in Range(requests[c]) /\ Steady(c, t))
    PROVE  NoneForgotten'
<1> SUFFICES ASSUME Callers \cap Workers = {}, NEW c \in Client, NEW t \in Range(requests'[c]),
                    t \in Range(requests[c]), Steady(c, t)
             PROVE  Attended(c, t)'
  BY Zenon DEF NoneForgotten
<1>1. Attended(c, t)
  BY Zenon DEF NoneForgotten
<1>2. CASE handler[c] = "send_to_worker" /\ buf[c] = t
  BY <1>2, Zenon DEF Attended, Steady
<1>3. ASSUME NEW s \in Service, t \in Range(waitq[s]) PROVE Attended(c, t)'
  BY <1>3, Zenon DEF Attended, Steady
<1>4. ASSUME NEW d \in Workers, InHand(d, t), executor[t] \in {d, Freed}
      PROVE  Attended(c, t)'
  BY <1>4, Zenon DEF Attended, Steady
<1> QED
  BY <1>1, <1>2, <1>3, <1>4, Zenon DEF Attended

\* Nothing is claimed once the process is down.
LEMMA DownAttended ==
    ASSUME status' # "up"
    PROVE  NoneForgotten'
  BY DEF NoneForgotten, Up

\* A handler that changes nothing that attends to requests.
LEMMA UntouchedAttended ==
    ASSUME NoneForgotten, Up,
           UNCHANGED <<requests, handler, buf, waitq, wait4, executor, serving>>
    PROVE  NoneForgotten'
<1>1. \A c \in Client : \A t \in Range(requests[c]) : Steady(c, t)
  BY DEF Steady, InHand
<1> QED
  BY <1>1, SteadyAttended

\* A client with work in hand, one in tpgetrply and one that waits for work are three.
LEMMA InHandFacts ==
    ASSUME IndInv, Up, NEW d \in Workers, NEW t \in Tran, InHand(d, t)
    PROVE  /\ d \in Client /\ d \in clients /\ wait4[d] # None
           /\ handler[d] \in {"command", "part2"}
           /\ handler[d] = "command" => serving[d]
           /\ \A s \in Service : d \notin Range(waitq[s])
<1>1. d \in Client /\ t # None
  BY SwitchboardConstants
<1>2. /\ handler[d] \in {"command", "part2"}
      /\ handler[d] = "command" => serving[d]
      /\ wait4[d] = t
  BY DEF InHand
<1>3. d \in clients
  BY <1>1, <1>2 DEF IndInv, Disconnected
<1>4. \A s \in Service : d \notin Range(waitq[s])
  BY <1>1, <1>2 DEF IndInv, Quiet, Idle
<1> QED
  BY <1>1, <1>2, <1>3, <1>4

\* Iowait accepts a client.
LEMMA new_clientAttended ==
    ASSUME IndInv, NoneForgotten, NEW c \in Client, new_client(c)
    PROVE  NoneForgotten'
<1>0. /\ Up /\ c \notin clients /\ handler' = [handler EXCEPT ![c] = "command"]
      /\ UNCHANGED <<requests, buf, waitq, wait4, executor, serving>>
      /\ handler \in [Client -> {"none", "command", "send_to_worker", "part2"}]
      /\ TypeOK
  BY DEF new_client, Up, callVars, serviceVars, tranVars, IndInv, TypeOK
<1>1. handler[c] = "none"
  BY <1>0 DEF IndInv, Disconnected
<1>2. ASSUME NEW a \in Client, NEW t \in Range(requests[a])
      PROVE  Steady(a, t)
  <2>1. t \in Tran
    BY <1>0, Basics
  <2>2. \A d \in Workers : InHand(d, t) => d # c /\ d \in Client
    BY <1>0, <2>1, InHandFacts
  <2> QED
    BY <1>0, <1>1, <2>2 DEF Steady, InHand
<1> QED
  BY <1>0, <1>2, SteadyAttended

\* svracall: the data of the new request is being read.
LEMMA svracallAttended ==
    ASSUME IndInv, NoneForgotten, NEW c \in Client, NEW s \in Service, NEW u \in Tran,
           svracall(c, s, u)
    PROVE  NoneForgotten'
<1>0. /\ Up /\ TypeOK /\ handler[c] = "command" /\ c \in Callers
      /\ handler' = [handler EXCEPT ![c] = "send_to_worker"]
      /\ buf' = [buf EXCEPT ![c] = u]
      /\ requests' = [requests EXCEPT ![c] = Append(@, u)]
      /\ UNCHANGED <<waitq, wait4, executor, serving>>
  BY DEF svracall, new_transaction, Input, Up, serviceVars, IndInv
<1>1. /\ handler \in [Client -> {"none", "command", "send_to_worker", "part2"}]
      /\ buf \in [Client -> Tran \cup {None, Freed}]
      /\ requests \in [Client -> Seq(Tran)]
  BY <1>0 DEF TypeOK
<1>2. Range(Append(requests[c], u)) = Range(requests[c]) \cup {u}
  BY <1>1, AppendFacts, SMTT(20)
<1>3. ASSUME Callers \cap Workers = {}, NEW a \in Client, NEW t \in Range(requests'[a])
      PROVE  Attended(a, t)' \/ (t \in Range(requests[a]) /\ Steady(a, t))
  <2>1. CASE a = c /\ t = u
    BY <1>0, <1>1, <2>1 DEF Attended
  <2>2. CASE ~(a = c /\ t = u)
    <3>1. t \in Range(requests[a])
      BY <1>0, <1>1, <1>2, <1>3, <2>2
    <3>2. t \in Tran
      BY <1>0, <3>1, Basics
    <3>3. \A d \in Workers : d # c /\ d \in Client
      BY <1>0, <1>3, SwitchboardConstants
    <3> QED
      BY <1>0, <1>1, <3>1, <3>3 DEF Steady, InHand
  <2> QED
    BY <2>1, <2>2
<1> QED
  BY <1>0, <1>3, SteadyAttended, Zenon

\* Only workers are on wait queues, and they have nothing in hand.
LEMMA IdleFacts ==
    ASSUME IndInv, Up, Roles, NEW s \in Service, NEW d \in Client, d \in Range(waitq[s])
    PROVE  d \in Workers /\ handler[d] = "none" /\ wait4[d] = None
<1>1. d \in clients /\ s \in Offers(d)
  BY OnWaitq
<1>2. d \in Workers
  BY <1>1 DEF Roles
<1> QED
  BY <1>2 DEF IndInv, Quiet, Idle

\* send_to_server(): the worker c gets u, which it has in hand now; whoever had another
\* transaction in hand still has it.
LEMMA send_to_serverSteady ==
    ASSUME QueueLaws, IndInv, Up, NEW c \in Workers, wait4[c] = None,
           NEW u \in Tran, NEW s, NEW hd, send_to_server(c, u, s, hd),
           hd \in [Client -> {"none", "command", "send_to_worker", "part2"}],
           \A d \in Client \ {c} : handler[d] \in {"command", "part2"} => hd[d] = handler[d]
    PROVE  /\ InHand(c, u)' /\ executor'[u] = c
           /\ \A t \in Tran : \A r \in Service : t \in Range(waitq[r]) => t \in Range(waitq'[r])
           /\ \A t \in Tran \ {u} : \A d \in Workers :
                 InHand(d, t) /\ executor[t] \in {d, Freed} =>
                     InHand(d, t)' /\ executor'[t] \in {d, Freed}
<1>0. /\ c \in Client /\ Workers \subseteq Client
      /\ wait4 \in [Client -> Tran \cup {None, AnyTran, Freed}]
      /\ executor \in [Tran -> Client \cup {None, Freed}]
      /\ serving \in [Client -> BOOLEAN] /\ TypeOK
  BY SwitchboardConstants DEF IndInv, TypeOK
<1>1. /\ wait4' = [wait4 EXCEPT ![c] = u] /\ executor' = [executor EXCEPT ![u] = c]
      /\ handler' = [hd EXCEPT ![c] = "command"] /\ serving' = [serving EXCEPT ![c] = TRUE]
      /\ waitq' = remove_from_waitq(c, Offers(c))
  BY DEF send_to_server
<1>2. InHand(c, u)' /\ executor'[u] = c
  BY <1>0, <1>1 DEF InHand
<1>3. ASSUME NEW t \in Tran, NEW r \in Service, t \in Range(waitq[r])
      PROVE  t \in Range(waitq'[r])
  <2>1. t # c
    BY <1>0, Pointers
  <2>2. waitq[r] \in Seq(Client \cup Tran)
    BY <1>0, Basics
  <2>3. Range(Without(waitq[r], {c})) = Range(waitq[r]) \ {c}
    BY <2>2, WaitQueues
  <2>4. waitq'[r] = waitq[r] \/ waitq'[r] = Without(waitq[r], {c})
    BY <1>1 DEF remove_from_waitq
  <2> QED
    BY <1>3, <2>1, <2>3, <2>4
<1>4. ASSUME NEW t \in Tran \ {u}, NEW d \in Workers, InHand(d, t), executor[t] \in {d, Freed}
      PROVE  InHand(d, t)' /\ executor'[t] \in {d, Freed}
  <2>1. d # c /\ d \in Client
    BY <1>0, <1>4, Pointers DEF InHand
  <2>2. wait4'[d] = t /\ handler'[d] = hd[d] /\ serving'[d] = serving[d] /\ executor'[t] = executor[t]
    BY <1>0, <1>1, <1>4, <2>1 DEF InHand
  <2>3. hd[d] = handler[d]
    BY <1>4, <2>1 DEF InHand
  <2> QED
    BY <1>4, <2>2, <2>3 DEF InHand
<1> QED
  BY <1>2, <1>3, <1>4

\* send_to_worker: the request whose data is in goes to a worker or on the wait queue.
LEMMA send_to_workerAttended ==
    ASSUME QueueLaws, IndInv, Roles, NoneForgotten, NEW c \in Client, send_to_worker(c)
    PROVE  NoneForgotten'
<1>0. Up /\ TypeOK /\ handler[c] = "send_to_worker"
  BY DEF send_to_worker, Input, Up, IndInv
<1>1. PICK u \in Tran : u = LastOf(requests[c]) /\ u = buf[c]
  BY <1>0, ReadingFacts
<1> DEFINE s == tsvc[u]
           hd == [handler EXCEPT ![c] = "command"]
<1>2. /\ handler \in [Client -> {"none", "command", "send_to_worker", "part2"}]
      /\ buf \in [Client -> Tran \cup {None, Freed}]
      /\ waitq \in [Service -> Seq(Client \cup Tran)]
      /\ hd \in [Client -> {"none", "command", "send_to_worker", "part2"}]
  BY <1>0 DEF TypeOK
<1>3. CASE Down("freed")
  BY <1>3, DownAttended DEF Down
<1> HIDE DEF s
<1>4. CASE /\ s \in Service /\ waitq[s] # <<>> /\ ~wct[s]
           /\ send_to_server(Head(waitq[s]), u, s, hd)
           /\ buf' = [buf EXCEPT ![c] = None] /\ UNCHANGED requests
  <2>1. PICK d \in Range(waitq[s]) : d = Head(waitq[s])
    BY <1>2, <1>4, EndsFacts
  <2>2. d \in Client
    BY <1>0, <1>4, <2>1, Basics DEF IndInv, WaitqHomogeneous
  <2>3. d \in Workers /\ handler[d] = "none" /\ wait4[d] = None
    BY <1>0, <1>4, <2>1, <2>2, IdleFacts
  <2>4. send_to_server(d, u, s, hd)
    BY <1>4, <2>1
  <2>5. /\ InHand(d, u)' /\ executor'[u] = d
        /\ \A t \in Tran : \A r \in Service : t \in Range(waitq[r]) => t \in Range(waitq'[r])
        /\ \A t \in Tran \ {u} : \A e \in Workers :
                 InHand(e, t) /\ executor[t] \in {e, Freed} =>
                     InHand(e, t)' /\ executor'[t] \in {e, Freed}
    <3>1. \A e \in Client \ {d} : handler[e] \in {"command", "part2"} => hd[e] = handler[e]
      BY <1>0, <1>2
    <3> HIDE DEF hd
    <3> QED
      BY <1>0, <1>1, <1>2, <2>3, <2>4, <3>1, send_to_serverSteady
  <2>6. handler' = [hd EXCEPT ![d] = "command"]
    BY <2>4 DEF send_to_server
  <2>7. ASSUME NEW a \in Client, NEW t \in Range(requests'[a])
        PROVE  Attended(a, t)' \/ (t \in Range(requests[a]) /\ Steady(a, t))
    <3>1. t \in Range(requests[a]) /\ t \in Tran
      BY <1>0, <1>4, <2>7, Basics
    <3>2. CASE t = u
      BY <2>3, <2>5, <3>2 DEF Attended
    <3>3. CASE t # u
      <4>1. handler[a] = "send_to_worker" /\ buf[a] = t =>
               handler'[a] = "send_to_worker" /\ buf'[a] = t
        BY <1>0, <1>1, <1>2, <1>4, <2>2, <2>3, <2>6, <3>3
      <4> QED
        BY <2>5, <3>1, <3>3, <4>1 DEF Steady
    <3> QED
      BY <3>2, <3>3
  <2> QED
    BY <1>0, <2>7, SteadyAttended, Zenon
<1>5. CASE /\ s \in Service
           /\ waitq' = [waitq EXCEPT ![s] = Append(@, u)]
           /\ handler' = hd /\ buf' = [buf EXCEPT ![c] = None]
           /\ UNCHANGED <<requests, wait4, executor, serving>>
  <2>1. waitq[s] \in Seq(Client \cup Tran) /\ u \in Client \cup Tran
    BY <1>1, <1>2, <1>5
  <2>2. Range(Append(waitq[s], u)) = Range(waitq[s]) \cup {u}
    BY <2>1, AppendFacts, SMTT(20)
  <2>3. /\ u \in Range(waitq'[s])
        /\ \A r \in Service : Range(waitq[r]) \subseteq Range(waitq'[r])
    BY <1>2, <1>5, <2>2
  <2>4. ASSUME NEW a \in Client, NEW t \in Range(requests'[a])
        PROVE  Attended(a, t)' \/ (t \in Range(requests[a]) /\ Steady(a, t))
    <3>1. t \in Range(requests[a]) /\ t \in Tran
      BY <1>0, <1>5, <2>4, Basics
    <3>2. CASE t = u
      BY <1>5, <2>3, <3>2 DEF Attended
    <3>3. CASE t # u
      <4>1. handler[a] = "send_to_worker" /\ buf[a] = t =>
               handler'[a] = "send_to_worker" /\ buf'[a] = t
        BY <1>1, <1>2, <1>5, <3>3
      <4>2. \A e \in Workers : InHand(e, t) => InHand(e, t)'
        BY <1>0, <1>2, <1>5, SwitchboardConstants DEF InHand
      <4> QED
        BY <1>5, <2>3, <3>1, <4>1, <4>2 DEF Steady
    <3> QED
      BY <3>2, <3>3
  <2> QED
    BY <1>0, <2>4, SteadyAttended, Zenon
<1> QED
  BY <1>1, <1>3, <1>4, <1>5 DEF send_to_worker, s, callVars, tranVars

\* tpgetrply leaves a caller hanging, which has nothing in hand.
LEMMA svrgetrply_waitsAttended ==
    ASSUME IndInv, NoneForgotten, NEW c \in Client, NEW cd \in Tran, NEW getany \in BOOLEAN,
           svrgetrply_waits(c, cd, getany)
    PROVE  NoneForgotten'
<1>0. /\ Up /\ TypeOK /\ c \in Callers /\ handler[c] = "command"
      /\ wait4' = [wait4 EXCEPT ![c] = IF getany THEN AnyTran ELSE cd]
      /\ handler' = [handler EXCEPT ![c] = "none"]
      /\ UNCHANGED <<requests, buf, waitq, executor, serving>>
  BY DEF svrgetrply_waits, Called, Input, Up, IndInv, callVars, serviceVars, tranVars
<1>1. /\ handler \in [Client -> {"none", "command", "send_to_worker", "part2"}]
      /\ wait4 \in [Client -> Tran \cup {None, AnyTran, Freed}]
  BY <1>0 DEF TypeOK
<1>2. ASSUME Callers \cap Workers = {}, NEW a \in Client, NEW t \in Range(requests'[a])
      PROVE  t \in Range(requests[a]) /\ Steady(a, t)
  <2>1. \A d \in Workers : d # c /\ d \in Client
    BY <1>0, <1>2, SwitchboardConstants
  <2> QED
    BY <1>0, <1>1, <1>2, <2>1 DEF Steady, InHand
<1> QED
  BY <1>0, <1>2, SteadyAttended, Zenon

\* tpservice with nothing to do: the worker has nothing in hand.
LEMMA svrservice_waitsAttended ==
    ASSUME IndInv, NoneForgotten, NEW c \in Client, svrservice_waits(c)
    PROVE  NoneForgotten'
<1>0. /\ Up /\ TypeOK /\ handler[c] = "command" /\ ~serving[c]
      /\ waitq' = add_to_waitq(c)
      /\ handler' = [handler EXCEPT ![c] = "none"]
      /\ UNCHANGED <<requests, buf, wait4, executor, serving>>
  BY DEF svrservice_waits, Called, Input, Up, IndInv, callVars, tranVars
<1>1. /\ handler \in [Client -> {"none", "command", "send_to_worker", "part2"}]
      /\ waitq \in [Service -> Seq(Client \cup Tran)]
  BY <1>0 DEF TypeOK
<1>2. \A s \in Service : Range(waitq[s]) \subseteq Range(waitq'[s])
  <2> TAKE s \in Service
  <2>1. waitq[s] \in Seq(Client \cup Tran) /\ c \in Client \cup Tran
    BY <1>1
  <2>2. Range(Append(waitq[s], c)) = Range(waitq[s]) \cup {c}
    BY <2>1, AppendFacts, SMTT(20)
  <2>3. waitq'[s] = waitq[s] \/ waitq'[s] = Append(waitq[s], c)
    BY <1>0 DEF add_to_waitq
  <2> QED
    BY <2>2, <2>3
<1>3. ASSUME NEW a \in Client, NEW t \in Range(requests'[a])
      PROVE  t \in Range(requests[a]) /\ Steady(a, t)
  <2>1. \A d \in Workers : d \in Client /\ (InHand(d, t) => d # c)
    BY <1>0, SwitchboardConstants DEF InHand
  <2> QED
    BY <1>0, <1>1, <1>2, <1>3, <2>1 DEF Steady, InHand
<1> QED
  BY <1>0, <1>3, SteadyAttended, Zenon

\* tpservice with a transaction waiting, which stays on the wait queue.
LEMMA svrservice_immediateAttended ==
    ASSUME QueueLaws, IndInv, NoneForgotten, NEW c \in Client, svrservice_immediate(c)
    PROVE  NoneForgotten'
<1>0. /\ Up /\ TypeOK /\ handler[c] = "command" /\ ~serving[c] /\ c \in Workers
      /\ Pending(c) # {}
      /\ UNCHANGED <<requests, buf>>
  BY DEF svrservice_immediate, Input, Up, IndInv, callVars
<1>1. PICK s \in Service : s = find_earliest(c) /\ s \in Offers(c) /\ wct[s] /\ waitq[s] # <<>>
  BY <1>0, find_earliestFound DEF Pending, Offers
<1>2. PICK u \in Range(waitq[s]) : u = Head(waitq[s])
  BY <1>0, <1>1, EndsFacts, SMTT(20) DEF TypeOK
<1>3. u \in Tran
  BY <1>0, <1>1, Basics DEF IndInv, WaitqHomogeneous
<1>4. PICK hd : hd = [handler EXCEPT ![c] = "none"]
  OBVIOUS
<1>5. send_to_server(c, u, s, hd)
  BY <1>1, <1>2, <1>4 DEF svrservice_immediate, Called
<1>6. /\ hd \in [Client -> {"none", "command", "send_to_worker", "part2"}]
      /\ \A d \in Client \ {c} : hd[d] = handler[d]
      /\ wait4[c] = None
      /\ handler' = [hd EXCEPT ![c] = "command"]
  BY <1>0, <1>4, <1>5 DEF TypeOK, IndInv, Quiet, send_to_server
<1>7. /\ \A t \in Tran : \A r \in Service : t \in Range(waitq[r]) => t \in Range(waitq'[r])
      /\ \A t \in Tran \ {u} : \A e \in Workers :
             InHand(e, t) /\ executor[t] \in {e, Freed} =>
                 InHand(e, t)' /\ executor'[t] \in {e, Freed}
  BY <1>0, <1>3, <1>5, <1>6, send_to_serverSteady
<1>8. ASSUME NEW a \in Client, NEW t \in Range(requests'[a])
      PROVE  Attended(a, t)' \/ (t \in Range(requests[a]) /\ Steady(a, t))
  <2>1. t \in Range(requests[a]) /\ t \in Tran
    BY <1>0, <1>8, Basics
  <2>2. CASE t = u
    BY <1>2, <1>3, <1>7, <2>2 DEF Attended
  <2>3. CASE t # u
    BY <1>0, <1>6, <1>7, <2>1, <2>3 DEF Steady
  <2> QED
    BY <2>2, <2>3
<1> QED
  BY <1>0, <1>8, SteadyAttended, Zenon

\* tpreturn: the result is being read, so the worker still has its transaction in hand.
LEMMA svrreturnAttended ==
    ASSUME IndInv, NoneForgotten, NEW c \in Client, NEW rv \in Results, svrreturn(c, rv)
    PROVE  NoneForgotten'
<1>0. Up /\ TypeOK /\ handler[c] = "command" /\ serving[c]
  BY DEF svrreturn, Input, Up, IndInv
<1>1. CASE Down("null") \/ Down("freed")
  BY <1>1, DownAttended DEF Down
<1>2. ASSUME buf' = [d \in Client |-> IF d = c THEN wait4[c]
                                       ELSE IF buf[d] = wait4[c] THEN Freed ELSE buf[d]],
             handler' = [handler EXCEPT ![c] = "part2"],
             serving' = [serving EXCEPT ![c] = FALSE],
             UNCHANGED <<requests, waitq, wait4, executor>>
      PROVE  NoneForgotten'
  <2>1. /\ handler \in [Client -> {"none", "command", "send_to_worker", "part2"}]
        /\ serving \in [Client -> BOOLEAN]
    BY <1>0 DEF TypeOK
  <2>2. ASSUME NEW a \in Client, NEW t \in Range(requests'[a])
        PROVE  t \in Range(requests[a]) /\ Steady(a, t)
    <3>1. ASSUME handler[a] = "send_to_worker", buf[a] = t
          PROVE  handler'[a] = "send_to_worker" /\ buf'[a] = t
      <4>1. wait4[c] # buf[a] /\ a # c
        BY <1>0, <3>1, ReadingFacts
      <4> QED
        BY <1>2, <2>1, <3>1, <4>1
    <3>2. ASSUME NEW d \in Workers, InHand(d, t) PROVE InHand(d, t)'
      BY <1>2, <2>1, <3>2, SwitchboardConstants DEF InHand
    <3> QED
      BY <1>2, <2>2, <3>1, <3>2 DEF Steady
  <2> QED
    BY <1>0, <2>2, SteadyAttended, Zenon
<1> QED
  BY <1>1, <1>2, Zenon DEF svrreturn, callVars, serviceVars

\* What is left of the tables when T is deleted.
Cleared(T, w4, rq, wq, in) ==
    /\ \A d \in Client : Range(requests'[d]) = Range(rq[d]) \ T
    /\ \A s \in Service : Range(waitq'[s]) = Range(wq[s]) \ T
    /\ \A d \in Client : /\ w4[d] \notin T => wait4'[d] = w4[d]
                         /\ in[d] \notin T => buf'[d] = in[d]

\* del_transaction() of T leaves the other transactions where they are.
LEMMA Survivors ==
    ASSUME QueueLaws, NEW T, NEW w4, NEW ex, NEW rq, NEW rp, NEW wq, NEW in,
           del_transaction(T, w4, ex, rq, rp, wq, in),
           rq \in [Client -> Seq(Tran)], wq \in [Service -> Seq(Client \cup Tran)]
    PROVE  Cleared(T, w4, rq, wq, in)
<1>1. ASSUME NEW d \in Client PROVE Range(requests'[d]) = Range(rq[d]) \ T
  <2>1. requests'[d] = Without(rq[d], T)
    BY Zenon DEF del_transaction
  <2> QED
    BY <2>1, TranQueues
<1>2. ASSUME NEW s \in Service PROVE Range(waitq'[s]) = Range(wq[s]) \ T
  <2>1. waitq'[s] = Without(wq[s], T)
    BY Zenon DEF del_transaction
  <2> QED
    BY <2>1, WaitQueues
<1>3. ASSUME NEW d \in Client
      PROVE  /\ w4[d] \notin T => wait4'[d] = w4[d]
             /\ in[d] \notin T => buf'[d] = in[d]
  BY DEF del_transaction, ClearWait4
<1> QED
  BY <1>1, <1>2, <1>3 DEF Cleared

\* snd_reply() of u, with w4, ex, hd and in as its callers leave them: they have changed what
\* concerns u only.
Answering(u, hd, w4, ex, in) ==
    /\ snd_reply(u, hd, w4, ex, in) /\ serving' = serving
    /\ hd \in [Client -> {"none", "command", "send_to_worker", "part2"}]
    /\ w4 \in [Client -> Tran \cup {None, AnyTran, Freed}]
    /\ \A t \in Tran \ {u} : ex[t] = executor[t]
    /\ Callers \cap Workers = {} =>
          \A d \in Workers :
              wait4[d] \in Tran \ {u} => w4[d] = wait4[d] /\ hd[d] = handler[d]
    /\ \A d \in Client : handler[d] = "send_to_worker" => hd[d] = handler[d] /\ in[d] = buf[d]

\* The caller, which has nothing in hand, gets its next command.
LEMMA snd_replyAttended ==
    ASSUME QueueLaws, IndInv, Roles, NoneForgotten, Up, NEW u \in Live,
           NEW hd, NEW w4, NEW ex, NEW in, Answering(u, hd, w4, ex, in)
    PROVE  NoneForgotten'
<1> USE DEF Answering
<1>0. /\ TypeOK /\ Live \subseteq Tran /\ Workers \subseteq Client
      /\ requests \in [Client -> Seq(Tran)] /\ waitq \in [Service -> Seq(Client \cup Tran)]
  BY Basics, SwitchboardConstants DEF IndInv, TypeOK
<1>1. PICK b \in Client : b = tclient[u] /\ b \in Callers
  BY SwitchboardConstants DEF Roles
<1>2. PICK v : v = [w4 EXCEPT ![b] = None]
  OBVIOUS
<1>3. /\ handler' = [hd EXCEPT ![b] = "command"]
      /\ status' = svriowait(b, hd)
      /\ del_transaction({u}, v, ex, requests, replies, waitq, in)
      /\ ClearFields({u}, ex, tsvc, rval)
  BY <1>1, <1>2, Zenon DEF snd_reply
<1>4. /\ \A d \in Client : Range(requests'[d]) = Range(requests[d]) \ {u}
      /\ \A s \in Service : Range(waitq'[s]) = Range(waitq[s]) \ {u}
      /\ \A d \in Client : /\ v[d] \notin {u} => wait4'[d] = v[d]
                           /\ in[d] \notin {u} => buf'[d] = in[d]
      /\ \A t \in Tran \ {u} : executor'[t] = ex[t]
  <2>1. \A t \in Tran \ {u} : executor'[t] = ex[t]
    BY <1>3 DEF ClearFields
  <2>2. Cleared({u}, v, requests, waitq, in)
    BY <1>0, <1>3, Survivors
  <2> QED
    BY <2>1, <2>2 DEF Cleared
<1>5. CASE hd[b] # "none"
  BY <1>3, <1>5, DownAttended DEF svriowait
<1>6. CASE hd[b] = "none"
  <2>1. ASSUME Callers \cap Workers = {}, NEW a \in Client, NEW t \in Range(requests'[a])
        PROVE  t \in Range(requests[a]) /\ Steady(a, t)
    <3>1. t \in Range(requests[a]) /\ t \in Tran \ {u}
      BY <1>0, <1>4, <2>1, Basics
    <3>2. ASSUME handler[a] = "send_to_worker", buf[a] = t
          PROVE  handler'[a] = "send_to_worker" /\ buf'[a] = t
      BY <1>3, <1>4, <1>6, <3>1, <3>2
    <3>3. ASSUME NEW d \in Workers, InHand(d, t), executor[t] \in {d, Freed}
          PROVE  InHand(d, t)' /\ executor'[t] \in {d, Freed}
      <4>1. d \in Client /\ d # b /\ wait4[d] = t
        BY <1>0, <1>1, <2>1, <3>3 DEF InHand
      <4>2. w4[d] = t /\ hd[d] = handler[d]
        BY <2>1, <3>1, <4>1
      <4>3. v[d] = t /\ handler'[d] = handler[d]
        BY <1>2, <1>3, <4>1, <4>2
      <4> QED
        BY <1>4, <3>1, <3>3, <4>1, <4>3 DEF InHand
    <3> QED
      BY <1>4, <3>1, <3>2, <3>3 DEF Steady
  <2> QED
    BY <2>1, SteadyAttended, Zenon
<1> QED
  BY <1>5, <1>6

\* tpgetrply for a reply that is there.
LEMMA svrgetrply_extantAttended ==
    ASSUME QueueLaws, IndInv, Roles, NoneForgotten, NEW c \in Client, NEW cd \in Tran,
           NEW getany \in BOOLEAN, svrgetrply_extant(c, cd, getany)
    PROVE  NoneForgotten'
<1>0. Up /\ TypeOK /\ replies[c] \in Seq(Tran) /\ handler[c] = "command" /\ c \in Callers
  BY Basics DEF IndInv, svrgetrply_extant, Input, Up
<1>1. PICK u \in Range(replies[c]) : u = ExtantReply(c, cd, getany)
  BY <1>0, EndsFacts DEF svrgetrply_extant, HasReply, ExtantReply
<1>2. u \in Live /\ tclient[u] = c
  BY <1>0, <1>1 DEF IndInv, TransactionsOwned
<1>3. CASE Down("freed")
  BY <1>3, DownAttended DEF Down
<1>4. CASE snd_reply(u, Called(c), wait4, executor, buf) /\ serving' = serving
  <2>1. PICK hd : hd = Called(c)
    OBVIOUS
  <2>2. /\ hd \in [Client -> {"none", "command", "send_to_worker", "part2"}]
        /\ \A d \in Client \ {c} : hd[d] = handler[d]
        /\ wait4 \in [Client -> Tran \cup {None, AnyTran, Freed}]
    BY <1>0, <2>1 DEF Called, TypeOK
  <2>3. Callers \cap Workers = {} => \A d \in Workers : hd[d] = handler[d]
    BY <1>0, <2>2, SwitchboardConstants
  <2>4. \A d \in Client : handler[d] = "send_to_worker" => hd[d] = handler[d]
    BY <1>0, <2>2
  <2>5. snd_reply(u, hd, wait4, executor, buf)
    BY <1>4, <2>1
  <2>6. Answering(u, hd, wait4, executor, buf)
    BY <1>4, <2>2, <2>3, <2>4, <2>5 DEF Answering
  <2> QED
    BY <1>0, <1>2, <2>6, snd_replyAttended
<1> QED
  BY <1>1, <1>3, <1>4 DEF svrgetrply_extant

\* The second part of tpreturn: the transaction leaves the requests of its caller.
LEMMA part2Attended ==
    ASSUME QueueLaws, IndInv, Roles, NoneForgotten, NEW c \in Client, part2(c)
    PROVE  NoneForgotten'
<1>0. Up /\ TypeOK /\ handler[c] = "part2"
  BY DEF IndInv, part2, Input, Up
<1>1. CASE Down("freed")
  BY <1>1, DownAttended DEF Down
<1>2. CASE buf[c] # Freed /\ ~Down("freed")
  <2>1. PICK u \in Tran : u = wait4[c] /\ u \in Live
    BY <1>0, <1>2 DEF IndInv, Returning, PointersLive
  <2>2. PICK w4, ex, hd, in :
            /\ w4 = [wait4 EXCEPT ![c] = None] /\ ex = [executor EXCEPT ![u] = None]
            /\ hd = [handler EXCEPT ![c] = "command"] /\ in = [buf EXCEPT ![c] = None]
    OBVIOUS
  <2>3. /\ hd \in [Client -> {"none", "command", "send_to_worker", "part2"}]
        /\ w4 \in [Client -> Tran \cup {None, AnyTran, Freed}]
        /\ \A t \in Tran \ {u} : ex[t] = executor[t]
        /\ \A d \in Client \ {c} : hd[d] = handler[d] /\ w4[d] = wait4[d] /\ in[d] = buf[d]
    BY <1>0, <2>2 DEF TypeOK
  <2>4. CASE snd_reply(u, hd, w4, ex, in) /\ serving' = serving
    <3>1. \A d \in Workers : wait4[d] \in Tran \ {u} => w4[d] = wait4[d] /\ hd[d] = handler[d]
      BY <2>1, <2>3, SwitchboardConstants
    <3>2. \A d \in Client : handler[d] = "send_to_worker" => hd[d] = handler[d] /\ in[d] = buf[d]
      BY <1>0, <2>3
    <3>3. Answering(u, hd, w4, ex, in)
      BY <2>3, <2>4, <3>1, <3>2 DEF Answering
    <3> QED
      BY <1>0, <2>1, <3>3, snd_replyAttended
  <2>5. CASE /\ QueueReply(u) /\ wait4' = w4 /\ executor' = ex /\ handler' = hd /\ buf' = in
             /\ UNCHANGED <<waitq, serving>>
    <3>1. PICK b \in Client : b = tclient[u]
      BY <1>0, <2>1, Basics DEF IndInv, TransactionsOwned
    <3>2. Range(Without(requests[b], {u})) = Range(requests[b]) \ {u}
      BY <1>0, <3>1, Basics, TranQueues
    <3>3. requests' = [requests EXCEPT ![b] = Without(@, {u})] /\ requests \in [Client -> Seq(Tran)]
      BY <1>0, <2>5, <3>1 DEF QueueReply, TypeOK
    <3>4. ASSUME NEW a \in Client, NEW t \in Range(requests'[a])
          PROVE  t \in Range(requests[a]) /\ Steady(a, t)
      <4>1. t \in Range(requests[a])
        BY <3>2, <3>3, <3>4
      <4>2. t \in Tran /\ tclient[t] = a
        BY <1>0, <4>1, Basics DEF IndInv, TransactionsOwned
      <4>3. t # u
        BY <3>1, <3>2, <3>3, <3>4, <4>2
      <4>4. ASSUME handler[a] = "send_to_worker", buf[a] = t
            PROVE  handler'[a] = "send_to_worker" /\ buf'[a] = t
        BY <1>0, <2>3, <2>5, <4>4
      <4>5. ASSUME NEW d \in Workers, InHand(d, t), executor[t] \in {d, Freed}
            PROVE  InHand(d, t)' /\ executor'[t] \in {d, Freed}
        <5>1. d \in Client /\ d # c
          BY <2>1, <4>3, <4>5, SwitchboardConstants DEF InHand
        <5> QED
          BY <2>3, <2>5, <4>2, <4>3, <4>5, <5>1 DEF InHand
      <4> QED
        BY <2>5, <4>1, <4>4, <4>5 DEF Steady
    <3> QED
      BY <1>0, <3>4, SteadyAttended, Zenon
  <2> QED
    BY <1>2, <2>1, <2>2, <2>4, <2>5 DEF part2, serviceVars
<1> QED
  BY <1>1, <1>2 DEF part2

\* tpunadvertise: a worker that has a transaction of the service in hand keeps it, but is
\* no longer known as its executor.
LEMMA svrunadvertiseAttended ==
    ASSUME QueueLaws, IndInv, NoneForgotten, NEW c \in Client, NEW s \in Service,
           svrunadvertise(c, s)
    PROVE  NoneForgotten'
<1>0. Up /\ TypeOK
  BY DEF IndInv, svrunadvertise, Input, Up
<1>1. CASE Down("freed")
  BY <1>1, DownAttended DEF Down
<1>2. CASE ~Down("freed")
  <2>1. PICK T, wq, ey, sv :
            /\ wq = remove_from_waitq(c, {s}) /\ ey = FreeExecutors(c, {s}, executor)
            /\ del_transaction(T, wait4, executor, requests, replies, wq, buf)
            /\ ClearFields(T, ey, sv, rval)
            /\ UNCHANGED <<handler, serving>>
    BY <1>2, Zenon DEF svrunadvertise
  <2>2. /\ requests \in [Client -> Seq(Tran)] /\ wq \in [Service -> Seq(Client \cup Tran)]
        /\ \A r \in Service : \A t \in Tran : t \in Range(waitq[r]) => t \in Range(wq[r])
    <3>1. \A r \in Service : /\ waitq[r] \in Seq(Client \cup Tran)
                             /\ Without(waitq[r], {c}) \in Seq(Client \cup Tran)
                             /\ Range(Without(waitq[r], {c})) = Range(waitq[r]) \ {c}
      BY <1>0, Basics, WaitQueues
    <3>2. c \notin Tran
      BY Pointers
    <3>3. wq = [r \in Service |-> IF r \in {s} THEN Without(waitq[r], {c}) ELSE waitq[r]]
      BY <2>1 DEF remove_from_waitq
    <3> QED
      BY <1>0, <3>1, <3>2, <3>3 DEF TypeOK
  <2>3. Cleared(T, wait4, requests, wq, buf)
    BY <2>1, <2>2, Survivors
  <2>4. ASSUME NEW a \in Client, NEW t \in Range(requests'[a])
        PROVE  t \in Range(requests[a]) /\ Steady(a, t)
    <3>1. t \in Range(requests[a]) /\ t \in Tran /\ t \notin T
      BY <1>0, <2>3, <2>4, Basics DEF Cleared
    <3>2. executor'[t] \in {executor[t], Freed}
      BY <2>1, <3>1 DEF ClearFields, FreeExecutors
    <3>3. ASSUME NEW d \in Workers, InHand(d, t), executor[t] \in {d, Freed}
          PROVE  InHand(d, t)' /\ executor'[t] \in {d, Freed}
      <4>1. wait4'[d] = t
        BY <2>3, <3>1, <3>3, SwitchboardConstants DEF InHand, Cleared
      <4> QED
        BY <2>1, <3>2, <3>3, <4>1 DEF InHand
    <3>4. ASSUME handler[a] = "send_to_worker", buf[a] = t
          PROVE  handler'[a] = "send_to_worker" /\ buf'[a] = t
      BY <2>1, <2>3, <3>1, <3>4 DEF Cleared
    <3>5. \A r \in Service : t \in Range(waitq[r]) => t \in Range(waitq'[r])
      BY <2>2, <2>3, <3>1 DEF Cleared
    <3> QED
      BY <3>1, <3>3, <3>4, <3>5 DEF Steady
  <2> QED
    BY <1>0, <2>4, SteadyAttended, Zenon
<1> QED
  BY <1>1, <1>2

\* What del_client() of c does to the tables, as far as requests are concerned: w4 and ex are
\* the pointers, rq the requests when it begins to delete T, and fails is whether c was
\* executing a transaction u, which then leaves the requests of its caller b.
Departed(c, fails, u, b, T, w4, ex, rq, wq) ==
    /\ wq = remove_from_waitq(c, Offers(c))
    /\ u = wait4[c] /\ b = tclient[u] /\ (fails <=> Executing(c))
    /\ rq = IF fails THEN [requests EXCEPT ![b] = Without(@, {u})] ELSE requests
    /\ \A d \in Client : w4[d] = wait4[d] \/ d = c \/ (fails /\ d = b)
    /\ \A t \in Tran : ex[t] \in {executor[t], Freed} \/ (fails /\ t = u)
    /\ Range(rq[c]) \subseteq T
    /\ u \in Tran => executor[u] # Freed
    /\ \A d \in Client :
          \/ handler'[d] = handler[d] \/ d = c
          \/ fails /\ d = b /\ (status' = "up" => handler[d] = "none")
    /\ \A d \in Client \ {c} : serving'[d] = serving[d]

\* And what it does after that.
Departing(c, fails, u, b, T, w4, ex, rq, wq, ey, rp, in) ==
    /\ Departed(c, fails, u, b, T, w4, ex, rq, wq)
    /\ del_transaction(T, w4, ey, rq, rp, wq, in)
    /\ \A d \in Client \ {c} : in[d] = buf[d]
    /\ \A t \in Tran \ T : executor'[t] = ex[t]

\* A client that goes takes nothing with it but its own requests: what it was executing goes to
\* the replies, and nobody else had that in hand alone.
LEMMA del_clientSteady ==
    ASSUME QueueLaws, IndInv, Roles, Up, NoneForgotten, NEW c \in Client,
           NEW fails, NEW u, NEW b, NEW T, NEW w4, NEW ex, NEW rq, NEW wq, NEW ey, NEW rp, NEW in,
           Departing(c, fails, u, b, T, w4, ex, rq, wq, ey, rp, in)
    PROVE  NoneForgotten'
<1>a. /\ Departed(c, fails, u, b, T, w4, ex, rq, wq)
      /\ del_transaction(T, w4, ey, rq, rp, wq, in)
      /\ \A d \in Client \ {c} : in[d] = buf[d]
      /\ \A t \in Tran \ T : executor'[t] = ex[t]
  BY DEF Departing
<1> USE <1>a
<1>0. TypeOK /\ requests \in [Client -> Seq(Tran)] /\ Workers \subseteq Client
  BY SwitchboardConstants DEF IndInv, TypeOK
<1>1. CASE status' # "up"
  BY <1>1, DownAttended
<1>2. CASE status' = "up"
  <2>1. fails => u \in Tran /\ u \in Live /\ b \in Client /\ b \in Callers /\ executor[u] = c
    <3>1. fails => u \in Tran /\ u \in Live /\ executor[u] = c /\ b = tclient[u]
      BY DEF Departed, Executing, IndInv, PointersLive
    <3> QED
      BY <3>1, SwitchboardConstants DEF Roles
  <2>2. /\ rq \in [Client -> Seq(Tran)]
        /\ \A d \in Client : Range(rq[d]) \subseteq Range(requests[d])
        /\ fails => u \notin Range(rq[b])
    <3>1. CASE fails
      <4>1. /\ Without(requests[b], {u}) \in Seq(Tran)
            /\ Range(Without(requests[b], {u})) = Range(requests[b]) \ {u}
        BY <1>0, <2>1, <3>1, TranQueues
      <4>2. rq = [requests EXCEPT ![b] = Without(@, {u})]
        BY <3>1 DEF Departed
      <4> QED
        BY <1>0, <2>1, <3>1, <4>1, <4>2
    <3>2. CASE ~fails
      BY <1>0, <3>2 DEF Departed
    <3> QED
      BY <3>1, <3>2
  <2>3. /\ wq \in [Service -> Seq(Client \cup Tran)]
        /\ \A r \in Service : \A t \in Tran : t \in Range(waitq[r]) => t \in Range(wq[r])
    <3>1. \A r \in Service : /\ waitq[r] \in Seq(Client \cup Tran)
                             /\ Without(waitq[r], {c}) \in Seq(Client \cup Tran)
                             /\ Range(Without(waitq[r], {c})) = Range(waitq[r]) \ {c}
      BY <1>0, Basics, WaitQueues
    <3>2. c \notin Tran
      BY Pointers
    <3>3. wq = [r \in Service |-> IF r \in Offers(c) THEN Without(waitq[r], {c}) ELSE waitq[r]]
      BY DEF Departed, remove_from_waitq
    <3> QED
      BY <1>0, <3>1, <3>2, <3>3
  <2>4. Cleared(T, w4, rq, wq, in)
    BY <2>2, <2>3, Survivors
  <2>5. ASSUME Callers \cap Workers = {}, NEW a \in Client, NEW t \in Range(requests'[a])
        PROVE  t \in Range(requests[a]) /\ Steady(a, t)
    <3>1. t \in Range(rq[a]) /\ t \in Range(requests[a]) /\ t \notin T
      BY <2>2, <2>4, <2>5 DEF Cleared
    <3>2. t \in Tran /\ tclient[t] = a
      BY <1>0, <3>1, Basics DEF IndInv, TransactionsOwned
    <3>3. a # c
      BY <3>1 DEF Departed
    <3>4. fails => t # u
      BY <2>2, <3>1, <3>2 DEF Departed
    <3>5. ASSUME handler[a] = "send_to_worker", buf[a] = t
          PROVE  handler'[a] = "send_to_worker" /\ buf'[a] = t
      <4>1. handler'[a] = handler[a]
        BY <1>2, <3>3, <3>5 DEF Departed
      <4>2. buf'[a] = in[a]
        BY <2>4, <3>1, <3>3, <3>5 DEF Cleared
      <4> QED
        BY <3>3, <3>5, <4>1, <4>2
    <3>6. ASSUME NEW d \in Workers, InHand(d, t), executor[t] \in {d, Freed}
          PROVE  InHand(d, t)' /\ executor'[t] \in {d, Freed}
      <4>1. d \in Client /\ wait4[d] = t
        BY <1>0, <3>6 DEF InHand
      <4>2. d # c
        BY <3>2, <3>4, <3>6, <4>1 DEF Departed, Executing
      <4>3. fails => d # b
        BY <2>1, <2>5
      <4>4. w4[d] = t /\ handler'[d] = handler[d] /\ serving'[d] = serving[d]
        BY <4>1, <4>2, <4>3 DEF Departed
      <4>5. wait4'[d] = t
        BY <2>4, <3>1, <4>1, <4>4 DEF Cleared
      <4>6. executor'[t] \in {executor[t], Freed}
        BY <3>1, <3>2, <3>4 DEF Departed
      <4> QED
        BY <3>6, <4>4, <4>5, <4>6 DEF InHand
    <3>7. \A r \in Service : t \in Range(waitq[r]) => t \in Range(waitq'[r])
      BY <2>3, <2>4, <3>1, <3>2 DEF Cleared
    <3> QED
      BY <3>1, <3>5, <3>6, <3>7 DEF Steady
  <2> QED
    BY <2>5, SteadyAttended, Zenon
<1> QED
  BY <1>1, <1>2

\* del_client().
LEMMA del_clientAttended ==
    ASSUME QueueLaws, IndInv, Roles, NoneForgotten, NEW c \in Client, del_client(c)
    PROVE  NoneForgotten'
<1> DEFINE t == wait4[c]
           fails == Executing(c)
           caller == tclient[t]
           w4 == IF fails THEN [wait4 EXCEPT ![c] = None] ELSE wait4
           ex == IF fails THEN [executor EXCEPT ![t] = None] ELSE executor
           rv == IF fails THEN [rval EXCEPT ![t] = "TPERRNO"] ELSE rval
           answered == fails /\ w4[caller] = t
           w4a == IF answered THEN [w4 EXCEPT ![caller] = None] ELSE w4
           rq == IF fails THEN [requests EXCEPT ![caller] = Without(@, {t})] ELSE requests
           rp == IF fails THEN [replies EXCEPT ![caller] = MoveToEnd(@, t)] ELSE replies
           gone == Deserted(c, Offers(c))
           failed == IF answered THEN {t} ELSE {}
           others == failed \cup Stranded(gone)
           own == (Range(rq[c]) \cup Range(rp[c])) \ others
           T == others \cup own
           exa == FreeExecutors(c, Offers(c), ex)
           W == [w4a EXCEPT ![c] = None]
           wq == remove_from_waitq(c, Offers(c))
           in == [buf EXCEPT ![c] = None]
<1>0. /\ Up /\ TypeOK
      /\ wait4 \in [Client -> Tran \cup {None, AnyTran, Freed}]
      /\ executor \in [Tran -> Client \cup {None, Freed}]
      /\ handler \in [Client -> {"none", "command", "send_to_worker", "part2"}]
      /\ serving \in [Client -> BOOLEAN] /\ buf \in [Client -> Tran \cup {None, Freed}]
  <2>1. Up
    BY Zenon DEF del_client, Up
  <2> QED
    BY <2>1 DEF IndInv, TypeOK
<1>1. CASE Down("freed")
  BY <1>1, DownAttended DEF Down
<1>2. CASE ~Down("freed")
  <2>1. /\ t \in Tran => executor[t] # Freed
        /\ del_transaction(T, W, ex, rq, rp, wq, in)
        /\ ClearFields(T, exa, FreeServices(gone), rv)
        /\ serving' = [serving EXCEPT ![c] = FALSE]
        /\ IF answered
           THEN /\ out' = Wrote(caller, Msg("reply", t, "TPERRNO"))
                /\ handler' = [handler EXCEPT ![c] = "none", ![caller] = "command"]
                /\ status' = svriowait(caller, handler)
           ELSE /\ out' = Silent
                /\ handler' = [handler EXCEPT ![c] = "none"]
                /\ UNCHANGED status
    BY <1>2, Zenon DEF del_client
  <2>2. \A x \in Tran \ T : executor'[x] = exa[x]
    <3> HIDE DEF T, exa
    <3> QED
      BY <2>1 DEF ClearFields
  <2>3. \A x \in Tran : exa[x] \in {executor[x], Freed} \/ (fails /\ x = t)
    <3> HIDE DEF t, fails
    <3> QED
      BY <1>0 DEF FreeExecutors
  <2>4. \A d \in Client : W[d] = wait4[d] \/ d = c \/ (fails /\ d = caller)
    <3> HIDE DEF t, fails, caller
    <3> QED
      BY <1>0
  <2>5. Range(rq[c]) \subseteq T
    <3> HIDE DEF rq, rp, others
    <3> QED
      OBVIOUS
  <2>6. \A d \in Client :
          \/ handler'[d] = handler[d] \/ d = c
          \/ fails /\ d = caller /\ (status' = "up" => handler[d] = "none")
    <3>1. answered => fails
      OBVIOUS
    <3> HIDE DEF fails, answered, caller
    <3> QED
      BY <1>0, <2>1, <3>1 DEF svriowait
  <2>7. /\ \A d \in Client \ {c} : serving'[d] = serving[d]
        /\ \A d \in Client \ {c} : in[d] = buf[d]
    BY <1>0, <2>1
  <2>8. Departed(c, fails, t, caller, T, W, exa, rq, wq)
    <3> HIDE DEF T, W, exa
    <3> QED
      BY <2>1, <2>3, <2>4, <2>5, <2>6, <2>7, Zenon DEF Departed
  <2> HIDE DEF t, fails, caller, T, W, ex, exa, rq, rp, wq, in
  <2>9. Departing(c, fails, t, caller, T, W, exa, rq, wq, ex, rp, in)
    BY <2>1, <2>2, <2>7, <2>8 DEF Departing
  <2> QED
    BY <1>0, <2>9, del_clientSteady
<1> QED
  BY <1>1, <1>2

\* A handler that creates no transaction, and only lets a worker advertise, keeps the roles.
LEMMA KeptRoles ==
    ASSUME Roles,
           \A d \in Client \ Workers : \A s \in Service : adverts'[d][s] = adverts[d][s],
           \A t \in Live' : t \in Live /\ tclient'[t] = tclient[t]
    PROVE  Roles'
<1>1. \A d \in Client \ Workers : Offers(d)' = Offers(d)
  BY DEF Offers
<1> QED
  BY <1>1, Zenon DEF Roles

\* Deleting transactions keeps them too.
LEMMA DeletedRoles ==
    ASSUME QueueLaws, TypeOK, NEW T, NEW ex, NEW sv, NEW rv,
           tptransactions' = Without(tptransactions, T), ClearFields(T, ex, sv, rv)
    PROVE  \A t \in Live' : t \in Live /\ tclient'[t] = tclient[t]
<1>1. tptransactions \in Seq(Tran) /\ Live \subseteq Tran
  BY Basics DEF TypeOK
<1>2. Live' = Live \ T
  BY <1>1, TranQueues DEF Live
<1> QED
  BY <1>1, <1>2 DEF ClearFields

\* So does a handler that leaves the transactions alone.
LEMMA QuietRoles ==
    ASSUME Roles, UNCHANGED <<tptransactions, tclient, adverts>>
    PROVE  Roles'
  BY KeptRoles DEF Live

\* tpacall: the new transaction is a caller's.
LEMMA svracallRoles ==
    ASSUME IndInv, Roles, NEW c \in Client, NEW s \in Service, NEW t \in Tran, svracall(c, s, t)
    PROVE  Roles'
<1>1. /\ tptransactions' = Append(tptransactions, t) /\ tclient' = [tclient EXCEPT ![t] = c]
      /\ c \in Callers /\ t \notin Live /\ adverts' = adverts
  BY DEF svracall, new_transaction, serviceVars
<1>2. /\ tptransactions \in Seq(Tran) /\ Live \subseteq Tran
      /\ tclient \in [Tran -> Client \cup {None}]
  BY Basics DEF IndInv, TypeOK
<1>3. Live' = Live \cup {t}
  BY <1>1, <1>2, AppendFacts, SMTT(20) DEF Live
<1>4. \A x \in Live' : tclient'[x] \in Callers
  BY <1>1, <1>2, <1>3 DEF Roles
<1>5. \A d \in Client \ Workers : Offers(d)' = {}
  BY <1>1 DEF Offers, Roles
<1> QED
  BY <1>4, <1>5, Zenon DEF Roles

\* del_client() takes advertisements and transactions away.
LEMMA del_clientRoles ==
    ASSUME QueueLaws, IndInv, Roles, NEW c \in Client, del_client(c)
    PROVE  Roles'
<1>0. TypeOK /\ adverts \in [Client -> [Service -> Func \cup {None}]]
  BY DEF IndInv, TypeOK
<1>1. CASE Down("freed")
  BY <1>1, QuietRoles DEF Down, tranVars, serviceVars
<1>2. CASE ~Down("freed")
  <2> DEFINE t == wait4[c]
             fails == Executing(c)
             caller == tclient[t]
             w4 == IF fails THEN [wait4 EXCEPT ![c] = None] ELSE wait4
             ex == IF fails THEN [executor EXCEPT ![t] = None] ELSE executor
             rv == IF fails THEN [rval EXCEPT ![t] = "TPERRNO"] ELSE rval
             answered == fails /\ w4[caller] = t
             w4a == IF answered THEN [w4 EXCEPT ![caller] = None] ELSE w4
             rq == IF fails THEN [requests EXCEPT ![caller] = Without(@, {t})] ELSE requests
             rp == IF fails THEN [replies EXCEPT ![caller] = MoveToEnd(@, t)] ELSE replies
             gone == Deserted(c, Offers(c))
             others == (IF answered THEN {t} ELSE {}) \cup Stranded(gone)
             T == others \cup ((Range(rq[c]) \cup Range(rp[c])) \ others)
             exa == FreeExecutors(c, Offers(c), ex)
  <2>1. /\ del_transaction(T, [w4a EXCEPT ![c] = None], ex, rq, rp,
                           remove_from_waitq(c, Offers(c)), [buf EXCEPT ![c] = None])
        /\ ClearFields(T, exa, FreeServices(gone), rv)
        /\ adverts' = [adverts EXCEPT ![c] = [s \in Service |-> None]]
    BY <1>2, Zenon DEF del_client
  <2>2. tptransactions' = Without(tptransactions, T)
    BY <2>1, Zenon DEF del_transaction
  <2>3. \A x \in Live' : x \in Live /\ tclient'[x] = tclient[x]
    <3> HIDE DEF T, exa, gone, rv
    <3> QED
      BY <1>0, <2>1, <2>2, DeletedRoles
  <2>5. \A d \in Client \ Workers : Offers(d)' = {}
    BY <1>0, <2>1 DEF Offers, Roles
  <2> QED
    BY <2>3, <2>5, Zenon DEF Roles
<1> QED
  BY <1>1, <1>2

\* Nobody leaves the role the configuration gives it: only the handlers of a worker's
\* messages advertise, and only those of a caller's create transactions.
LEMMA RolesStep ==
    ASSUME QueueLaws, IndInv, Roles, [Next]_vars
    PROVE  Roles'
<1> USE DEF vars, connVars, callVars, serviceVars, tranVars
<1>0. TypeOK /\ adverts \in [Client -> [Service -> Func \cup {None}]]
  BY DEF IndInv, TypeOK
<1>a. ASSUME NEW why, Down(why) PROVE Roles'
  BY <1>a, QuietRoles DEF Down
<1>1. CASE UNCHANGED vars
  BY <1>1, QuietRoles
<1>2. ASSUME NEW c \in Client, new_client(c) PROVE Roles'
  BY <1>2, QuietRoles DEF new_client
<1>3. ASSUME NEW c \in Client, NEW s \in Service, NEW f \in Func, svradvertise(c, s, f)
      PROVE  Roles'
  <2>1. /\ c \in Workers /\ UNCHANGED <<tptransactions, tclient>>
        /\ \A d \in Client \ {c} : adverts'[d] = adverts[d]
    BY <1>0, <1>3 DEF svradvertise
  <2>2. \A d \in Client \ Workers : \A r \in Service : adverts'[d][r] = adverts[d][r]
    BY <2>1
  <2> QED
    BY <2>1, <2>2, KeptRoles DEF Live
<1>4. ASSUME NEW c \in Client, NEW s \in Service,
             svrunadvertise_fails(c, s) \/ svracall_fails(c, s)
      PROVE  Roles'
  BY <1>4, QuietRoles DEF svracall_fails, svrunadvertise_fails
<1>5. ASSUME NEW c \in Client, NEW s \in Service, svrunadvertise(c, s) PROVE Roles'
  <2> DEFINE gone == Deserted(c, {s})
             T == Stranded(gone)
             ex == FreeExecutors(c, {s}, executor)
  <2>1. CASE Down("freed")
    BY <2>1, <1>a
  <2>2. CASE ~Down("freed")
    <3>1. /\ c \in Retirers
          /\ del_transaction(T, wait4, executor, requests, replies,
                             remove_from_waitq(c, {s}), buf)
          /\ ClearFields(T, ex, FreeServices(gone), rval)
          /\ adverts' = [adverts EXCEPT ![c][s] = None]
      BY <1>5, <2>2, Zenon DEF svrunadvertise
    <3>2. tptransactions' = Without(tptransactions, T)
      BY <3>1, Zenon DEF del_transaction
    <3>3. \A d \in Client \ Workers : \A r \in Service : adverts'[d][r] = adverts[d][r]
      BY <1>0, <3>1, SwitchboardConstants
    <3> HIDE DEF gone, T, ex
    <3> QED
      BY <1>0, <3>1, <3>2, <3>3, DeletedRoles, KeptRoles
  <2> QED
    BY <2>1, <2>2
<1>6. ASSUME NEW c \in Client, NEW s \in Service, NEW t \in Tran, svracall(c, s, t)
      PROVE  Roles'
  BY <1>6, svracallRoles
<1>7. ASSUME NEW c \in Client, send_to_worker(c) PROVE Roles'
  <2>1. UNCHANGED <<tptransactions, tclient, adverts>>
    BY <1>7 DEF send_to_worker, Down
  <2> QED
    BY <2>1, QuietRoles
<1>b. ASSUME NEW t, NEW hd, NEW w4, NEW ex, NEW in, snd_reply(t, hd, w4, ex, in),
             adverts' = adverts
      PROVE  Roles'
  <2>1. tptransactions' = Without(tptransactions, {t}) /\ ClearFields({t}, ex, tsvc, rval)
    BY <1>b, Zenon DEF snd_reply, del_transaction
  <2> QED
    BY <1>0, <1>b, <2>1, DeletedRoles, KeptRoles
<1>8. ASSUME NEW c \in Client, NEW cd \in Tran, NEW getany \in BOOLEAN,
             svrgetrply_extant(c, cd, getany)
      PROVE  Roles'
  <2> DEFINE t == ExtantReply(c, cd, getany)
  <2>1. \/ Down("freed")
        \/ snd_reply(t, Called(c), wait4, executor, buf) /\ adverts' = adverts
    BY <1>8, Zenon DEF svrgetrply_extant
  <2> HIDE DEF t
  <2> QED
    BY <2>1, <1>a, <1>b
<1>9. ASSUME NEW c \in Client, NEW cd \in Tran, NEW getany \in BOOLEAN,
             svrgetrply_waits(c, cd, getany)
      PROVE  Roles'
  BY <1>9, QuietRoles DEF svrgetrply_waits
<1>10. ASSUME NEW c \in Client, NEW cd \in Tran, NEW getany \in BOOLEAN,
              NEW noblock \in BOOLEAN, svrgetrply_fails(c, cd, getany, noblock)
       PROVE  Roles'
  BY <1>10, QuietRoles DEF svrgetrply_fails
<1>11. ASSUME NEW c \in Client, svrservice_immediate(c) PROVE Roles'
  BY <1>11, QuietRoles DEF svrservice_immediate
<1>12. ASSUME NEW c \in Client, svrservice_waits(c) PROVE Roles'
  BY <1>12, QuietRoles DEF svrservice_waits
<1>13. ASSUME NEW c \in Client, NEW rv \in Results, svrreturn(c, rv) PROVE Roles'
  <2>1. UNCHANGED <<tptransactions, tclient, adverts>>
    BY <1>13 DEF svrreturn, Down
  <2> QED
    BY <2>1, QuietRoles
<1>14. ASSUME NEW c \in Client, part2(c) PROVE Roles'
  <2> DEFINE t == wait4[c]
             w4 == [wait4 EXCEPT ![c] = None]
             ex == [executor EXCEPT ![t] = None]
             hd == [handler EXCEPT ![c] = "command"]
             in == [buf EXCEPT ![c] = None]
  <2>1. \/ Down("freed")
        \/ snd_reply(t, hd, w4, ex, in) /\ adverts' = adverts
        \/ UNCHANGED <<tptransactions, tclient, adverts>>
    BY <1>14, Zenon DEF part2
  <2> HIDE DEF t, w4, ex, hd, in
  <2> QED
    BY <2>1, <1>a, <1>b, QuietRoles
<1>15. ASSUME NEW c \in Client, Quit(c) PROVE Roles'
  BY <1>15, <1>a, del_clientRoles DEF Quit
<1> QED
  BY <1>1, <1>2, <1>3, <1>4, <1>5, <1>6, <1>7, <1>8, <1>9, <1>10, <1>11, <1>12, <1>13,
     <1>14, <1>15, Zenon DEF Next

\* At the start there are no requests, and no advertisements.
LEMMA InitAttended == Init => Roles /\ NoneForgotten
<1> SUFFICES ASSUME Init PROVE Roles /\ NoneForgotten
  OBVIOUS
<1>1. /\ tptransactions = <<>> /\ requests = [c \in Client |-> <<>>]
      /\ adverts = [c \in Client |-> [s \in Service |-> None]]
  BY DEF Init
<1>2. Live = {} /\ \A c \in Client : Range(requests[c]) = {}
  BY <1>1, SMTT(20) DEF Live, Range
<1>3. \A c \in Client : Offers(c) = {}
  BY <1>1 DEF Offers
<1> QED
  BY <1>2, <1>3 DEF Roles, NoneForgotten

\* No handler forgets a request.
LEMMA NextAttended ==
    ASSUME QueueLaws, IndInv, Roles, NoneForgotten, [Next]_vars
    PROVE  NoneForgotten'
<1> USE DEF vars, connVars, callVars, serviceVars, tranVars
<1>a. ASSUME Up, UNCHANGED <<requests, handler, buf, waitq, wait4, executor, serving>>
      PROVE  NoneForgotten'
  BY <1>a, UntouchedAttended
<1>1. CASE UNCHANGED vars
  <2>1. CASE Up
    BY <1>1, <1>a, <2>1
  <2> QED
    BY <1>1, <2>1, DownAttended DEF Up
<1>2. ASSUME NEW c \in Client, new_client(c) PROVE NoneForgotten'
  BY <1>2, new_clientAttended
<1>3. ASSUME NEW c \in Client, NEW s \in Service, NEW f \in Func, svradvertise(c, s, f)
      PROVE  NoneForgotten'
  BY <1>3, <1>a DEF svradvertise, Answer, Input, Up
<1>4. ASSUME NEW c \in Client, NEW s \in Service,
             svrunadvertise_fails(c, s) \/ svracall_fails(c, s)
      PROVE  NoneForgotten'
  BY <1>4, <1>a DEF svracall_fails, svrunadvertise_fails, Answer, Input, Up
<1>5. ASSUME NEW c \in Client, NEW s \in Service, svrunadvertise(c, s) PROVE NoneForgotten'
  BY <1>5, svrunadvertiseAttended
<1>6. ASSUME NEW c \in Client, NEW s \in Service, NEW t \in Tran, svracall(c, s, t)
      PROVE  NoneForgotten'
  BY <1>6, svracallAttended
<1>7. ASSUME NEW c \in Client, send_to_worker(c) PROVE NoneForgotten'
  BY <1>7, send_to_workerAttended
<1>8. ASSUME NEW c \in Client, NEW cd \in Tran, NEW getany \in BOOLEAN,
             svrgetrply_extant(c, cd, getany)
      PROVE  NoneForgotten'
  BY <1>8, svrgetrply_extantAttended
<1>9. ASSUME NEW c \in Client, NEW cd \in Tran, NEW getany \in BOOLEAN,
             svrgetrply_waits(c, cd, getany)
      PROVE  NoneForgotten'
  BY <1>9, svrgetrply_waitsAttended
<1>10. ASSUME NEW c \in Client, NEW cd \in Tran, NEW getany \in BOOLEAN,
              NEW noblock \in BOOLEAN, svrgetrply_fails(c, cd, getany, noblock)
       PROVE  NoneForgotten'
  BY <1>10, <1>a DEF svrgetrply_fails, Answer, Input, Up
<1>11. ASSUME NEW c \in Client, svrservice_immediate(c) PROVE NoneForgotten'
  BY <1>11, svrservice_immediateAttended
<1>12. ASSUME NEW c \in Client, svrservice_waits(c) PROVE NoneForgotten'
  BY <1>12, svrservice_waitsAttended
<1>13. ASSUME NEW c \in Client, NEW rv \in Results, svrreturn(c, rv) PROVE NoneForgotten'
  BY <1>13, svrreturnAttended
<1>14. ASSUME NEW c \in Client, part2(c) PROVE NoneForgotten'
  BY <1>14, part2Attended
<1>15. ASSUME NEW c \in Client, Quit(c) PROVE NoneForgotten'
  BY <1>15, del_clientAttended DEF Quit
<1> QED
  BY <1>1, <1>2, <1>3, <1>4, <1>5, <1>6, <1>7, <1>8, <1>9, <1>10, <1>11, <1>12, <1>13,
     <1>14, <1>15, Zenon DEF Next

\* A transaction keeps its service while that exists and neither is deleted.
LEMMA KeptKnown ==
    ASSUME ServiceKnown, services \subseteq services',
           \A t \in Live' : t \in Live /\ tsvc'[t] = tsvc[t]
    PROVE  ServiceKnown'
  BY DEF ServiceKnown

\* Deleting T, and after it the services in gone, frees the services of what remains.
LEMMA DeletedKnown ==
    ASSUME QueueLaws, TypeOK, ServiceKnown, NEW T, NEW ex, NEW rv, NEW gone,
           tptransactions' = Without(tptransactions, T),
           ClearFields(T, ex, FreeServices(gone), rv), services' = services \ gone
    PROVE  ServiceKnown'
<1>1. tptransactions \in Seq(Tran) /\ Live \subseteq Tran
  BY Basics DEF TypeOK
<1>2. Live' = Live \ T
  BY <1>1, TranQueues DEF Live
<1>3. \A t \in Tran \ T : tsvc'[t] = IF tsvc[t] \in gone THEN Freed ELSE tsvc[t]
  BY DEF ClearFields, FreeServices
<1> QED
  BY <1>1, <1>2, <1>3 DEF ServiceKnown

\* A worker that goes on resting does so on the same queues.
LEMMA KeptResting ==
    ASSUME Resting, Up,
           Callers \cap Workers = {} =>
             \A d \in Workers :
               \/ handler'[d] # "none"
               \/ \A s \in Service : adverts'[d][s] # None => d \in Range(waitq'[s])
               \/ /\ handler[d] = "none" /\ adverts'[d] = adverts[d]
                  /\ \A s \in Service : d \in Range(waitq[s]) => d \in Range(waitq'[s])
    PROVE  Resting'
<1> SUFFICES ASSUME Callers \cap Workers = {}, NEW d \in Workers, handler'[d] = "none",
                    NEW s \in Service, adverts'[d][s] # None
             PROVE  d \in Range(waitq'[s])
  BY DEF Resting, Offers, Idle
<1> QED
  BY DEF Resting, Offers, Idle

\* snd_reply() wakes its caller, and touches no worker.
LEMMA snd_replyResting ==
    ASSUME QueueLaws, IndInv, Up, ServiceKnown, Resting, NEW t \in Tran,
           NEW hd, NEW w4, NEW ex, NEW in, snd_reply(t, hd, w4, ex, in),
           hd \in [Client -> {"none", "command", "send_to_worker", "part2"}],
           \A d \in Workers \ Callers : handler[d] # "none" => hd[d] # "none",
           UNCHANGED <<adverts, services>>
    PROVE  ServiceKnown' /\ Resting'
<1>0. /\ TypeOK /\ requests \in [Client -> Seq(Tran)]
      /\ waitq \in [Service -> Seq(Client \cup Tran)] /\ Workers \subseteq Client
      /\ tptransactions \in Seq(Tran) /\ Live \subseteq Tran
  BY SwitchboardConstants, Basics DEF IndInv, TypeOK
<1>1. /\ del_transaction({t}, [w4 EXCEPT ![tclient[t]] = None], ex, requests, replies, waitq, in)
      /\ ClearFields({t}, ex, tsvc, rval)
      /\ handler' = [hd EXCEPT ![tclient[t]] = "command"]
  BY DEF snd_reply
<1>2. ServiceKnown'
  <2>1. tptransactions' = Without(tptransactions, {t})
    BY <1>1 DEF del_transaction
  <2>2. Live' = Live \ {t}
    BY <1>0, <2>1, TranQueues DEF Live
  <2>3. \A x \in Live' : x \in Live /\ tsvc'[x] = tsvc[x]
    BY <1>0, <1>1, <2>2 DEF ClearFields
  <2> QED
    BY <2>3, KeptKnown
<1>3. ASSUME NEW s \in Service, NEW d \in Client, d \in Range(waitq[s])
      PROVE  d \in Range(waitq'[s])
  <2>1. waitq'[s] = Without(waitq[s], {t})
    BY <1>1 DEF del_transaction
  <2> QED
    BY <1>0, <1>3, <2>1, WaitQueues, Pointers
<1>4. ASSUME Callers \cap Workers = {}, NEW d \in Workers, handler'[d] = "none"
      PROVE  handler[d] = "none"
  BY <1>0, <1>1, <1>4
<1> QED
  BY <1>0, <1>2, <1>3, <1>4, KeptResting

\* send_to_server() takes a worker off all its queues and no other off any.
LEMMA send_to_serverResting ==
    ASSUME QueueLaws, IndInv, Up, Resting, NEW c \in Client, NEW t, NEW s, NEW hd,
           send_to_server(c, t, s, hd),
           hd \in [Client -> {"none", "command", "send_to_worker", "part2"}],
           \A d \in Workers \ {c} : handler[d] # "none" => hd[d] # "none",
           adverts' = adverts
    PROVE  Resting'
<1>1. /\ waitq' = remove_from_waitq(c, Offers(c))
      /\ handler' = [hd EXCEPT ![c] = "command"] /\ Workers \subseteq Client
  BY SwitchboardConstants DEF send_to_server
<1>2. \A d \in Workers : handler'[d] = "none" => d # c /\ handler[d] = "none"
  BY <1>1
<1>3. \A r \in Service : \A d \in Workers \ {c} : d \in Range(waitq[r]) => d \in Range(waitq'[r])
  BY <1>1, RemovedFromWaitq
<1> QED
  BY <1>2, <1>3, KeptResting

\* tpunadvertise.
LEMMA svrunadvertiseResting ==
    ASSUME QueueLaws, IndInv, Up, ServiceKnown, Resting, NEW c \in Client, NEW s \in Service,
           svrunadvertise(c, s), ~Down("freed")
    PROVE  ServiceKnown' /\ Resting'
<1>0. /\ TypeOK /\ requests \in [Client -> Seq(Tran)] /\ Workers \subseteq Client
      /\ waitq \in [Service -> Seq(Client \cup Tran)]
      /\ adverts \in [Client -> [Service -> Func \cup {None}]]
  BY SwitchboardConstants DEF IndInv, TypeOK
<1> DEFINE gone == Deserted(c, {s})
           T == Stranded(gone)
           ex == FreeExecutors(c, {s}, executor)
           wq == remove_from_waitq(c, {s})
<1>1. /\ handler[c] = "command" /\ UNCHANGED handler
      /\ del_transaction(T, wait4, executor, requests, replies, wq, buf)
      /\ ClearFields(T, ex, FreeServices(gone), rval)
      /\ adverts' = [adverts EXCEPT ![c][s] = None]
      /\ services' = services \ gone
  BY Zenon DEF svrunadvertise, Input
<1>2. T \cap Client = {}
  <2>1. gone \subseteq Service
    BY DEF Deserted
  <2>2. ASSUME NEW x \in T PROVE x \notin Client
    <3>1. PICK r \in Service : wct[r] /\ x \in Range(waitq[r])
      BY <2>1, <2>2 DEF Stranded
    <3> QED
      BY <3>1, OnWaitq, Zenon
  <2> QED
    BY <2>2
<1>3. /\ wq \in [Service -> Seq(Client \cup Tran)]
      /\ \A r \in Service : \A d \in Client \ {c} : d \in Range(waitq[r]) => d \in Range(wq[r])
  BY <1>0, WaitQueues DEF remove_from_waitq
<1> HIDE DEF gone, T, ex, wq
<1>4. ServiceKnown'
  <2>1. tptransactions' = Without(tptransactions, T)
    BY <1>1, Zenon DEF del_transaction
  <2> QED
    BY <1>0, <1>1, <2>1, DeletedKnown
<1>5. Cleared(T, wait4, requests, wq, buf)
  BY <1>0, <1>1, <1>3, Survivors
<1>6. \A d \in Workers \ {c} : /\ adverts'[d] = adverts[d]
                               /\ \A r \in Service : d \in Range(waitq[r]) => d \in Range(waitq'[r])
  BY <1>0, <1>1, <1>2, <1>3, <1>5 DEF Cleared
<1> QED
  BY <1>1, <1>4, <1>6, KeptResting

\* del_client(): the client offers nothing any more, and its caller, if it gets one, is woken.
LEMMA del_clientResting ==
    ASSUME QueueLaws, IndInv, Up, ServiceKnown, Resting, NEW c \in Client,
           del_client(c), ~Down("freed")
    PROVE  ServiceKnown' /\ Resting'
<1>0. /\ TypeOK /\ requests \in [Client -> Seq(Tran)] /\ replies \in [Client -> Seq(Tran)]
      /\ Workers \subseteq Client
      /\ handler \in [Client -> {"none", "command", "send_to_worker", "part2"}]
      /\ adverts \in [Client -> [Service -> Func \cup {None}]]
  BY SwitchboardConstants DEF IndInv, TypeOK
<1> DEFINE t == wait4[c]
           fails == Executing(c)
           caller == tclient[t]
           w4 == IF fails THEN [wait4 EXCEPT ![c] = None] ELSE wait4
           ex == IF fails THEN [executor EXCEPT ![t] = None] ELSE executor
           rv == IF fails THEN [rval EXCEPT ![t] = "TPERRNO"] ELSE rval
           answered == fails /\ w4[caller] = t
           w4a == IF answered THEN [w4 EXCEPT ![caller] = None] ELSE w4
           rq == IF fails THEN [requests EXCEPT ![caller] = Without(@, {t})] ELSE requests
           rp == IF fails THEN [replies EXCEPT ![caller] = MoveToEnd(@, t)] ELSE replies
           gone == Deserted(c, Offers(c))
           others == (IF answered THEN {t} ELSE {}) \cup Stranded(gone)
           T == others \cup ((Range(rq[c]) \cup Range(rp[c])) \ others)
           exa == FreeExecutors(c, Offers(c), ex)
           W == [w4a EXCEPT ![c] = None]
           wq == remove_from_waitq(c, Offers(c))
           in == [buf EXCEPT ![c] = None]
<1>1. /\ del_transaction(T, W, ex, rq, rp, wq, in)
      /\ ClearFields(T, exa, FreeServices(gone), rv)
      /\ adverts' = [adverts EXCEPT ![c] = [s \in Service |-> None]]
      /\ services' = services \ gone
      /\ IF answered
         THEN /\ out' = Wrote(caller, Msg("reply", t, "TPERRNO"))
              /\ handler' = [handler EXCEPT ![c] = "none", ![caller] = "command"]
              /\ status' = svriowait(caller, handler)
         ELSE /\ out' = Silent
              /\ handler' = [handler EXCEPT ![c] = "none"]
              /\ UNCHANGED status
  BY Zenon DEF del_client
<1>2. \A s \in Service : adverts'[c][s] = None
  BY <1>0, <1>1
<1>3. \A d \in Client \ {c} : adverts'[d] = adverts[d]
  BY <1>0, <1>1
<1>4. \A d \in Client \ {c} : handler'[d] = "none" => handler[d] = "none"
  <2> HIDE DEF answered, caller
  <2> QED
    BY <1>0, <1>1
<1>5. fails => t \in Tran /\ caller \in Client
  BY DEF Executing, IndInv, PointersLive, TransactionsOwned, TypeOK
<1>6. T \cap Client = {}
  <2>1. gone \subseteq Service
    BY DEF Deserted, Offers
  <2>2. \A x \in Stranded(gone) : x \notin Client
    <3> SUFFICES ASSUME NEW x \in Stranded(gone) PROVE x \notin Client
      OBVIOUS
    <3>1. PICK r \in Service : wct[r] /\ x \in Range(waitq[r])
      BY <2>1 DEF Stranded
    <3> QED
      BY <3>1, OnWaitq, Zenon
  <2>3. rq[c] \in Seq(Tran) /\ rp[c] \in Seq(Tran)
    <3>1. CASE fails
      <4>1. /\ Without(requests[caller], {t}) \in Seq(Tran)
            /\ MoveToEnd(replies[caller], t) \in Seq(Tran)
        BY <1>0, <1>5, <3>1, TranQueues, MoveToEndFacts
      <4> HIDE DEF fails, caller, t
      <4> QED
        BY <1>0, <3>1, <4>1
    <3>2. CASE ~fails
      BY <1>0, <3>2
    <3> QED
      BY <3>1, <3>2
  <2>4. Range(rq[c]) \subseteq Tran /\ Range(rp[c]) \subseteq Tran
    <3> HIDE DEF rq, rp
    <3> QED
      BY <2>3, EndsFacts
  <2>5. answered => t \in Tran
    BY <1>5
  <2> HIDE DEF rq, rp, gone, t, answered
  <2> QED
    BY <2>2, <2>4, <2>5, Pointers
<1>7. /\ wq \in [Service -> Seq(Client \cup Tran)]
      /\ \A r \in Service : \A d \in Client \ {c} : d \in Range(waitq[r]) => d \in Range(wq[r])
  BY RemovedFromWaitq
<1> HIDE DEF gone, T, ex, exa, rv, rq, rp, W, wq, in, fails, answered
<1>8. ServiceKnown'
  <2>1. tptransactions' = Without(tptransactions, T)
    BY <1>1, Zenon DEF del_transaction
  <2> QED
    BY <1>0, <1>1, <2>1, DeletedKnown
<1>9. \A r \in Service : \A d \in Client \ {c} : d \in Range(waitq[r]) => d \in Range(waitq'[r])
  <2>1. \A r \in Service : waitq'[r] = Without(wq[r], T)
    BY <1>1, Zenon DEF del_transaction
  <2> QED
    BY <1>6, <1>7, <2>1, WaitQueues, SMTT(20)
<1> QED
  BY <1>0, <1>2, <1>3, <1>4, <1>8, <1>9, KeptResting

\* send_to_worker.
LEMMA send_to_workerResting ==
    ASSUME QueueLaws, IndInv, ServiceKnown, Resting, NEW c \in Client, send_to_worker(c)
    PROVE  ServiceKnown' /\ Resting'
<1> DEFINE t == LastOf(requests[c])
           s == tsvc[t]
           hd == [handler EXCEPT ![c] = "command"]
<1>0. /\ TypeOK /\ Workers \subseteq Client /\ Up
      /\ handler \in [Client -> {"none", "command", "send_to_worker", "part2"}]
      /\ waitq \in [Service -> Seq(Client \cup Tran)]
      /\ handler[c] = "send_to_worker" /\ t \in Tran
  <2>1. TypeOK /\ Up /\ handler[c] = "send_to_worker"
    BY DEF IndInv, send_to_worker, Input, Up
  <2>2. requests[c] # <<>>
    BY <2>1 DEF IndInv, Reading
  <2>3. t \in Tran
    BY <2>1, <2>2, Basics, EndsFacts
  <2> QED
    BY <2>1, <2>3, SwitchboardConstants DEF TypeOK
<1>1. UNCHANGED <<tptransactions, tsvc, services, adverts>>
  BY DEF send_to_worker, Down, tranVars, serviceVars
<1>2. ServiceKnown'
  BY <1>1, KeptKnown DEF Live
<1>3. /\ hd \in [Client -> {"none", "command", "send_to_worker", "part2"}]
      /\ \A d \in Client : hd[d] = "none" => handler[d] = "none"
  BY <1>0
<1>4. CASE Down("freed")
  BY <1>2, <1>4 DEF Down, Resting, Up
<1>5. CASE /\ s \in Service /\ waitq[s] # <<>> /\ ~wct[s]
           /\ send_to_server(Head(waitq[s]), t, s, hd)
  <2>1. Head(waitq[s]) \in Range(waitq[s])
    BY <1>0, <1>5, EndsFacts, SMTT(20)
  <2>2. Head(waitq[s]) \in Client
    BY <1>0, <1>5, <2>1, OnWaitq
  <2> HIDE DEF t, s, hd
  <2> QED
    BY <1>0, <1>1, <1>2, <1>3, <1>5, <2>2, send_to_serverResting
<1>6. CASE /\ s \in Service /\ waitq' = [waitq EXCEPT ![s] = Append(@, t)] /\ handler' = hd
  <2>1. \A r \in Service : /\ waitq[r] \in Seq(Client \cup Tran)
                           /\ Range(Append(waitq[r], t)) = Range(waitq[r]) \cup {t}
    BY <1>0, AppendFacts, SMTT(20)
  <2> HIDE DEF t, s, hd
  <2>2. \A r \in Service : Range(waitq[r]) \subseteq Range(waitq'[r])
    BY <1>0, <1>6, <2>1
  <2> QED
    BY <1>0, <1>1, <1>2, <1>3, <1>6, <2>2, KeptResting
<1> QED
  BY <1>4, <1>5, <1>6, Zenon DEF send_to_worker

\* The second part of tpreturn.
LEMMA part2Resting ==
    ASSUME QueueLaws, IndInv, ServiceKnown, Resting, NEW c \in Client, part2(c)
    PROVE  ServiceKnown' /\ Resting'
<1> DEFINE t == wait4[c]
           w4 == [wait4 EXCEPT ![c] = None]
           ex == [executor EXCEPT ![t] = None]
           hd == [handler EXCEPT ![c] = "command"]
           in == [buf EXCEPT ![c] = None]
<1>0. /\ Workers \subseteq Client /\ Up
      /\ handler \in [Client -> {"none", "command", "send_to_worker", "part2"}]
      /\ handler[c] = "part2"
  BY SwitchboardConstants DEF IndInv, TypeOK, part2, Input, Up
<1>1. /\ hd \in [Client -> {"none", "command", "send_to_worker", "part2"}]
      /\ \A d \in Client : /\ hd[d] = "none" => handler[d] = "none"
                           /\ handler[d] # "none" => hd[d] # "none"
  BY <1>0
<1>2. CASE Down("freed")
  BY <1>2, KeptKnown DEF Down, tranVars, serviceVars, Live, Resting, Up
<1>3. CASE /\ buf[c] # Freed /\ snd_reply(t, hd, w4, ex, in)
           /\ UNCHANGED <<adverts, services>>
  <2>1. t \in Tran
    BY <1>0, <1>3 DEF IndInv, Returning
  <2> HIDE DEF t, w4, ex, hd, in
  <2> QED
    BY <1>0, <1>1, <1>3, <2>1, snd_replyResting
<1>4. CASE handler' = hd /\ UNCHANGED <<serviceVars, tptransactions, tsvc>>
  BY <1>0, <1>1, <1>4, KeptKnown, KeptResting DEF serviceVars, Live
<1> QED
  BY <1>2, <1>3, <1>4, Zenon DEF part2

\* What no handler changes: services are known, and workers that rest wait for work.
LEMMA RestingStep ==
    ASSUME QueueLaws, IndInv, ServiceKnown, Resting, [Next]_vars
    PROVE  ServiceKnown' /\ Resting'
<1> DEFINE Goal == ServiceKnown' /\ Resting'
<1> USE DEF vars, connVars, callVars, serviceVars, tranVars
<1>0. /\ TypeOK /\ Workers \subseteq Client
      /\ handler \in [Client -> {"none", "command", "send_to_worker", "part2"}]
      /\ waitq \in [Service -> Seq(Client \cup Tran)] /\ Live \subseteq Tran
  BY SwitchboardConstants, Basics DEF IndInv, TypeOK
<1>a. ASSUME UNCHANGED <<tptransactions, tsvc, services>> PROVE ServiceKnown'
  BY <1>a, KeptKnown DEF Live
<1>b. ASSUME UNCHANGED <<tptransactions, tsvc, services>>, status' # "up" PROVE Goal
  BY <1>a, <1>b DEF Resting, Up
<1>c. ASSUME UNCHANGED <<tptransactions, tsvc, services, handler, waitq, adverts>>, Up
      PROVE  Goal
  BY <1>a, <1>c, KeptResting
<1>d. ASSUME NEW why, Down(why), why # "up" PROVE Goal
  BY <1>b, <1>d DEF Down
<1>1. CASE UNCHANGED vars
  BY <1>1, <1>b, <1>c DEF Up
<1>2. ASSUME NEW c \in Client, new_client(c) PROVE Goal
  <2>1. \A d \in Client : handler'[d] = "none" => handler[d] = "none"
    BY <1>0, <1>2 DEF new_client
  <2> QED
    BY <1>0, <1>2, <1>a, <2>1, KeptResting DEF new_client, Up
<1>3. ASSUME NEW c \in Client, NEW s \in Service, NEW f \in Func, svradvertise(c, s, f)
      PROVE  Goal
  <2>1. /\ Up /\ handler[c] = "command" /\ UNCHANGED <<handler, waitq, tptransactions, tsvc>>
        /\ services \subseteq services'
        /\ \A d \in Client \ {c} : adverts'[d] = adverts[d]
    BY <1>0, <1>3 DEF svradvertise, Answer, Input, Up, TypeOK
  <2>2. ServiceKnown'
    BY <2>1, KeptKnown DEF Live
  <2> QED
    BY <1>0, <2>1, <2>2, KeptResting
<1>4. ASSUME NEW c \in Client, NEW s \in Service,
             svrunadvertise_fails(c, s) \/ svracall_fails(c, s)
      PROVE  Goal
  BY <1>4, <1>c DEF svracall_fails, svrunadvertise_fails, Answer, Input, Up
<1>5. ASSUME NEW c \in Client, NEW s \in Service, svrunadvertise(c, s) PROVE Goal
  <2>1. CASE Down("freed")
    BY <2>1, <1>d
  <2>2. Up
    BY <1>5 DEF svrunadvertise, Input, Up
  <2> QED
    BY <1>5, <2>1, <2>2, svrunadvertiseResting
<1>6. ASSUME NEW c \in Client, NEW s \in Service, NEW t \in Tran, svracall(c, s, t)
      PROVE  Goal
  <2>1. /\ tptransactions' = Append(tptransactions, t) /\ tsvc' = [tsvc EXCEPT ![t] = s]
        /\ s \in services /\ t \notin Live /\ UNCHANGED <<adverts, services, waitq>> /\ Up
        /\ handler' = [handler EXCEPT ![c] = "send_to_worker"]
    BY <1>6 DEF svracall, new_transaction, Input, Up
  <2>2. tptransactions \in Seq(Tran) /\ tsvc \in [Tran -> Service \cup {None, Freed}]
    BY <1>0 DEF TypeOK
  <2>3. Live' = Live \cup {t}
    BY <2>1, <2>2, AppendFacts, SMTT(20) DEF Live
  <2>4. ServiceKnown'
    BY <1>0, <2>1, <2>2, <2>3 DEF ServiceKnown
  <2>5. \A d \in Client : handler'[d] = "none" => handler[d] = "none"
    BY <1>0, <2>1
  <2> QED
    BY <1>0, <2>1, <2>4, <2>5, KeptResting
<1>7. ASSUME NEW c \in Client, send_to_worker(c) PROVE Goal
  BY <1>7, <1>0, <1>a, <1>d, send_to_workerResting
<1>8. ASSUME NEW c \in Client, NEW cd \in Tran, NEW getany \in BOOLEAN,
             svrgetrply_extant(c, cd, getany)
      PROVE  Goal
  <2> DEFINE t == ExtantReply(c, cd, getany)
  <2>1. /\ Up /\ handler[c] = "command" /\ c \in Callers
        /\ \/ Down("freed")
           \/ /\ snd_reply(t, Called(c), wait4, executor, buf)
              /\ UNCHANGED <<adverts, services>>
    BY <1>8, Zenon DEF svrgetrply_extant, Input, Up
  <2>2. t \in Tran
    <3>1. getany => Head(replies[c]) \in Range(replies[c])
      BY <1>0, <1>8, Basics, EndsFacts DEF svrgetrply_extant, HasReply
    <3> QED
      BY <1>0, <3>1, Basics DEF ExtantReply
  <2>3. /\ Called(c) \in [Client -> {"none", "command", "send_to_worker", "part2"}]
        /\ \A d \in Workers \ Callers : handler[d] # "none" => Called(c)[d] # "none"
    BY <1>0, <2>1 DEF Called
  <2> HIDE DEF t
  <2> QED
    BY <2>1, <2>2, <2>3, <1>d, snd_replyResting
<1>9. ASSUME NEW c \in Client, NEW cd \in Tran, NEW getany \in BOOLEAN,
             svrgetrply_waits(c, cd, getany)
      PROVE  Goal
  <2>1. /\ Up /\ c \in Callers /\ UNCHANGED <<tptransactions, tsvc, services, waitq, adverts>>
        /\ \A d \in Client \ {c} : handler'[d] = handler[d]
    BY <1>0, <1>9 DEF svrgetrply_waits, Called, Input, Up
  <2>2. Callers \cap Workers = {} => c \notin Workers
    BY <2>1
  <2> QED
    BY <1>0, <1>a, <2>1, <2>2, KeptResting
<1>10. ASSUME NEW c \in Client, NEW cd \in Tran, NEW getany \in BOOLEAN,
              NEW noblock \in BOOLEAN, svrgetrply_fails(c, cd, getany, noblock)
       PROVE  Goal
  BY <1>10, <1>c DEF svrgetrply_fails, Answer, Input, Up
<1>11. ASSUME NEW c \in Client, svrservice_immediate(c) PROVE Goal
  <2> DEFINE s == find_earliest(c)
             t == Head(waitq[s])
  <2>1. /\ Up /\ UNCHANGED <<tptransactions, tsvc, services, adverts>>
        /\ send_to_server(c, t, s, Called(c))
    BY <1>11, Zenon DEF svrservice_immediate, Input, Up
  <2>2. /\ Called(c) \in [Client -> {"none", "command", "send_to_worker", "part2"}]
        /\ \A d \in Workers \ {c} : handler[d] # "none" => Called(c)[d] # "none"
    BY <1>0 DEF Called
  <2> HIDE DEF s, t
  <2> QED
    BY <2>1, <2>2, <1>a, send_to_serverResting
<1>12. ASSUME NEW c \in Client, svrservice_waits(c) PROVE Goal
  <2>1. /\ Up /\ UNCHANGED <<tptransactions, tsvc, services, adverts>>
        /\ waitq' = add_to_waitq(c)
        /\ \A d \in Client \ {c} : handler'[d] = handler[d]
    BY <1>0, <1>12 DEF svrservice_waits, Called, Input, Up
  <2>2. \A r \in Service : /\ waitq[r] \in Seq(Client \cup Tran)
                           /\ Range(Append(waitq[r], c)) = Range(waitq[r]) \cup {c}
    BY <1>0, AppendFacts, SMTT(20)
  <2>3. \A r \in Service : waitq'[r] = IF r \in Offers(c) THEN Append(waitq[r], c) ELSE waitq[r]
    BY <2>1 DEF add_to_waitq
  <2>4. /\ \A r \in Service : adverts'[c][r] # None => c \in Range(waitq'[r])
        /\ \A r \in Service : Range(waitq[r]) \subseteq Range(waitq'[r])
    BY <2>1, <2>2, <2>3 DEF Offers
  <2> QED
    BY <1>0, <1>a, <2>1, <2>4, KeptResting
<1>13. ASSUME NEW c \in Client, NEW rv \in Results, svrreturn(c, rv) PROVE Goal
  <2>1. CASE Down("null") \/ Down("freed")
    BY <2>1, <1>d
  <2>2. CASE ~(Down("null") \/ Down("freed"))
    <3>1. /\ Up /\ UNCHANGED <<tptransactions, tsvc, services, waitq, adverts>>
          /\ handler' = [handler EXCEPT ![c] = "part2"]
      BY <1>13, <2>2 DEF svrreturn, Input, Up
    <3>2. \A d \in Client : handler'[d] = "none" => handler[d] = "none"
      BY <1>0, <3>1
    <3> QED
      BY <1>0, <1>a, <3>1, <3>2, KeptResting
  <2> QED
    BY <2>1, <2>2
<1>14. ASSUME NEW c \in Client, part2(c) PROVE Goal
  BY <1>14, <1>0, <1>a, <1>d, part2Resting
<1>15. ASSUME NEW c \in Client, Quit(c) PROVE Goal
  <2>1. CASE Down("freed")
    BY <2>1, <1>d
  <2>2. Up /\ del_client(c)
    BY <1>15, Zenon DEF Quit, del_client, Up
  <2> QED
    BY <2>1, <2>2, del_clientResting
<1> QED
  BY <1>1, <1>2, <1>3, <1>4, <1>5, <1>6, <1>7, <1>8, <1>9, <1>10, <1>11, <1>12, <1>13,
     <1>14, <1>15, Zenon DEF Next

\* All of it at the start, and from step to step.
LEMMA InitAttend == Init => AttendInv
<1> SUFFICES ASSUME Init PROVE AttendInv
  OBVIOUS
<1>1. Roles /\ NoneForgotten
  BY InitAttended
<1>2. Live = {} /\ \A c \in Client : Offers(c) = {}
  BY SMTT(20) DEF Init, Live, Range, Offers
<1> QED
  BY <1>1, <1>2, SwitchboardConstants DEF AttendInv, ServiceKnown, Resting

\* Every handler keeps it.
LEMMA NextAttend ==
    ASSUME QueueLaws, IndInv, AttendInv, [Next]_vars
    PROVE  AttendInv'
<1>1. Roles'
  BY RolesStep DEF AttendInv
<1>2. ServiceKnown' /\ Resting'
  BY RestingStep DEF AttendInv
<1>3. NoneForgotten'
  BY NextAttended DEF AttendInv
<1> QED
  BY <1>1, <1>2, <1>3 DEF AttendInv

\* Whoever is to see to a request is not waiting too: a worker that has it in hand is in its
\* routine or sending the result, and one that advertises the service of a queued request
\* does not rest.
LEMMA AttendedMoves ==
    ASSUME IndInv, AttendInv
    PROVE  NotAllWait
<1> SUFFICES ASSUME Up, Callers \cap Workers = {}, NEW c \in Client, Hanging(c),
                    NEW t \in Range(requests[c])
             PROVE  \E d \in Workers : /\ d \in clients /\ ~Hanging(d)
                                       /\ InHand(d, t) \/ tsvc[t] \in Offers(d)
  BY Zenon DEF NotAllWait
<1>0. TypeOK /\ t \in Tran /\ Workers \subseteq Client /\ clients \subseteq Client
  BY Basics, SwitchboardConstants DEF IndInv
<1>1. Attended(c, t) /\ handler[c] = "none"
  BY Zenon DEF AttendInv, NoneForgotten, Hanging
<1>2. ASSUME NEW s \in Service, t \in Range(waitq[s])
      PROVE  \E d \in Workers : d \in clients /\ ~Hanging(d) /\ tsvc[t] \in Offers(d)
  <2>1. t \in Live /\ tsvc[t] = s /\ wct[s]
    BY <1>0, <1>2, OnWaitq
  <2>2. s \in services
    BY <2>1, Pointers DEF AttendInv, ServiceKnown
  <2>3. PICK d \in clients : s \in Offers(d)
    BY <2>2 DEF IndInv, ServicesAdvertised, Advertisers
  <2>4. d \in Workers
    BY <1>0, <2>3 DEF AttendInv, Roles
  <2>5. d \notin Range(waitq[s])
    BY <1>0, <2>1, <2>3, OnWaitq
  <2>6. ~Hanging(d)
    BY <2>3, <2>4, <2>5 DEF AttendInv, Resting, Idle, Hanging
  <2> QED
    BY <2>1, <2>3, <2>4, <2>6
<1>3. ASSUME NEW d \in Workers, InHand(d, t) PROVE d \in clients /\ ~Hanging(d)
  <2>1. handler[d] # "none"
    BY <1>3 DEF InHand
  <2> QED
    BY <1>0, <2>1 DEF IndInv, Disconnected, Hanging
<1> QED
  BY <1>1, <1>2, <1>3, Zenon DEF Attended
================================================================================
