------------------------------ MODULE Switchboard ------------------------------
(***************************************************************************)
(* The switchboard process: its tables of clients, services,               *)
(* advertisements and transactions, and its message handlers.  The         *)
(* process is one select() loop, so each handler runs to its end before    *)
(* the next one starts: a handler is one action, everything it calls       *)
(* included.  Two messages come in two parts (a header, then the data),    *)
(* and other clients are served between the parts; svracall and            *)
(* send_to_worker, svrreturn and part2 are therefore pairs of actions.     *)
(* A message without data has its second part handled at once: that is     *)
(* the behaviour in which the second action follows the first directly.    *)
(*                                                                         *)
(* Pointers.  A transaction is named by its address, which also stands for *)
(* its cd (module Descriptors says why it may).  Freed is the value of a   *)
(* pointer whose object has been freed.  A handler that goes through       *)
(* a null pointer, that uses a freed one, or that fails an assertion, ends *)
(* the process or makes everything after it undefined: status records      *)
(* which, and the model says nothing about what follows.                   *)
(***************************************************************************)
EXTENDS Queues

CONSTANTS
    Client,     \* connections: struct tpclient
    Service,    \* service names
    Tran,       \* the transactions there is memory for: struct tptransaction
    Func,       \* service routines, the opaque of an advertisement
    Callers,    \* the clients that use tpacall and tpgetrply
    Workers,    \* the clients that use tpadvertise, tpservice and tpreturn
    Retirers,   \* the workers that also use tpunadvertise
    Quitters,   \* the clients that may exit at any time
    Results,    \* the results service routines end with
    None,       \* a null pointer
    AnyTran,    \* &global_any_transaction
    Freed       \* a pointer to an object that has been freed

\* What the model needs of its parameters: who may do what is about clients,
\* and a null, a freed and a real pointer can be told apart.
ASSUME SwitchboardConstants ==
    /\ Callers \subseteq Client
    /\ Workers \subseteq Client
    /\ Retirers \subseteq Workers
    /\ Quitters \subseteq Client
    /\ Results \subseteq {"TPSUCCESS", "TPFAIL", "TPERRNO"}
    /\ Client \cap Tran = {}
    /\ None \notin Client \cup Tran \cup Service \cup Func
    /\ None \notin {"TPSUCCESS", "TPFAIL", "TPERRNO"}
    /\ AnyTran \notin Client \cup Tran \cup Service \cup Func \cup {None}
    /\ Freed \notin Client \cup Tran \cup Service \cup Func \cup {None, AnyTran}

VARIABLES
    clients,         \* tpclients: who is connected
    handler,         \* tpclient.handler: what the next input of a client is for
    buf,             \* tpclient.input, where it is the data of a transaction
    wait4,           \* tpclient.wait4
    adverts,         \* tpclient.adverts: the routine for each service on offer
    requests,        \* tpclient.requests
    replies,         \* tpclient.replies
    services,        \* the tree of services
    waitq,           \* tpservice.waitq; an advertisement is named by its client
    wct,             \* tpservice.wait_contains_transactions
    tptransactions,  \* all transactions, in order of arrival
    tclient,         \* tptransaction.client
    tsvc,            \* tptransaction.svc
    executor,        \* tptransaction.executor, named by its client
    rval,            \* tptransaction.rval
    serving,         \* _tp_longjmp_okay of the client: it is in a service routine
    out,             \* what the last handler to run wrote to each client
    status           \* "up", or why the process is no longer running as written

connVars == <<clients, handler, buf, wait4>>
callVars == <<requests, replies>>
serviceVars == <<adverts, services, waitq, wct>>
tranVars == <<tptransactions, tclient, tsvc, executor, rval>>
vars == <<connVars, callVars, serviceVars, tranVars, serving, out, status>>

Rval == {"TPSUCCESS", "TPFAIL", "TPERRNO"}
Errno == {"TPENOENT", "TPEMATCH", "TPEBADDESC", "TPEBLOCK"}

\* A message from the switchboard: the cd of a new call, an error number, a
\* reply, a piece of work, or a zero status.
Msg(kind, tran, val) == [kind |-> kind, tran |-> tran, val |-> val]
NoMsg == Msg("none", None, None)

\* A handler writes one message, to client c, or none.
Wrote(c, msg) == [d \in Client |-> IF d = c THEN msg ELSE NoMsg]
Silent == [d \in Client |-> NoMsg]
Messages ==
    [kind : {"none", "cd", "errno", "reply", "work", "ok"},
     tran : Tran \cup {None},
     val  : Rval \cup Errno \cup Func \cup {None}]

--------------------------------------------------------------------------------
\* The transactions that have been allocated and not freed.
Live == Range(tptransactions)

\* The services client c advertises, and the clients that advertise s.
Offers(c) == {s \in Service : adverts[c][s] # None}
Advertisers(s) == {c \in clients : s \in Offers(c)}

\* The queues of c's services with c taken off them.
remove_from_waitq(c, S) ==
    [s \in Service |-> IF s \in S THEN Without(waitq[s], {c}) ELSE waitq[s]]

\* Mutant: the worker goes on the queue of one of its services only.
add_to_waitq_once(c) ==
    LET r == CHOOSE r \in Service : Offers(c) # {} => r \in Offers(c)
    IN  [s \in Service |->
            IF s = r /\ s \in Offers(c) THEN Append(waitq[s], c) ELSE waitq[s]]

\* Mutant: the worker is left hanging but goes on no queue.
add_to_waitq_never(c) == waitq

\* The queues of c's services with c added to them.
add_to_waitq(c) ==
    [s \in Service |-> IF s \in Offers(c) THEN Append(waitq[s], c) ELSE waitq[s]]

\* Mutant: wait_contains_transactions is not reset.
MarkWorkers_never(c) == wct

\* A service whose queue holds workers is marked so.
MarkWorkers(c) == [s \in Service |-> wct[s] /\ s \notin Offers(c)]

\* Mutant: c's own advertisement is still there when tpclients is scanned.
Deserted_early(c, S) == {s \in S : Advertisers(s) = {}}

\* Nobody but c advertises these services of S: the scan of tpclients fails.
Deserted(c, S) == {s \in S : Advertisers(s) \subseteq {c}}

\* Mutant: the transactions that wait for any service.
Stranded_all(S) == UNION {Range(waitq[s]) : s \in {r \in Service : wct[r]}}

\* What del_service() deletes: the transactions that wait for a service of S.
Stranded(S) == UNION {Range(waitq[s]) : s \in {r \in S : wct[r]}}

\* The executors once the advertisements of c for S have been freed.
FreeExecutors(c, S, ex) ==
    [t \in Tran |-> IF ex[t] = c /\ tsvc[t] \in S THEN Freed ELSE ex[t]]

\* The transactions' services once the services of S have been freed.
FreeServices(S) == [t \in Tran |-> IF tsvc[t] \in S THEN Freed ELSE tsvc[t]]

--------------------------------------------------------------------------------
\* The process goes no further as written.
Down(why) ==
    /\ status' = why
    /\ out' = Silent
    /\ UNCHANGED <<connVars, callVars, serviceVars, tranVars, serving>>

\* del_transaction() of every member of T uses a freed pointer: it goes
\* through the executor, and compares two wait4 pointers with t.
Dangles(T, w4, ex) ==
    \E t \in T :
        \/ ex[t] = Freed
        \/ w4[tclient[t]] = Freed
        \/ ex[t] \in Client /\ w4[ex[t]] = Freed

\* The wait4 pointers after T is freed: del_transaction() clears those of the
\* submitting client and of the executor, and any other one dangles.
ClearWait4(T, w4, ex) ==
    [c \in Client |->
        IF w4[c] \notin T THEN w4[c]
        ELSE IF c = tclient[w4[c]] \/ c = ex[w4[c]] THEN None ELSE Freed]

\* del_transaction() of every member of T, from the given wait4 pointers,
\* executors, client queues, wait queues and input buffers.  The data is freed
\* too, also where it is the buffer a client's input is being read into.
del_transaction(T, w4, ex, rq, rp, wq, in) ==
    /\ tptransactions' = Without(tptransactions, T)
    /\ requests' = [c \in Client |-> Without(rq[c], T)]
    /\ replies' = [c \in Client |-> Without(rp[c], T)]
    /\ waitq' = [s \in Service |-> Without(wq[s], T)]
    /\ wait4' = ClearWait4(T, w4, ex)
    /\ buf' = [c \in Client |-> IF in[c] \in T THEN Freed ELSE in[c]]

\* svriowait() asserts that the client is not already waiting for input; hd is
\* the handler table when svr_next_command(c) is called.
svriowait(c, hd) == IF hd[c] = "none" THEN "up" ELSE "assert"

\* The fields of the transactions once those of T are freed: executors ex,
\* services sv and results rv for the ones that remain.
ClearFields(T, ex, sv, rv) ==
    /\ tclient' = [t \in Tran |-> IF t \in T THEN None ELSE tclient[t]]
    /\ executor' = [t \in Tran |-> IF t \in T THEN None ELSE ex[t]]
    /\ tsvc' = [t \in Tran |-> IF t \in T THEN None ELSE sv[t]]
    /\ rval' = [t \in Tran |-> IF t \in T THEN None ELSE rv[t]]

\* snd_reply(): write the reply, expect the caller's next command, stop it
\* waiting, delete the transaction.  hd is the handler table, w4 and ex the
\* pointers and in the buffers when it is called.
snd_reply(t, hd, w4, ex, in) ==
    LET c == tclient[t]
    IN  /\ out' = Wrote(c, Msg("reply", t, rval[t]))
        /\ handler' = [hd EXCEPT ![c] = "command"]
        /\ status' = svriowait(c, hd)
        /\ del_transaction({t}, [w4 EXCEPT ![c] = None], ex,
                           requests, replies, waitq, in)
        /\ ClearFields({t}, ex, tsvc, rval)

\* send_to_server(): worker c leaves the queues of all its services and meets
\* t.  (t stays where it is, on a wait queue or not.)
send_to_server(c, t, s, hd) ==
    /\ waitq' = remove_from_waitq(c, Offers(c))
    /\ wait4' = [wait4 EXCEPT ![c] = t]
    /\ executor' = [executor EXCEPT ![t] = c]
    /\ out' = Wrote(c, Msg("work", t, adverts[c][s]))
    /\ handler' = [hd EXCEPT ![c] = "command"]
    /\ status' = svriowait(c, hd)
    /\ serving' = [serving EXCEPT ![c] = TRUE]

--------------------------------------------------------------------------------
\* No client is connected and every table is empty.
Init ==
    /\ clients = {}
    /\ handler = [c \in Client |-> "none"]
    /\ buf = [c \in Client |-> None]
    /\ wait4 = [c \in Client |-> None]
    /\ adverts = [c \in Client |-> [s \in Service |-> None]]
    /\ requests = [c \in Client |-> <<>>]
    /\ replies = [c \in Client |-> <<>>]
    /\ services = {}
    /\ waitq = [s \in Service |-> <<>>]
    /\ wct = [s \in Service |-> FALSE]
    /\ tptransactions = <<>>
    /\ tclient = [t \in Tran |-> None]
    /\ tsvc = [t \in Tran |-> None]
    /\ executor = [t \in Tran |-> None]
    /\ rval = [t \in Tran |-> None]
    /\ serving = [c \in Client |-> FALSE]
    /\ out = Silent
    /\ status = "up"

\* Iowait has read all the input that client c's handler h needs.
Input(c, h) == status = "up" /\ c \in clients /\ handler[c] = h

\* The client table once Iowait has called c's handler: no input is expected.
Called(c) == [handler EXCEPT ![c] = "none"]

\* Iowait accepts a connection: new_client(), svr_next_command().
new_client(c) ==
    /\ status = "up"
    /\ c \notin clients
    /\ clients' = clients \cup {c}
    /\ handler' = [handler EXCEPT ![c] = "command"]
    /\ out' = Silent
    /\ UNCHANGED <<buf, wait4, callVars, serviceVars, tranVars, serving, status>>

\* An answer that needs nothing but a status: write it, next command.
Answer(c, msg) ==
    /\ out' = Wrote(c, msg)
    /\ UNCHANGED <<connVars, callVars, serving, status>>

\* tpadvertise of s with routine f.  A second advertisement of the same service
\* by the same client must name the same routine.
svradvertise(c, s, f) ==
    /\ Input(c, "command") /\ c \in Workers
    /\ services' = services \cup {s}
    /\ adverts' = [adverts EXCEPT ![c][s] = IF @ = None THEN f ELSE @]
    /\ Answer(c, IF adverts[c][s] \in {None, f} THEN Msg("ok", None, None)
                 ELSE Msg("errno", None, "TPEMATCH"))
    /\ UNCHANGED <<waitq, wct, tranVars>>

\* tpacall of a service that nobody advertises, or with no memory left for a
\* transaction.
svracall_fails(c, s) ==
    /\ Input(c, "command") /\ c \in Callers
    /\ s \notin services \/ Live = Tran
    /\ Answer(c, Msg("errno", None, "TPENOENT"))
    /\ UNCHANGED <<serviceVars, tranVars>>

\* Mutant: the client and the service are swapped.
new_transaction_swapped(t, c, s) ==
    /\ tptransactions' = Append(tptransactions, t)
    /\ tclient' = [tclient EXCEPT ![t] = s]
    /\ tsvc' = [tsvc EXCEPT ![t] = c]
    /\ UNCHANGED <<executor, rval>>

\* new_transaction(): t is linked on the global list and filled in.
new_transaction(t, c, s) ==
    /\ tptransactions' = Append(tptransactions, t)
    /\ tclient' = [tclient EXCEPT ![t] = c]
    /\ tsvc' = [tsvc EXCEPT ![t] = s]
    /\ UNCHANGED <<executor, rval>>

\* Mutant: the request is put at the front of the client's requests.
svracall_front(c, s, t) ==
    /\ Input(c, "command") /\ c \in Callers
    /\ s \in services /\ t \notin Live
    /\ new_transaction(t, c, s)
    /\ requests' = [requests EXCEPT ![c] = <<t>> \o @]
    /\ out' = Wrote(c, Msg("cd", t, None))
    /\ handler' = [handler EXCEPT ![c] = "send_to_worker"]
    /\ buf' = [buf EXCEPT ![c] = t]
    /\ UNCHANGED <<clients, wait4, replies, serviceVars, serving, status>>

\* tpacall of s: the cd goes back and the request's data is awaited.
svracall(c, s, t) ==
    /\ Input(c, "command") /\ c \in Callers
    /\ s \in services /\ t \notin Live
    /\ new_transaction(t, c, s)
    /\ requests' = [requests EXCEPT ![c] = Append(@, t)]
    /\ out' = Wrote(c, Msg("cd", t, None))
    /\ handler' = [handler EXCEPT ![c] = "send_to_worker"]
    /\ buf' = [buf EXCEPT ![c] = t]
    /\ UNCHANGED <<clients, wait4, replies, serviceVars, serving, status>>

\* The data of c's most recent request is in.  Its service may be gone; else
\* the first waiting worker gets the request, or the request waits for one.
send_to_worker(c) ==
    LET t == LastOf(requests[c])
        s == tsvc[t]
        hd == [handler EXCEPT ![c] = "command"]
    IN  /\ Input(c, "send_to_worker")
        /\ \/ s = Freed /\ Down("freed")
           \/ /\ s \in Service
              /\ waitq[s] # <<>> /\ ~wct[s]
              /\ send_to_server(Head(waitq[s]), t, s, hd)
              /\ buf' = [buf EXCEPT ![c] = None]
              /\ UNCHANGED <<clients, callVars, adverts, services, wct,
                             tptransactions, tclient, tsvc, rval>>
           \/ /\ s \in Service
              /\ waitq[s] = <<>> \/ wct[s]
              /\ wct' = [wct EXCEPT ![s] = TRUE]
              /\ waitq' = [waitq EXCEPT ![s] = Append(@, t)]
              /\ handler' = hd
              /\ buf' = [buf EXCEPT ![c] = None]
              /\ out' = Silent
              /\ UNCHANGED <<clients, wait4, callVars, adverts, services, tranVars,
                             serving, status>>

--------------------------------------------------------------------------------
\* tpgetrply for cd, or for any cd (getany): whether a reply is there, which
\* one, and, when none is, whether one can still come.
HasReply(c, cd, getany) ==
    IF getany THEN replies[c] # <<>> ELSE cd \in Range(replies[c])
ExtantReply(c, cd, getany) == IF getany THEN Head(replies[c]) ELSE cd
Expected(c, cd, getany) == getany \/ cd \in Range(requests[c])

\* tpgetrply finds the reply there already.  (It may be under way to a second
\* worker: deleting the transaction then goes through its executor.)
svrgetrply_extant(c, cd, getany) ==
    LET t == ExtantReply(c, cd, getany)
    IN  /\ Input(c, "command") /\ c \in Callers
        /\ HasReply(c, cd, getany)
        /\ \/ Dangles({t}, [wait4 EXCEPT ![c] = None], executor) /\ Down("freed")
           \/ /\ ~Dangles({t}, [wait4 EXCEPT ![c] = None], executor)
              /\ snd_reply(t, Called(c), wait4, executor, buf)
              /\ UNCHANGED <<clients, adverts, services, wct, serving>>

\* tpgetrply for a cd that c has no call under, or that it will not wait for.
svrgetrply_fails(c, cd, getany, noblock) ==
    /\ Input(c, "command") /\ c \in Callers
    /\ ~HasReply(c, cd, getany)
    /\ noblock \/ ~Expected(c, cd, getany)
    /\ Answer(c, Msg("errno", None, IF Expected(c, cd, getany) THEN "TPEBLOCK"
                                    ELSE "TPEBADDESC"))
    /\ UNCHANGED <<serviceVars, tranVars>>

\* tpgetrply leaves the client hanging.
svrgetrply_waits(c, cd, getany) ==
    /\ Input(c, "command") /\ c \in Callers
    /\ ~HasReply(c, cd, getany)
    /\ Expected(c, cd, getany)
    /\ wait4' = [wait4 EXCEPT ![c] = IF getany THEN AnyTran ELSE cd]
    /\ handler' = Called(c)
    /\ out' = Silent
    /\ UNCHANGED <<clients, buf, callVars, serviceVars, tranVars, serving, status>>

--------------------------------------------------------------------------------
\* Mutant: the test of wait_contains_transactions is the wrong way round.
Pending_inverted(c) == {s \in Offers(c) : ~wct[s] /\ waitq[s] # <<>>}

\* The services of c on whose queue a transaction waits.
Pending(c) == {s \in Offers(c) : wct[s] /\ waitq[s] # <<>>}

\* The place of t in the order of arrival.
Arrival(t) == CHOOSE i \in DOMAIN tptransactions : tptransactions[i] = t

\* find_earliest() walks c's advertisements and moves on to each one whose
\* first transaction has a later arrival than the one it holds.
find_earliest(c) ==
    CHOOSE s \in Pending(c) :
        \A r \in Pending(c) : Arrival(Head(waitq[r])) <= Arrival(Head(waitq[s]))

\* tpservice with a transaction waiting for one of c's services.
svrservice_immediate(c) ==
    /\ Input(c, "command") /\ c \in Workers /\ ~serving[c]
    /\ Pending(c) # {}
    /\ LET s == find_earliest(c)
       IN  send_to_server(c, Head(waitq[s]), s, Called(c))
    /\ UNCHANGED <<clients, buf, callVars, adverts, services, wct,
                   tptransactions, tclient, tsvc, rval>>

\* tpservice with nothing to do: c waits on the queues of all its services.
svrservice_waits(c) ==
    /\ Input(c, "command") /\ c \in Workers /\ ~serving[c]
    /\ Pending(c) = {}
    /\ waitq' = add_to_waitq(c)
    /\ wct' = MarkWorkers(c)
    /\ handler' = Called(c)
    /\ out' = Silent
    /\ UNCHANGED <<clients, buf, wait4, callVars, adverts, services, tranVars,
                   serving, status>>

\* Mutant: the result is not stored.
svrreturn_noresult(c, rv) ==
    LET t == wait4[c]
    IN  /\ Input(c, "command") /\ serving[c]
        /\ \/ t = None /\ Down("null")
           \/ t = Freed /\ Down("freed")
           \/ /\ t \in Tran
              /\ buf' = [buf EXCEPT ![c] = t]
              /\ handler' = [handler EXCEPT ![c] = "part2"]
              /\ serving' = [serving EXCEPT ![c] = FALSE]
              /\ out' = Silent
              /\ UNCHANGED <<clients, wait4, callVars, serviceVars, tranVars, status>>

\* tpreturn, or the end of the service routine without it (rv = TPERRNO): the
\* result replaces the data of the transaction c is servicing.  The buffer is
\* reallocated, so it is gone for a client that was reading into it.
svrreturn(c, rv) ==
    LET t == wait4[c]
    IN  /\ Input(c, "command") /\ serving[c]
        /\ \/ t = None /\ Down("null")
           \/ t = Freed /\ Down("freed")
           \/ /\ t \in Tran
              /\ rval' = [rval EXCEPT ![t] = rv]
              /\ buf' = [d \in Client |-> IF d = c THEN t
                                          ELSE IF buf[d] = t THEN Freed ELSE buf[d]]
              /\ handler' = [handler EXCEPT ![c] = "part2"]
              /\ serving' = [serving EXCEPT ![c] = FALSE]
              /\ out' = Silent
              /\ UNCHANGED <<clients, wait4, callVars, serviceVars,
                             tptransactions, tclient, tsvc, executor, status>>

\* Mutant: t is not taken off the requests first.
QueueReply_twice(t) ==
    /\ replies' = [replies EXCEPT ![tclient[t]] = MoveToEnd(@, t)]
    /\ UNCHANGED requests

\* t goes to the end of its caller's replies.
QueueReply(t) ==
    /\ requests' = [requests EXCEPT ![tclient[t]] = Without(@, {t})]
    /\ replies' = [replies EXCEPT ![tclient[t]] = MoveToEnd(@, t)]

\* Mutant: only a caller that waits for any reply is answered.
Awaited_any(t, w4) == w4[tclient[t]] = AnyTran

\* The caller of t hangs for it, or for any reply.
Awaited(t, w4) == w4[tclient[t]] \in {AnyTran, t}

\* The data of c's result is in: the caller gets it if it waits for it, and
\* finds it among its replies otherwise.
part2(c) ==
    LET t == wait4[c]
        w4 == [wait4 EXCEPT ![c] = None]
        ex == [executor EXCEPT ![t] = None]
        hd == [handler EXCEPT ![c] = "command"]
        in == [buf EXCEPT ![c] = None]
    IN  /\ Input(c, "part2")
        /\ \/ /\ buf[c] # Freed => w4[tclient[t]] = Freed
              /\ Down("freed")
           \/ /\ buf[c] # Freed
              /\ w4[tclient[t]] # Freed /\ Awaited(t, w4)
              /\ snd_reply(t, hd, w4, ex, in)
              /\ UNCHANGED <<clients, adverts, services, wct, serving>>
           \/ /\ buf[c] # Freed
              /\ w4[tclient[t]] # Freed /\ ~Awaited(t, w4)
              /\ QueueReply(t)
              /\ wait4' = w4 /\ executor' = ex /\ handler' = hd /\ buf' = in
              /\ out' = Silent
              /\ UNCHANGED <<clients, serviceVars, tptransactions, tclient, tsvc,
                             rval, serving, status>>

--------------------------------------------------------------------------------
\* tpunadvertise of a service c does not advertise.
svrunadvertise_fails(c, s) ==
    /\ Input(c, "command") /\ c \in Retirers
    /\ s \notin Offers(c)
    /\ Answer(c, Msg("errno", None, "TPENOENT"))
    /\ UNCHANGED <<serviceVars, tranVars>>

\* tpunadvertise of s: del_advertisement(), with del_service() when c was the
\* last to advertise s, which deletes the transactions that wait for s.
svrunadvertise(c, s) ==
    LET gone == Deserted(c, {s})
        T == Stranded(gone)
    IN  /\ Input(c, "command") /\ c \in Retirers
        /\ s \in Offers(c)
        /\ \/ Dangles(T, wait4, executor) /\ Down("freed")
           \/ /\ ~Dangles(T, wait4, executor)
              /\ del_transaction(T, wait4, executor, requests, replies,
                                 remove_from_waitq(c, {s}), buf)
              /\ ClearFields(T, FreeExecutors(c, {s}, executor), FreeServices(gone), rval)
              /\ adverts' = [adverts EXCEPT ![c][s] = None]
              /\ services' = services \ gone
              /\ wct' = [r \in Service |-> wct[r] /\ r \notin gone]
              /\ out' = Wrote(c, Msg("ok", None, None))
              /\ UNCHANGED <<clients, handler, serving, status>>

\* Mutant: nobody looks whether the client was executing something.
Executing_never(c) == FALSE

\* c was executing t = wait4[c] when its connection closed.
Executing(c) == wait4[c] \in Tran /\ executor[wait4[c]] = c

\* del_client(): the connection has closed, or sent what is not expected.  The
\* transaction c was executing fails, and goes to its caller if that waits for
\* it by cd: the other test, for a caller that waits for any reply, is against
\* the address of a local variable.  Then c's advertisements go, with the
\* services nobody else offers, and c's own transactions.
del_client(c) ==
    LET t == wait4[c]
        fails == Executing(c)
        caller == tclient[t]
        w4 == IF fails THEN [wait4 EXCEPT ![c] = None] ELSE wait4
        ex == IF fails THEN [executor EXCEPT ![t] = None] ELSE executor
        rv == IF fails THEN [rval EXCEPT ![t] = "TPERRNO"] ELSE rval
        answered == fails /\ w4[caller] = t
        w4a == IF answered THEN [w4 EXCEPT ![caller] = None] ELSE w4
        rq == IF fails THEN [requests EXCEPT ![caller] = Without(@, {t})] ELSE requests
        rp == IF fails THEN [replies EXCEPT ![caller] = MoveToEnd(@, t)] ELSE replies
        gone == Deserted(c, Offers(c))
        failed == IF answered THEN {t} ELSE {}
        others == failed \cup Stranded(gone)
        own == (Range(rq[c]) \cup Range(rp[c])) \ others
        T == others \cup own
        exa == FreeExecutors(c, Offers(c), ex)
    IN  /\ status = "up" /\ c \in clients
        /\ \/ /\ \/ buf[c] = Freed \/ t = Freed
                 \/ t \in Tran /\ executor[t] = Freed
                 \/ fails /\ w4[caller] = Freed
                 \/ Dangles(others, w4a, ex) \/ Dangles(own, w4a, exa)
              /\ Down("freed")
           \/ /\ buf[c] # Freed /\ t # Freed
              /\ t \in Tran => executor[t] # Freed
              /\ fails => w4[caller] # Freed
              /\ ~Dangles(others, w4a, ex) /\ ~Dangles(own, w4a, exa)
              /\ del_transaction(T, [w4a EXCEPT ![c] = None], ex, rq, rp,
                                 remove_from_waitq(c, Offers(c)), [buf EXCEPT ![c] = None])
              /\ ClearFields(T, exa, FreeServices(gone), rv)
              /\ clients' = clients \ {c}
              /\ adverts' = [adverts EXCEPT ![c] = [s \in Service |-> None]]
              /\ services' = services \ gone
              /\ wct' = [s \in Service |-> wct[s] /\ s \notin gone]
              /\ serving' = [serving EXCEPT ![c] = FALSE]
              /\ IF answered
                 THEN /\ out' = Wrote(caller, Msg("reply", t, "TPERRNO"))
                      /\ handler' = [handler EXCEPT ![c] = "none", ![caller] = "command"]
                      /\ status' = svriowait(caller, handler)
                 ELSE /\ out' = Silent
                      /\ handler' = [handler EXCEPT ![c] = "none"]
                      /\ UNCHANGED status

\* A client exits, or its process dies.
Quit(c) == c \in Quitters /\ del_client(c)

Next ==
    \E c \in Client :
        \/ new_client(c)
        \/ \E s \in Service : \E f \in Func : svradvertise(c, s, f)
        \/ \E s \in Service : svrunadvertise_fails(c, s) \/ svrunadvertise(c, s)
        \/ \E s \in Service : svracall_fails(c, s)
        \/ \E s \in Service : \E t \in Tran : svracall(c, s, t)
        \/ send_to_worker(c)
        \/ \E cd \in Tran : \E getany \in BOOLEAN :
              \/ svrgetrply_extant(c, cd, getany)
              \/ svrgetrply_waits(c, cd, getany)
              \/ \E noblock \in BOOLEAN : svrgetrply_fails(c, cd, getany, noblock)
        \/ svrservice_immediate(c)
        \/ svrservice_waits(c)
        \/ \E rv \in Results : svrreturn(c, rv)
        \/ part2(c)
        \/ Quit(c)

Spec == Init /\ [][Next]_vars

--------------------------------------------------------------------------------
\* Every table holds what its struct declares, or a null or freed pointer where
\* the code leaves one.
TypeOK ==
    /\ clients \subseteq Client
    /\ handler \in [Client -> {"none", "command", "send_to_worker", "part2"}]
    /\ buf \in [Client -> Tran \cup {None, Freed}]
    /\ wait4 \in [Client -> Tran \cup {None, AnyTran, Freed}]
    /\ adverts \in [Client -> [Service -> Func \cup {None}]]
    /\ requests \in [Client -> Seq(Tran)]
    /\ replies \in [Client -> Seq(Tran)]
    /\ services \subseteq Service
    /\ waitq \in [Service -> Seq(Client \cup Tran)]
    /\ wct \in [Service -> BOOLEAN]
    /\ tptransactions \in Seq(Tran)
    /\ tclient \in [Tran -> Client \cup {None}]
    /\ tsvc \in [Tran -> Service \cup {None, Freed}]
    /\ executor \in [Tran -> Client \cup {None, Freed}]
    /\ rval \in [Tran -> Rval \cup {None}]
    /\ serving \in [Client -> BOOLEAN]
    /\ out \in [Client -> Messages]
    /\ status \in {"up", "null", "freed", "assert"}

\* The properties below are about a switchboard that runs as written.
Up == status = "up"

\* A client has been left hanging: it gets no input handler until the
\* switchboard has something for it.
Hanging(c) == c \in clients /\ handler[c] = "none"

\* A client waits for work on the queue of a service.
Idle(c, s) == c \in Range(waitq[s])

\* server.h: "the wait queue contains either clients, which are waiting to do
\* work for this service, or transactions": never both, and the flag
\* wait_contains_transactions tells which.
WaitqHomogeneous ==
    Up => \A s \in Service : \A x \in Range(waitq[s]) :
              IF wct[s] THEN x \in Live /\ tsvc[x] = s
                        ELSE x \in clients /\ s \in Offers(x)

\* A worker waits on the queues of all the services it advertises or of none,
\* and one that waits has no other input outstanding (send_to_server: "client
\* must already be waiting for service request").
WaitsEverywhere ==
    Up => \A c \in clients : \A s \in Service :
              Idle(c, s) => Hanging(c) /\ \A r \in Offers(c) : Idle(c, r)

\* No worker waits for a service while a transaction is queued for it.
NoIdleWorkerForQueued ==
    Up => \A c \in clients : \A s \in Offers(c) :
              (\E r \in Service : Idle(c, r)) => Range(waitq[s]) \cap Live = {}

\* Every transaction is on one list of the client that submitted it, which is
\* still connected: the requests or the replies.
TransactionsOwned ==
    Up => /\ \A c \in Client : \A t \in Range(requests[c]) :
                t \in Live /\ tclient[t] = c /\ t \notin Range(replies[c])
          /\ \A c \in Client : \A t \in Range(replies[c]) : t \in Live /\ tclient[t] = c
          /\ \A t \in Live :
                /\ tclient[t] \in clients
                /\ t \in Range(requests[tclient[t]]) \cup Range(replies[tclient[t]])

\* A service is in the tree exactly while somebody advertises it.
ServicesAdvertised == Up => services = {s \in Service : Advertisers(s) # {}}

\* The transaction that send_to_worker takes up, the most recent one on the
\* client's requests, is the one whose data was being read.
MostRecentIsRead ==
    Up => \A c \in Client :
              handler[c] = "send_to_worker" =>
                  requests[c] # <<>> /\ buf[c] = LastOf(requests[c])

\* A caller that hangs for one cd hangs for a request: its reply is not already
\* among the replies, where nothing would wake the caller for it.
NoMissedReply ==
    Up => \A c \in Client :
              Hanging(c) /\ wait4[c] \in Live /\ tclient[wait4[c]] = c =>
                  wait4[c] \in Range(requests[c])

\* A transaction among the replies has a result.
RepliesCompleted ==
    Up => \A c \in Client : \A t \in Range(replies[c]) : rval[t] # None

\* Worker d has t in hand: it is in the service routine, or its result is being read.
InHand(d, t) ==
    /\ wait4[d] = t
    /\ \/ handler[d] = "command" /\ serving[d]
       \/ handler[d] = "part2"

\* Somebody will see to request t of client c: the client, whose data is still being
\* read, a worker that takes it off a wait queue, or the worker that has it in hand
\* and that del_client() will find to be its executor, unless the advertisement that
\* executor points to has been freed.
Attended(c, t) ==
    \/ handler[c] = "send_to_worker" /\ buf[c] = t
    \/ \E s \in Service : t \in Range(waitq[s])
    \/ \E d \in Workers : InHand(d, t) /\ executor[t] \in {d, Freed}

\* No request is forgotten, so that a caller that hangs for it does so for something
\* that is under way, as long as no service routine makes calls of its own (wait4 is
\* both what a worker services and what a caller waits for, server.h).
NoneForgotten ==
    Up /\ Callers \cap Workers = {} =>
        \A c \in Client : \A t \in Range(requests[c]) : Attended(c, t)

\* Not everyone waits for everyone: while a caller hangs with a request outstanding, the
\* switchboard expects input from another client, a worker that has the request in hand
\* or that advertises its service.  (Under the same condition.)
NotAllWait ==
    Up /\ Callers \cap Workers = {} =>
        \A c \in Client : Hanging(c) => \A t \in Range(requests[c]) :
            \E d \in Workers : /\ d \in clients /\ ~Hanging(d)
                               /\ InHand(d, t) \/ tsvc[t] \in Offers(d)

\* A transaction that is deleted has had its reply written to its caller, or has
\* lost its caller or its service.
Accounted ==
    \A t \in Live :
        t \notin Range(tptransactions') =>
            \/ out'[tclient[t]] \in {Msg("reply", t, v) : v \in Rval}
            \/ tclient[t] \notin clients'
            \/ tsvc[t] \in services \ services'

\* A transaction is deleted only when its reply is written to its caller, when
\* the caller goes, or when its service goes: no worker's end loses it.
TransactionFate == [][Accounted]_vars

--------------------------------------------------------------------------------
(* The inductive invariant: what the handlers rely on between two messages.  *)

\* A client that is not connected offers nothing, waits for nothing and has no handler.
Disconnected ==
    \A c \in Client \ clients :
        Offers(c) = {} /\ handler[c] = "none" /\ wait4[c] = None

\* A pointer to a transaction that is neither null nor freed points to a live one.
PointersLive ==
    /\ \A c \in Client : wait4[c] \in Tran => wait4[c] \in Live
    /\ \A c \in Client : buf[c] \in Tran => buf[c] \in Live

\* A transaction whose data is still being read is the client's most recent one
\* and nobody else has got hold of it.
Reading ==
    \A c \in Client :
        handler[c] = "send_to_worker" =>
            /\ requests[c] # <<>> /\ buf[c] = LastOf(requests[c])
            /\ \A d \in Client : wait4[d] # buf[c]
            /\ \A s \in Service : buf[c] \notin Range(waitq[s])

\* A result that is being read is that of the transaction its worker services.
Returning ==
    \A c \in Client :
        handler[c] = "part2" /\ buf[c] # Freed =>
            buf[c] \in Tran /\ buf[c] = wait4[c] /\ rval[buf[c]] # None

\* A client that is neither in a service routine nor hanging in tpgetrply waits
\* for no transaction; a worker on a wait queue is such a client.
Quiet ==
    \A c \in Client :
        /\ handler[c] \in {"command", "send_to_worker"} /\ ~serving[c] => wait4[c] = None
        /\ \A s \in Service :
              Idle(c, s) => /\ handler[c] = "none" /\ wait4[c] = None
                            /\ \A r \in Offers(c) : Idle(c, r)

\* All of it together: between two messages every table and every pointer is as
\* the handlers expect it.  The conjuncts are only preserved together.
IndInv ==
    /\ TypeOK
    /\ WaitqHomogeneous /\ TransactionsOwned /\ ServicesAdvertised
    /\ NoMissedReply /\ RepliesCompleted
    /\ Up => Disconnected /\ PointersLive /\ Reading /\ Returning /\ Quiet

\* Who does what: only workers advertise, and only callers have transactions.
Roles ==
    /\ \A d \in Client \ Workers : Offers(d) = {}
    /\ \A t \in Live : tclient[t] \in Callers

\* A worker from which no input is expected waits for work, for whatever it advertises.
Resting ==
    Up /\ Callers \cap Workers = {} =>
        \A d \in Workers : handler[d] = "none" => \A s \in Offers(d) : Idle(d, s)

\* A transaction's service exists, or has been freed under it.
ServiceKnown == \A t \in Live : tsvc[t] \in services \cup {Freed}

\* What a request that is not forgotten rests on besides IndInv.
AttendInv == Roles /\ Resting /\ ServiceKnown /\ NoneForgotten

--------------------------------------------------------------------------------
(* What comments and assertions of the code say and the code does not keep.  *)

\* svrservice.c: find_earliest "returns advertisement for earlest transaction
\* we can service": of the transactions first on the queues of the worker's
\* services, the worker gets the one that arrived first.
EarliestFirst ==
    [][\A c \in Client :
          handler[c] = "command" /\ ~serving[c] /\ serving'[c] =>
              \A s \in Pending(c) : Arrival(wait4'[c]) <= Arrival(Head(waitq[s]))]_vars

\* server.h: wait4 is the "transaction we are servicing (worker)": when the
\* service routine returns, the transaction its result belongs to is there.
ServicedIsKnown ==
    Up => \A c \in clients :
              serving[c] /\ handler[c] = "command" => wait4[c] \in Live

\* server.h: wait4 is the transaction a client is "waiting for": a caller that
\* was left hanging by svrgetrply waits for something that is still there.
AwaitedIsKnown ==
    Up => \A c \in Callers \ Workers : Hanging(c) => wait4[c] \in Live \cup {AnyTran}

\* client.c: global_any_transaction is "also used in svrgetreply", so a failed
\* transaction goes to a caller that waits for any reply.
AnyReplyIsSent ==
    Up => \A c \in Client : wait4[c] = AnyTran => replies[c] = <<>>
================================================================================
