--------------------------------- MODULE Calls ---------------------------------
(***************************************************************************)
(* What the switchboard promises the programs that call services, without  *)
(* workers, wait queues and pointers.  A call belongs to the client that   *)
(* made it.  It is pending until it is finished, it is never pending       *)
(* again, and it ends with one reply, which goes to that client.  It ends  *)
(* without a reply only when its service is withdrawn or its client        *)
(* leaves.                                                                 *)
(***************************************************************************)
CONSTANTS
    Client, Service, Tran,
    None,   \* the service of what is no call
    Gone    \* the service of a call that has outlived its service

VARIABLES
    connected,   \* the clients
    offered,     \* the services
    target,      \* the service of each call
    pending,     \* the calls of each client that are not finished
    finished,    \* its calls whose reply it has yet to collect
    sent         \* the replies that the last step sent, and to whom

vars == <<connected, offered, target, pending, finished, sent>>

CallsOf(c) == pending[c] \cup finished[c]

Init ==
    /\ connected = {} /\ offered = {}
    /\ target = [t \in Tran |-> None]
    /\ pending = [c \in Client |-> {}]
    /\ finished = [c \in Client |-> {}]
    /\ sent = {}

\* The calls of F are finished, and the services of S and the calls of T end.
End(S, T, F) ==
    /\ offered' = offered \ S
    /\ target' = [t \in Tran |-> IF t \in T THEN None
                                 ELSE IF target[t] \in S THEN Gone ELSE target[t]]
    /\ pending' = [c \in Client |-> pending[c] \ (T \cup F)]
    /\ finished' = [c \in Client |-> (finished[c] \cup (pending[c] \cap F)) \ T]

\* The calls of T were made to services of S.
Made(T, S) == \A t \in T : target[t] \in S \cap offered

\* Clients come and services are offered: nothing that concerns calls.
Other ==
    /\ connected \subseteq connected' /\ offered \subseteq offered'
    /\ sent' = {}
    /\ UNCHANGED <<target, pending, finished>>

\* A new call, which nobody else has.
Call(c, s, t) ==
    /\ c \in connected /\ s \in offered
    /\ \A d \in Client : t \notin CallsOf(d)
    /\ target' = [target EXCEPT ![t] = s]
    /\ pending' = [pending EXCEPT ![c] = @ \cup {t}]
    /\ sent' = {}
    /\ UNCHANGED <<connected, offered, finished>>

\* The call is finished, and its client does not wait for it.
Finish(c, t) ==
    /\ t \in pending[c]
    /\ End({}, {}, {t})
    /\ sent' = {}
    /\ UNCHANGED connected

\* The client gets its reply.
Reply(c, t) ==
    /\ t \in CallsOf(c)
    /\ End({}, {t}, {})
    /\ sent' = {<<c, t>>}
    /\ UNCHANGED connected

\* Services are withdrawn, with calls that were made to them.
Withdraw(S, T) ==
    /\ Made(T, S)
    /\ End(S, T, {})
    /\ sent' = {}
    /\ UNCHANGED connected

\* A client leaves with its own calls and, as above, with services.  The call that
\* it executes, the member of F, fails: it is finished now, or its reply is sent.
Leave(c, S, T, F) ==
    /\ connected' = connected \ {c}
    /\ CallsOf(c) \subseteq T
    /\ \A t, u \in F : t = u
    /\ End(S, T, F)
    /\ \/ Made(T \ CallsOf(c), S) /\ sent' = {}
       \/ \E d \in Client : \E t \in F \cap T \cap CallsOf(d) :
             Made(T \ (CallsOf(c) \cup {t}), S) /\ sent' = {<<d, t>>}

Next ==
    \/ Other
    \/ \E c \in Client, t \in Tran :
          Finish(c, t) \/ Reply(c, t) \/ \E s \in Service : Call(c, s, t)
    \/ \E S \in SUBSET Service, T \in SUBSET Tran :
          Withdraw(S, T) \/ \E c \in Client, F \in SUBSET Tran : Leave(c, S, T, F)

Spec == Init /\ [][Next]_vars
================================================================================
