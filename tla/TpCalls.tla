-------------------------------- MODULE TpCalls --------------------------------
(***************************************************************************)
(* The switchboard with the programs that the XATMI library and the        *)
(* examples write around it.  A caller makes one tpcall() after another:   *)
(* tpacall(), the data, then tpgetrply() for the cd it got, with no flags. *)
(* A worker advertises, then calls tpservice() for ever; tpservice()       *)
(* runs the service routine and returns its result.                        *)
(*                                                                         *)
(* The module is about progress.  Weak fairness is on the steps these      *)
(* programs take by themselves: select() reports every descriptor that has *)
(* input and Iowait visits all of them, so what a client has sent is read  *)
(* sooner or later; a caller inside tpcall() and a worker that has         *)
(* connected go on to their next message.  Nothing forces a client to      *)
(* connect, to start another call or to exit.                              *)
(***************************************************************************)
EXTENDS Switchboard

CONSTANT Repertoire   \* the services that the program of each worker has

ASSUME RepertoireAssumption == Repertoire \in [Workers -> SUBSET Service]

VARIABLE calling   \* the cd in tpcall() between its tpacall() and its tpgetrply()

cvars == <<vars, calling>>

CallInit == Init /\ calling = [c \in Client |-> None]

\* The memory malloc() gives for a transaction: some that is free, no matter which.
Fresh == CHOOSE t \in Tran : t \notin Live

\* tpcall(): tpacall() first.  If that fails tpcall() returns; and it returns as well if
\* its caller has no room for a reply (*olen is 0), because tpgetrply() then writes
\* nothing: the transaction stays.
tpcall_begins(c) ==
    /\ calling[c] = None
    /\ \E s \in Service :
          \/ svracall_fails(c, s) /\ UNCHANGED calling
          \/ /\ Live # Tran /\ svracall(c, s, Fresh)
             /\ \E cd \in {Fresh, None} : calling' = [calling EXCEPT ![c] = cd]

\* Then tpgetrply() for that cd: the reply is there, or c is left hanging, or the
\* transaction has gone with its service.
tpcall_collects(c) ==
    /\ calling[c] # None
    /\ \/ svrgetrply_extant(c, calling[c], FALSE)
       \/ svrgetrply_waits(c, calling[c], FALSE)
       \/ svrgetrply_fails(c, calling[c], FALSE, FALSE)
    /\ calling' = [calling EXCEPT ![c] = None]

\* The server's main program: tpadvertise() of all its services, then tpservice() for ever.
advertises(c) ==
    /\ c \in Workers
    /\ \E s \in Repertoire[c] \ Offers(c) : \E f \in Func : svradvertise(c, s, f)
tpservice(c) ==
    /\ c \in Workers /\ Repertoire[c] = Offers(c)
    /\ svrservice_immediate(c) \/ svrservice_waits(c)
returns(c) == \E rv \in Results : svrreturn(c, rv)

exits(c) == Quit(c) /\ calling' = [calling EXCEPT ![c] = None]

\* The steps of a program that has begun, and of the switchboard on its behalf.  No two
\* of them can be taken in the same state.
goes_on(c) ==
    \/ tpcall_collects(c)
    \/ /\ \/ send_to_worker(c) \/ advertises(c) \/ tpservice(c) \/ returns(c) \/ part2(c)
       /\ UNCHANGED calling

CallNext ==
    \E c \in Client :
        \/ new_client(c) /\ UNCHANGED calling
        \/ tpcall_begins(c) \/ goes_on(c) \/ exits(c)

Fairness == \A c \in Client : WF_cvars(goes_on(c))

CallSpec == CallInit /\ [][CallNext]_cvars /\ Fairness

--------------------------------------------------------------------------------
\* While c hangs for a call, a worker is given another transaction out of turn: one of
\* another service that arrived later, which find_earliest() prefers, or one that has
\* been serviced before, which stays first on its queue until its reply is collected.
Overtaken(c) ==
    /\ Hanging(c) /\ wait4[c] \in Live
    /\ \E d \in Workers :
          LET t == wait4'[d]
          IN  /\ ~serving[d] /\ serving'[d] /\ t # wait4[c]
              /\ \/ tsvc[t] # tsvc[wait4[c]] /\ Arrival(wait4[c]) < Arrival(t)
                 \/ rval[t] # None

\* tpcall() returns: a caller that svrgetrply left hanging is answered, unless its
\* service goes away with the last worker that advertises it, or the process goes
\* down, or its call is overtaken for ever: the calls of one service are answered in
\* turn, if their replies are collected (svrservice.c, svrreturn.c, client.c).
TpcallReturns ==
    \A c \in Callers :
        \/ Hanging(c) ~> handler[c] = "command" \/ wait4[c] \notin Live \/ ~Up
        \/ []<><<Overtaken(c)>>_cvars
================================================================================
