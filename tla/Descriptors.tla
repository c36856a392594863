------------------------------ MODULE Descriptors ------------------------------
(***************************************************************************)
(* Cds between the switchboard and its clients: the cds that CdPool gives  *)
(* out go over the wire as ByteOrder describes, the client keeps the int   *)
(* that tpacall() returns, and tpgetrply() sends it back to svrgetrply(),  *)
(* which looks for it among the transactions of this client.  This is what *)
(* entitles module Switchboard to name a transaction by its cd, as long as *)
(* no filling of the list has a number twice.                              *)
(***************************************************************************)
EXTENDS CdPool, ByteOrder

CONSTANT Client

VARIABLES
    owner,   \* tptransaction.client
    held     \* what tpacall() has returned for each transaction

dvars == <<vars, owner, held>>

DInit ==
    /\ Init
    /\ owner \in [Tran -> Client]
    /\ held = [t \in Tran |-> 0]

\* svracall() writes the cd of a new transaction and tpacall() returns it.
tpacall(c, t) ==
    /\ next_cd(t) \/ refill(t)
    /\ owner' = [owner EXCEPT ![t] = c]
    /\ held' = [held EXCEPT ![t] = toshort(writes(cd'[t]))]

\* The search goes past the end of the list.
tpacall_overrun(t) == overrun(t) /\ UNCHANGED <<owner, held>>

\* tpgetrply() writes the cd and svrgetrply() reads it into a short.
Asked(t) == Signed(toshort(writes(held[t])), SHORT)

\* The transactions of the client with the cd that the holder of t's cd asks for.
Found(t) == {u \in live : owner[u] = owner[t] /\ cd[u] = Asked(t)}

\* svrgetrply() replies and deletes the transaction it has found: the first one on
\* the client's replies, else the first on its requests when that is done.
svrgetrply(t) ==
    /\ t \in live
    /\ \E u \in Found(t) : del_transaction(u)
    /\ UNCHANGED <<owner, held>>

\* The transaction goes with its client or its service.
lost(t) == del_transaction(t) /\ UNCHANGED <<owner, held>>

DNext ==
    \E t \in Tran :
        \/ \E c \in Client : tpacall(c, t)
        \/ tpacall_overrun(t) \/ svrgetrply(t) \/ lost(t)

DSpec == DInit /\ [][DNext]_dvars

--------------------------------------------------------------------------------
\* A cd leads back: for the cd that tpacall() returned svrgetrply finds its
\* transaction, and beside it only ones whose cd is from the same filling of the list.
\* A reply is never mistaken for that of an older or a later filling.
LeadsBack ==
    status = "up" =>
        \A t \in live : t \in Found(t) /\ \A u \in Found(t) : filling[u] = filling[t]

\* What tpacall() returns for a call that was accepted is neither 0, which is no
\* cd, nor negative, which is an error.
CdIsNoError == status = "up" => \A t \in live : held[t] > 0
================================================================================
