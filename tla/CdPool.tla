-------------------------------- MODULE CdPool --------------------------------
(***************************************************************************)
(* The call descriptors of new_transaction().  A cd is the next random     *)
(* number of a list, free_cd, which is filled anew when it is used up and  *)
(* pruned of the cds of current transactions.  Module Switchboard takes a  *)
(* transaction and its cd to be the same; this module is about how far     *)
(* that is so.  Nothing keeps rand() from giving a number twice in one     *)
(* filling; fillings and filling remember which filling a cd is from.      *)
(*                                                                         *)
(* The search for an entry that is not zero reads the short that follows   *)
(* the list before it fills it.  When that short is not zero it is taken   *)
(* for an entry and the process goes on with memory it does not own:       *)
(* status is then "overrun" and nothing is said of what follows.           *)
(***************************************************************************)
EXTENDS Integers, FiniteSets, FiniteSetsExt

CONSTANTS
    Tran,          \* transactions
    NUM_FREE_CD,   \* the length of the list
    Short,         \* the numbers rand() gives, cut down to a short; 0 may be one
    MaxFillings    \* bound: how often the list is filled

ASSUME CdPoolConstants ==
    /\ NUM_FREE_CD \in Nat \ {0}
    /\ Short \subseteq Int
    /\ MaxFillings \in Nat
    /\ IsFiniteSet(Tran)

VARIABLES
    free_cd,   \* the list
    cdp,       \* the place in the list
    live,      \* tptransactions
    cd,        \* tptransaction.cd
    fillings,  \* history: how often the list has been filled
    filling,   \* history: the filling that each cd is from
    status     \* "up" or "overrun"

vars == <<free_cd, cdp, live, cd, fillings, filling, status>>

Index == 0 .. NUM_FREE_CD - 1

\* The list is empty when the process starts.
Init ==
    /\ free_cd = [i \in Index |-> 0]
    /\ cdp = 0
    /\ live = {}
    /\ cd = [t \in Tran |-> 0]
    /\ fillings = 0 /\ filling = [t \in Tran |-> 0]
    /\ status = "up"

\* The entries of list from place p on that the search would stop at.
Left(list, p) == {i \in Index : p <= i /\ list[i] # 0}

\* The lists that rand() may give, with or without repetitions.
Filled == [Index -> Short]

\* Mutant: the list is not pruned.
Pruned_never(r) == r

\* The entries that are cds of current transactions are zeroed.
Pruned(r) == [i \in Index |-> IF \E t \in live : cd[t] = r[i] THEN 0 ELSE r[i]]

\* The transaction takes the first entry of the list that is left.
Take(t, list, p) ==
    LET i == Min(Left(list, p))
    IN  /\ cd' = [cd EXCEPT ![t] = list[i]]
        /\ free_cd' = [list EXCEPT ![i] = 0]
        /\ cdp' = i + 1

\* new_transaction(): from the list as it is; or from a new one, where a filling
\* that pruning leaves empty is filled again at once; or from past its end.
next_cd(t) ==
    /\ status = "up" /\ t \notin live
    /\ Left(free_cd, cdp) # {}
    /\ Take(t, free_cd, cdp)
    /\ live' = live \cup {t}
    /\ filling' = [filling EXCEPT ![t] = fillings]
    /\ UNCHANGED <<fillings, status>>
refill(t) ==
    /\ status = "up" /\ t \notin live
    /\ Left(free_cd, cdp) = {} /\ fillings < MaxFillings
    /\ \E r \in Filled : Left(Pruned(r), 0) # {} /\ Take(t, Pruned(r), 0)
    /\ live' = live \cup {t}
    /\ fillings' = fillings + 1
    /\ filling' = [filling EXCEPT ![t] = fillings + 1]
    /\ UNCHANGED status
overrun(t) ==
    /\ status = "up" /\ t \notin live
    /\ Left(free_cd, cdp) = {}
    /\ status' = "overrun"
    /\ UNCHANGED <<free_cd, cdp, live, cd, fillings, filling>>

del_transaction(t) ==
    /\ status = "up" /\ t \in live
    /\ live' = live \ {t}
    /\ UNCHANGED <<free_cd, cdp, cd, fillings, filling, status>>

Next == \E t \in Tran : next_cd(t) \/ refill(t) \/ overrun(t) \/ del_transaction(t)

Spec == Init /\ [][Next]_vars

--------------------------------------------------------------------------------
\* The cds of current transactions are equal only where one filling of the list had a
\* number twice: what new_transaction() gives out is never the cd of a transaction
\* that was there when the list was filled, however old that one is.
FillingsApart ==
    status = "up" => \A t, u \in live : cd[t] = cd[u] => filling[t] = filling[u]

\* The entries that are still to be given out differ from the cds of all fillings
\* before.  This is what carries FillingsApart from one filling to the next.
LeftApart ==
    status = "up" =>
        \A i \in Left(free_cd, cdp) : \A t \in live :
            cd[t] = free_cd[i] => filling[t] = fillings

\* transaction.c: cds are "unique over all current transactions", so that svrgetrply
\* finds the transaction that the client means.
UniqueCds ==
    status = "up" => \A t, u \in live : cd[t] = cd[u] => t = u
================================================================================
