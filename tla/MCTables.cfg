\* A caller, a worker, and a client that is both: its service routines make calls of
\* their own, and it may withdraw its service.  The caller and that client may exit and
\* come back.
SPECIFICATION Spec
CONSTANTS
    None = None
    AnyTran = AnyTran
    Freed = Freed
    Client = {a, v, w}
    Service = {s1}
    Tran = {t1, t2}
    Func = {f}
    Callers = {a, v}
    Workers = {v, w}
    Retirers = {v}
    Quitters = {a, v}
    Results = {"TPSUCCESS"}
SYMMETRY TranSymmetry
INVARIANTS
    TypeOK
    NoIdleWorkerForQueued
    WaitqHomogeneous
    TransactionsOwned
    ServicesAdvertised
    MostRecentIsRead
    NoMissedReply
    RepliesCompleted
    IndInv
PROPERTIES
    TransactionFate
    ImplementsCalls
CHECK_DEADLOCK FALSE
