\* Two callers and a worker of two services, which may exit and come back; no symmetry.
SPECIFICATION CallSpec
CONSTANTS
    None = None
    AnyTran = AnyTran
    Freed = Freed
    Client = {a, b, w}
    Service = {s1, s2}
    Tran = {t1, t2}
    Func = {f}
    Callers = {a, b}
    Workers = {w}
    Retirers = {}
    Quitters = {w}
    Results = {"TPSUCCESS"}
    Repertoire <- MCRepertoire
INVARIANTS
    WaitsEverywhere
    NoneForgotten
    NotAllWait
PROPERTY
    TpcallReturns
CHECK_DEADLOCK FALSE
