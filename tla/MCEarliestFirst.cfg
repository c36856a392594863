\* A caller with a transaction queued for each of two services of one worker.
SPECIFICATION Spec
CONSTANTS
    None = None
    AnyTran = AnyTran
    Freed = Freed
    Client = {a, w}
    Service = {s1, s2}
    Tran = {t1, t2}
    Func = {f}
    Callers = {a}
    Workers = {w}
    Retirers = {}
    Quitters = {}
    Results = {"TPSUCCESS"}
SYMMETRY TranSymmetry
PROPERTY
    EarliestFirst
CHECK_DEADLOCK FALSE
