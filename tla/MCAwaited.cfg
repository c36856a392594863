\* A caller and a worker that stops advertising.
SPECIFICATION Spec
CONSTANTS
    None = None
    AnyTran = AnyTran
    Freed = Freed
    Client = {a, w}
    Service = {s1}
    Tran = {t1}
    Func = {f}
    Callers = {a}
    Workers = {w}
    Retirers = {w}
    Quitters = {}
    Results = {"TPSUCCESS"}
SYMMETRY TranSymmetry
INVARIANT
    AwaitedIsKnown
CHECK_DEADLOCK FALSE
