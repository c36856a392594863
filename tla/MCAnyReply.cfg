\* A caller that waits for any reply and a worker that exits.
SPECIFICATION Spec
CONSTANTS
    None = None
    AnyTran = AnyTran
    Freed = Freed
    Client = {a, w}
    Service = {s1}
    Tran = {t1}
    Func = {f}
    Callers = {a}
    Workers = {w}
    Retirers = {}
    Quitters = {w}
    Results = {"TPSUCCESS"}
SYMMETRY TranSymmetry
INVARIANT
    AnyReplyIsSent
CHECK_DEADLOCK FALSE
