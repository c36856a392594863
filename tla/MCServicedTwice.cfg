\* A caller, one worker, one transaction; nobody exits or makes nested calls.
SPECIFICATION Spec
CONSTANTS
    None = None
    AnyTran = AnyTran
    Freed = Freed
    Client = {a, w}
    Service = {s1}
    Tran = {t1}
    Func = {f}
    Callers = {a}
    Workers = {w}
    Retirers = {}
    Quitters = {}
    Results = {"TPSUCCESS"}
SYMMETRY TranSymmetry
INVARIANT
    ServicedIsKnown
CHECK_DEADLOCK FALSE
