\* A list of two, filled up to three times, and up to three transactions of two clients, so
\* that the list is used up while they last.
SPECIFICATION DSpec
CONSTANTS
    Tran = {t1, t2, t3}
    Client = {a, b}
    NUM_FREE_CD = 2
    Short <- MCShort
    MaxFillings = 3
    BYTE = 4
SYMMETRY TranSymmetry
INVARIANTS
    FillingsApart
    LeadsBack
    CdIsNoError
CHECK_DEADLOCK FALSE
