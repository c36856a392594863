\* Two transactions of one client, and one filling of the list.
SPECIFICATION DSpec
CONSTANTS
    Tran = {t1, t2}
    Client = {a}
    NUM_FREE_CD = 2
    Short <- MCShort
    MaxFillings = 1
    BYTE = 4
INVARIANT
    UniqueCds
CHECK_DEADLOCK FALSE
