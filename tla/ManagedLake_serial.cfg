\* Two sessions that do not insert at the same time, a TRUNCATE, a DROP, the erase worker,
\* a failure of each kind, a crash and a reopen.  A server with nothing left to do idles.
SPECIFICATION CalmSpec
CONSTANTS
    a = a
    b = b
    w1 = w1
    w2 = w2
    Tablets = {a, b}
    Writers = {w1, w2}
    MaxTxns = 2
    MaxParts = 2
    Budgets <- SerialBudgets
INVARIANTS TypeOK VisibleTxnWhole AckedRowsKept ReadsOnlyVisible
PROPERTIES SnapshotsStable
SYMMETRY Symmetry
CHECK_DEADLOCK FALSE
