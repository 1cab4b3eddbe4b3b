\* Two sessions insert at the same time.
\* A server with nothing left to do idles.
SPECIFICATION Spec
CONSTANTS
    a = a
    b = b
    w1 = w1
    w2 = w2
    Tablets = {a, b}
    Writers = {w1, w2}
    MaxTxns = 2
    MaxParts = 1
    Budgets <- PairBudget
INVARIANTS ReadsOnlyVisible
CHECK_DEADLOCK FALSE
