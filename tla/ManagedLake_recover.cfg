\* One INSERT and one crash.
\* A server with nothing left to do idles.
SPECIFICATION FairSpec
CONSTANTS
    a = a
    b = b
    w1 = w1
    w2 = w2
    Tablets = {a, b}
    Writers = {w1}
    MaxTxns = 1
    MaxParts = 1
    Budgets <- CrashBudget
PROPERTIES Recovers
CHECK_DEADLOCK FALSE
