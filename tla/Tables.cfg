\* An Iceberg table under one of its workloads; or a managed-lake table whose engine
\* is reopened, or that a TRUNCATE and the erase worker change.
\* A server with nothing left to do idles.
SPECIFICATION TablesSpec
CONSTANTS
    a = a
    b = b
    w1 = w1
    w2 = w2
    Tablets = {a, b}
    Writers = {w1}
    MaxTxns = 2
    MaxParts = 2
    Budgets <- SomeBudgets
    Stmts = {1, 2, 3, 4, 5}
    MaxRetries = 1
    Workloads <- SomeWorkloads
INVARIANTS ActiveReadable IceTypeOK AckedKept NoDanglingFiles RowIdsUnique
PROPERTIES MainIsVersioned OpenSettles Recovers EraseCompletes TxnsSettle
CHECK_DEADLOCK FALSE
