\* Two sessions INSERT through the Hadoop catalog at the same time.
\* When both are done nothing is left to do.
SPECIFICATION IceSpec
CONSTANTS
    Stmts = {1, 2, 3, 4}
    MaxRetries = 1
    Workloads <- HadoopPair
INVARIANTS AckedKept
CHECK_DEADLOCK FALSE
