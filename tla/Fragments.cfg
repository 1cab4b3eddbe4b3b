\* Queries and scans.
\* A query that is over, and a scan that is over, leave nothing to do.
SPECIFICATION FragmentsSpec
CONSTANTS
    ScanDrivers = {1, 2}
    MaxBuffered = 2
    TaskSlots = {1, 2, 3}
    ScanJobs <- SomeJobs
    Finsts = {1, 2}
    Root = 1
    QRequests = {1, 2}
    QPlans <- SomePlans
INVARIANTS ScanTypeOK ChunksKept SoloPlanScanned RangesOnce QTypeOK ContextHeld EosMeansAll
PROPERTIES ScanEnds CancelReaches ContextsReclaimed
CHECK_DEADLOCK FALSE
