\* One driver with one task and one chunk, or with two tasks.
\* A scan that is over has nothing left to do.
SPECIFICATION ScanSpec
CONSTANTS
    ScanDrivers = {1}
    MaxBuffered = 2
    TaskSlots = {1, 2, 3}
    ScanJobs <- LossyJobs
INVARIANTS NoRowsDropped
CHECK_DEADLOCK FALSE
