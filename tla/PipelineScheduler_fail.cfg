\* Two drivers on two workers; operators fail or panic, the query is cancelled, the
\* probe side has no observable and asynchronous I/O under way.
\* The fragment may stop: it is over, or the abort missed a parked driver.
SPECIFICATION Spec
CONSTANTS
    build = build
    probe = probe
    Drivers = {build, probe}
    Workers = {w1, w2}
    NoDriver = NoDriver
    BuildOf <- JoinBuildOf
    Observed = {build}
    ExchangeSourced = {probe}
    AsyncIo = {probe}
    Chunks <- OneChunk
    MayFail = TRUE
    MayPanic = TRUE
    MayCancel = TRUE
INVARIANTS TypeOK OwnedOnce RemainingExact ShutdownLast ReleasedQuiescent OkMeansFinished
CHECK_DEADLOCK FALSE
