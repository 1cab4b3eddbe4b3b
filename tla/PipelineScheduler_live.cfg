\* No failure: the join fragment always completes; then every thread idles.
SPECIFICATION FairSpec
CONSTANTS
    build = build
    probe = probe
    Drivers = {build, probe}
    Workers = {w1, w2}
    NoDriver = NoDriver
    BuildOf <- JoinBuildOf
    Observed = {build, probe}
    ExchangeSourced = {probe}
    AsyncIo = {}
    Chunks <- OneChunk
    MayFail = FALSE
    MayPanic = FALSE
    MayCancel = FALSE
INVARIANTS NoLostWakeup
PROPERTIES Completes
CHECK_DEADLOCK FALSE
