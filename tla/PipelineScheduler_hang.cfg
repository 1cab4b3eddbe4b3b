\* A failing build side: the parked probe driver may miss the abort.
SPECIFICATION FairSpec
CONSTANTS
    build = build
    probe = probe
    Drivers = {build, probe}
    Workers = {w1}
    NoDriver = NoDriver
    BuildOf <- JoinBuildOf
    Observed = {build, probe}
    ExchangeSourced = {}
    AsyncIo = {}
    Chunks <- OneChunk
    MayFail = TRUE
    MayPanic = FALSE
    MayCancel = FALSE
PROPERTY AbortCompletes
CHECK_DEADLOCK FALSE
