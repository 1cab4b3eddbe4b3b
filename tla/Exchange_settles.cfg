\* Four exchanges: with and without faults, with one sender and with two.
\* A finished exchange stays as it is.
SPECIFICATION FairSpec
CONSTANTS
    s1 = s1
    s2 = s2
    a = a
    b = b
    r1 = r1
    r2 = r2
    NoPayload = NoPayload
    AllSinks = {a, b}
    AllSenders = {s1, s2}
    AllSources = {r1, r2}
    BatchBytes = 1
    Setups <- SomeSetups
INVARIANTS TypeOK EndMeansAll PerSinkOrder AccountingExact Backpressure OneSendPerLane
PROPERTIES Settles
CHECK_DEADLOCK FALSE
