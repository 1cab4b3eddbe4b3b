\* One driver, one chunk, calls that may fail.
\* A finished exchange stays as it is.
SPECIFICATION Spec
CONSTANTS
    s1 = s1
    s2 = s2
    a = a
    b = b
    r1 = r1
    r2 = r2
    NoPayload = NoPayload
    AllSinks = {a, b}
    AllSenders = {s1, s2}
    AllSources = {r1, r2}
    BatchBytes = 1
    Setups <- LossySetup
INVARIANTS SendsReported
CHECK_DEADLOCK FALSE
