CONSTANTS
    Request = {r1, r2}
    MaxInFlight = 2
    MaxDeaths = 0
    MaxRestarts = 0
    KeepsFuture = TRUE
SPECIFICATION Spec
INVARIANT NoncesInSequence
CHECK_DEADLOCK FALSE
