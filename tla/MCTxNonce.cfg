CONSTANTS
    Request = {r1, r2, r3, r4}
    MaxInFlight = 3
    MaxDeaths = 1
    MaxRestarts = 1
    KeepsFuture = FALSE
SYMMETRY Symmetry
SPECIFICATION Spec
INVARIANT TypeOK
PROPERTIES AnsweredNonceIsPast GapNeverCloses
CHECK_DEADLOCK FALSE
