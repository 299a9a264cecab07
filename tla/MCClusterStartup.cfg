CONSTANTS
    w1 = w1
    w2 = w2
    Role <- MCRole
    Worker = {w1, w2}
    Gateway = {11, 12}
    MaxStarts = 2
    MaxDeaths = 1
SPECIFICATION FairSpec
INVARIANTS TypeOK ServesWhatIsRegistered NothingStaleAtFirst OneIdentityIsHeard
PROPERTIES NewWorkersServe
CHECK_DEADLOCK FALSE
