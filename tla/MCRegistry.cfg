CONSTANTS
    Hash = {h1, h2}
    Address = {a1, a2}
    NoAddress = zero
    Ip = {ip}
    NoIp = noip
    UintSize = 4
    MaxTime = 2
    Duration = {0, 3}
SYMMETRY Symmetry
SPECIFICATION Spec
INVARIANTS TypeOK LogMatchesPayloads ChainOfTrust
PROPERTIES AccessNeverRevives LifecycleSpec
CHECK_DEADLOCK FALSE
