CONSTANTS
    s1 = s1
    hs = hs
    resource1 = resource1
    resource4 = resource4
    gateway = gateway
    owner = owner
    isp = isp
    mockIp = ip
    gatewayHash = hg
    NoAddress = zero
    Ip = {ip}
    NoIp = noip
    UintSize = 5
    MaxTime = 3
    Duration = {1}
    Service = {s1}
    Address = {s1, gateway, owner, isp}
    Hash = {hg, hs}
    tokenOf <- MCTokenOf
    Resource = {resource1, resource4}
    assigned = {resource1}
    Choice <- MCChoice
    expiredIn = 1
    Skew = 1
    MaxRestarts = 2
    Troubled = TRUE
SPECIFICATION FairSpecAll
INVARIANTS TypeOKAll DatabasesBehindChain TokenKeepsAccesses SettledHasEnded
PROPERTIES ApprovalLostToReplayOnly ServedUntilExpiry AuthorizationEnds GrantSpec
CHECK_DEADLOCK FALSE
