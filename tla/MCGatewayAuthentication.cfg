CONSTANTS
    o1 = o1
    g1 = g1
    h1 = h1
    hx = hx
    isp = isp
    other = other
    hashOf <- MCHashOf
    gatewayOf <- MCGatewayOf
    mockIp = ip
    NoAddress = zero
    Ip = {ip}
    NoIp = noip
    UintSize = 1
    MaxTime = 0
    Duration = {}
    Owner = {o1}
    Address = {o1, g1, isp, other}
    Hash = {h1, hx}
    LosesTransactions = TRUE
SPECIFICATION FairSpecAll
INVARIANTS TypeOKAll DatabasesBehindChain RegisteredWasApproved ApprovedWasRequested SettledHasEnded
CHECK_DEADLOCK FALSE
PROPERTIES AuthenticationEnds AuthenticationSpec
