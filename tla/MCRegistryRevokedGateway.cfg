CONSTANTS
    owner = owner
    isp = isp
    vendor = vendor
    device = device
    service = service
    gateway1 = gateway1
    gateway2 = gateway2
    gatewayHash1 = gatewayHash1
    gatewayHash2 = gatewayHash2
    deviceHash1 = deviceHash1
    deviceHash2 = deviceHash2
    accessHash = accessHash
    NoAddress = zero
    Ip = {ip}
    NoIp = noip
    Hash = {gatewayHash1, accessHash}
    Address = {owner, isp, service, gateway1}
    UintSize = 4
    MaxTime = 1
    Duration = {1}
SPECIFICATION RolesSpec
INVARIANT RevokedGatewayEndsAccess
CHECK_DEADLOCK FALSE
