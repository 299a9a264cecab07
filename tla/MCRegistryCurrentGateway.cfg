CONSTANTS
    owner = owner
    isp = isp
    vendor = vendor
    device = device
    service = service
    gateway1 = gateway1
    gateway2 = gateway2
    gatewayHash1 = gatewayHash1
    gatewayHash2 = gatewayHash2
    deviceHash1 = deviceHash1
    deviceHash2 = deviceHash2
    accessHash = accessHash
    NoAddress = zero
    Ip = {ip}
    NoIp = noip
    Hash = {gatewayHash1, gatewayHash2, deviceHash1, deviceHash2}
    Address = {owner, isp, vendor, gateway1, gateway2, device}
    UintSize = 4
    MaxTime = 0
    Duration = {0}
SPECIFICATION RolesSpec
INVARIANT DeviceKeepsCurrentGateway
CHECK_DEADLOCK FALSE
