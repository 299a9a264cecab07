CONSTANTS
    r1 = r1
    r2 = r2
    r3 = r3
    r4 = r4
    d1 = d1
    d2 = d2
    h1 = h1
    h3 = h3
    h4 = h4
    gateway = gateway
    vendor = vendor
    otherVendor = otherVendor
    owner = owner
    isp = isp
    gatewayHash = hg
    mockIp = ip
    hashOf <- MCHashOf
    deviceOf <- MCDeviceOf
    vendorOf <- MCVendorOf
    Signed <- MCSigned
    option <- MCOption
    carried <- MCCarried
    device <- MCDevice
    NoAddress = zero
    Ip = {ip}
    NoIp = noip
    UintSize = 1
    MaxTime = 0
    Duration = {}
    Address = {gateway, vendor, otherVendor, owner, isp, d1, d2}
    Hash = {hg, h1}
    Request = {r1, r2}
    MaxRestarts = 0
    Troubled = FALSE
SPECIFICATION SpecAll
INVARIANT HashProcessedOnce
CHECK_DEADLOCK FALSE
