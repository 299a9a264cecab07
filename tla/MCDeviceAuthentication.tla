------------------------ MODULE MCDeviceAuthentication -------------------------
(***************************************************************************)
(* Instances of DeviceAuthentication for TLC.  Request r1 is of a genuine  *)
(* device d1, and r2 repeats it; r3 is of a device d2 of the same vendor   *)
(* whose fingerprint is not the one the vendor built in, r4 of one that    *)
(* claims to be another vendor's and is not.                               *)
(***************************************************************************)
EXTENDS DeviceAuthentication

CONSTANTS r1, r2, r3, r4, d1, d2, h1, h3, h4, otherVendor

MCHashOf == [r \in Request |-> IF r \in {r1, r2} THEN h1 ELSE IF r = r3 THEN h3 ELSE h4]

MCDeviceOf == [r \in Request |-> IF r \in {r1, r2} THEN d1 ELSE d2]

MCVendorOf == [r \in Request |-> IF r = r4 THEN otherVendor ELSE vendor]

MCSigned == Request \ {r4}

MCOption == [r \in Request |-> IF r \in {r1, r2} THEN "PKSIG"
                              ELSE IF r = r3 THEN "FINGERPRINT" ELSE "MAC"]

Properties(key, secret, print, mac) ==
    [privateKey |-> key, secretKey |-> secret, fingerprint |-> print, mac |-> mac]

MCDevice == Properties(d1, "secret", "print", "mac")

MCCarried == [r \in Request |->
    IF r = r3 THEN Properties(d2, "secret", "another print", "mac")
    ELSE Properties(MCDeviceOf[r], "secret", "print", "mac")]
===============================================================================
