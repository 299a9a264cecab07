--------------------------- MODULE MCRegistryRoles ----------------------------
(***************************************************************************)
(* RegistryContract with the payloads the actors really store: the owner's *)
(* for each gateway (approver: the ISP), a gateway's for the device        *)
(* (approver: the vendor), the service's own (approver: a gateway); each   *)
(* is approved and revoked by the methods of its own kind.  Which          *)
(* transactions are sent, and in what order, stays free.                   *)
(***************************************************************************)
EXTENDS RegistryContract

CONSTANTS owner, isp, vendor, device, service, gateway1, gateway2,
          gatewayHash1, gatewayHash2, deviceHash1, deviceHash2, accessHash

Role == [h \in Hash |->
           CASE h = gatewayHash1 -> [source |-> owner, target |-> gateway1, approver |-> isp]
             [] h = gatewayHash2 -> [source |-> owner, target |-> gateway2, approver |-> isp]
             [] h = deviceHash1 -> [source |-> gateway1, target |-> device, approver |-> vendor]
             [] h = deviceHash2 -> [source |-> gateway2, target |-> device, approver |-> vendor]
             [] h = accessHash -> [source |-> service, target |-> service, approver |-> gateway1]]

\* The events each payload may appear in: actors call the methods of its kind.
Kind == [h \in Hash |->
           IF h \in {gatewayHash1, gatewayHash2}
           THEN {"PayloadAdded", "GatewayApproved", "GatewayRevoked"}
           ELSE IF h \in {deviceHash1, deviceHash2}
           THEN {"PayloadAdded", "DeviceApproved", "DeviceRevoked"}
           ELSE {"PayloadAdded", "AccessApproved", "AccessRevoked"}]

RolesKept == /\ \A h \in Hash : payloads[h].isValue => PartiesOf(payloads[h]) = Role[h]
             /\ \A i \in DOMAIN log : log[i].event \in Kind[log[i].payloadHash]

RolesSpec == Init /\ [][Next /\ RolesKept']_vars
===============================================================================
