--------------------------- MODULE RegistryContract ---------------------------
(***************************************************************************)
(* The smart contract every actor of border-chain reads and writes         *)
(* (src/contracts/RegistryContract.sol).  A transaction is one atomic      *)
(* step; a transaction whose require fails reverts and leaves no trace, so *)
(* it is a step that is not enabled.  log is the chain's event log in the  *)
(* order the transactions were mined: the only thing the actors see of the *)
(* contract besides its view functions.                                    *)
(*                                                                         *)
(* A transaction is called with any argument its ABI admits: any sender    *)
(* that has a key, any target and approver (the zero address included),    *)
(* any router IP (0x0 included), any duration.                             *)
(***************************************************************************)
EXTENDS Integers, Sequences

CONSTANTS Hash,       \* payload hashes (bytes32)
          Address,    \* addresses that have a key and can send transactions
          NoAddress,  \* address(0), the default of an address slot
          Ip,         \* router IPs, the non-zero bytes32 values
          NoIp,       \* 0x0, the default of a bytes32 slot
          UintSize,   \* 2^256 in the code: unsigned arithmetic wraps here
          MaxTime,    \* bound on block.timestamp
          Duration    \* values of expiredIn

AnyAddress == Address \cup {NoAddress}
RouterIp == Ip \cup {NoIp}
Uint == 0 .. (UintSize - 1)

ASSUME RegistryAssumption ==
    /\ NoAddress \notin Address
    /\ NoIp \notin Ip
    /\ UintSize \in Nat \ {0}
    /\ MaxTime \in Uint
    /\ Duration \subseteq Uint

VARIABLES payloads,         \* mapping(bytes32 => Payload)
          trustedGateways,  \* mapping(address => bytes32): router IP, or NoIp
          trustedDevices,   \* mapping(address => address): gateway, or NoAddress
          now,              \* block.timestamp
          log               \* the events emitted so far

vars == <<payloads, trustedGateways, trustedDevices, now, log>>

Payload == [source : AnyAddress, target : AnyAddress, approver : AnyAddress,
            isValue : BOOLEAN, isApproved : BOOLEAN, isRevoked : BOOLEAN,
            expiryTime : Uint]

\* What an untouched mapping slot reads as.
NoPayload == [source |-> NoAddress, target |-> NoAddress, approver |-> NoAddress,
              isValue |-> FALSE, isApproved |-> FALSE, isRevoked |-> FALSE,
              expiryTime |-> 0]

-------------------------------------------------------------------------------
(* Events.                                                                 *)

PayloadAdded(h, sender, target, approver) ==
    [event |-> "PayloadAdded", payloadHash |-> h, sender |-> sender,
     target |-> target, approver |-> approver]

GatewayApproved(h, sender, target) ==
    [event |-> "GatewayApproved", payloadHash |-> h, sender |-> sender,
     target |-> target]

DeviceApproved(h, sender, source, target) ==
    [event |-> "DeviceApproved", payloadHash |-> h, sender |-> sender,
     source |-> source, target |-> target]

AccessApproved(h, sender, target, expiryTime) ==
    [event |-> "AccessApproved", payloadHash |-> h, sender |-> sender,
     target |-> target, expiryTime |-> expiryTime]

GatewayRevoked(h, sender, gateway) ==
    [event |-> "GatewayRevoked", payloadHash |-> h, sender |-> sender,
     gateway |-> gateway]

DeviceRevoked(h, sender, device) ==
    [event |-> "DeviceRevoked", payloadHash |-> h, sender |-> sender,
     device |-> device]

AccessRevoked(h, sender, target) ==
    [event |-> "AccessRevoked", payloadHash |-> h, sender |-> sender,
     target |-> target]

Event ==
    [event : {"PayloadAdded"}, payloadHash : Hash, sender : Address,
     target : AnyAddress, approver : AnyAddress]
    \cup [event : {"GatewayApproved"}, payloadHash : Hash, sender : Address,
          target : AnyAddress]
    \cup [event : {"DeviceApproved"}, payloadHash : Hash, sender : Address,
          source : AnyAddress, target : AnyAddress]
    \cup [event : {"AccessApproved"}, payloadHash : Hash, sender : Address,
          target : AnyAddress, expiryTime : Uint]
    \cup [event : {"GatewayRevoked"}, payloadHash : Hash, sender : Address,
          gateway : AnyAddress]
    \cup [event : {"DeviceRevoked"}, payloadHash : Hash, sender : Address,
          device : AnyAddress]
    \cup [event : {"AccessRevoked"}, payloadHash : Hash, sender : Address,
          target : AnyAddress]

Emit(e) == log' = Append(log, e)

-------------------------------------------------------------------------------
(* Modifiers: the require of each is a guard.                              *)

payloadMustExist(h) == payloads[h].isValue

payloadMustNotExist(h) == ~payloads[h].isValue

\* Fault: a payload can be revoked as soon as it is stored.
RevocableOnceStored(h) == payloads[h].isValue

payloadMustBeApproved(h) == payloads[h].isApproved

\* Fault: a payload can be approved again.
ApprovableAgain(h) == payloads[h].isValue

payloadMustBeNotApproved(h) == ~payloads[h].isApproved

\* Fault: a payload can be revoked again.
RevocableAgain(h) == payloads[h].isValue

payloadMustBeNotRevoked(h) == ~payloads[h].isRevoked

\* Fault: the target to revoke is not compared with the payload's.
AnyTarget(h, target) == payloads[h].isValue

payloadIsForValidTarget(h, target) == payloads[h].target = target

onlyForApprover(h, sender) == payloads[h].approver = sender

onlyForSource(h, sender) == payloads[h].source = sender

onlyForSourceOrApprover(h, sender) ==
    payloads[h].source = sender \/ payloads[h].approver = sender

\* Fault: it is enough that the gateway has an address.
GatewayHasAddress(gateway) == gateway # NoAddress

gatewayMustBeTrusted(gateway) == trustedGateways[gateway] # NoIp

-------------------------------------------------------------------------------
(* Transactions.                                                           *)

Init == /\ payloads = [h \in Hash |-> NoPayload]
        /\ trustedGateways = [a \in AnyAddress |-> NoIp]
        /\ trustedDevices = [a \in AnyAddress |-> NoAddress]
        /\ now = 0
        /\ log = << >>

storePayload(sender, h, target, approver) ==
    /\ payloadMustNotExist(h)
    /\ payloads' = [payloads EXCEPT ![h] = [@ EXCEPT !.source = sender,
                                                     !.target = target,
                                                     !.approver = approver,
                                                     !.isValue = TRUE]]
    /\ Emit(PayloadAdded(h, sender, target, approver))
    /\ UNCHANGED <<trustedGateways, trustedDevices, now>>

approveGateway(sender, h, routerIp) ==
    /\ payloadMustExist(h)
    /\ payloadMustBeNotApproved(h)
    /\ onlyForApprover(h, sender)
    /\ trustedGateways' = [trustedGateways EXCEPT ![payloads[h].target] = routerIp]
    /\ payloads' = [payloads EXCEPT ![h].isApproved = TRUE]
    /\ Emit(GatewayApproved(h, sender, payloads[h].target))
    /\ UNCHANGED <<trustedDevices, now>>

approveDevice(sender, h) ==
    /\ payloadMustExist(h)
    /\ payloadMustBeNotApproved(h)
    /\ onlyForApprover(h, sender)
    /\ gatewayMustBeTrusted(payloads[h].source)
    /\ trustedDevices' = [trustedDevices EXCEPT ![payloads[h].target] = payloads[h].source]
    /\ payloads' = [payloads EXCEPT ![h].isApproved = TRUE]
    /\ Emit(DeviceApproved(h, sender, payloads[h].source, payloads[h].target))
    /\ UNCHANGED <<trustedGateways, now>>

\* Fault: arithmetic without a width.
UnboundedExpiryTime(expiredIn) == now + expiredIn

\* block.timestamp + expiredIn, in unsigned arithmetic
ExpiryTime(expiredIn) == (now + expiredIn) % UintSize

\* the event's field "target" carries the payload's source
approveAccess(sender, h, expiredIn) ==
    /\ payloadMustExist(h)
    /\ payloadMustBeNotApproved(h)
    /\ onlyForApprover(h, sender)
    /\ gatewayMustBeTrusted(payloads[h].approver)
    /\ payloads' = [payloads EXCEPT ![h].expiryTime = ExpiryTime(expiredIn),
                                    ![h].isApproved = TRUE]
    /\ Emit(AccessApproved(h, sender, payloads[h].source, ExpiryTime(expiredIn)))
    /\ UNCHANGED <<trustedGateways, trustedDevices, now>>

\* Fault: the gateway stays in the table.
RevokeGatewayKeepsGateway(sender, h, gateway) ==
    /\ payloadMustBeApproved(h)
    /\ payloadMustBeNotRevoked(h)
    /\ onlyForSource(h, sender)
    /\ payloadIsForValidTarget(h, gateway)
    /\ payloads' = [payloads EXCEPT ![h].isRevoked = TRUE]
    /\ Emit(GatewayRevoked(h, sender, gateway))
    /\ UNCHANGED <<trustedGateways, trustedDevices, now>>

revokeGateway(sender, h, gateway) ==
    /\ payloadMustExist(h)
    /\ payloadMustBeApproved(h)
    /\ payloadMustBeNotRevoked(h)
    /\ onlyForSource(h, sender)
    /\ payloadIsForValidTarget(h, gateway)
    /\ trustedGateways' = [trustedGateways EXCEPT ![gateway] = NoIp]
    /\ payloads' = [payloads EXCEPT ![h].isRevoked = TRUE]
    /\ Emit(GatewayRevoked(h, sender, gateway))
    /\ UNCHANGED <<trustedDevices, now>>

\* Fault: the device stays in the table.
RevokeDeviceKeepsDevice(sender, h, device) ==
    /\ payloadMustBeApproved(h)
    /\ payloadMustBeNotRevoked(h)
    /\ onlyForSource(h, sender)
    /\ payloadIsForValidTarget(h, device)
    /\ payloads' = [payloads EXCEPT ![h].isRevoked = TRUE]
    /\ Emit(DeviceRevoked(h, sender, device))
    /\ UNCHANGED <<trustedGateways, trustedDevices, now>>

revokeDevice(sender, h, device) ==
    /\ payloadMustExist(h)
    /\ payloadMustBeApproved(h)
    /\ payloadMustBeNotRevoked(h)
    /\ onlyForSource(h, sender)
    /\ payloadIsForValidTarget(h, device)
    /\ trustedDevices' = [trustedDevices EXCEPT ![device] = NoAddress]
    /\ payloads' = [payloads EXCEPT ![h].isRevoked = TRUE]
    /\ Emit(DeviceRevoked(h, sender, device))
    /\ UNCHANGED <<trustedGateways, now>>

revokeAccess(sender, h) ==
    /\ payloadMustExist(h)
    /\ payloadMustBeApproved(h)
    /\ payloadMustBeNotRevoked(h)
    /\ onlyForSourceOrApprover(h, sender)
    /\ payloads' = [payloads EXCEPT ![h].isRevoked = TRUE]
    /\ Emit(AccessRevoked(h, sender, payloads[h].target))
    /\ UNCHANGED <<trustedGateways, trustedDevices, now>>

\* The timestamp of the next block; it never decreases.
Tick == /\ now < MaxTime
        /\ now' = now + 1
        /\ UNCHANGED <<payloads, trustedGateways, trustedDevices, log>>

Transact(sender, h) ==
    \/ \E target, approver \in AnyAddress : storePayload(sender, h, target, approver)
    \/ \E routerIp \in RouterIp : approveGateway(sender, h, routerIp)
    \/ approveDevice(sender, h)
    \/ \E expiredIn \in Duration : approveAccess(sender, h, expiredIn)
    \/ \E gateway \in AnyAddress : revokeGateway(sender, h, gateway)
    \/ \E device \in AnyAddress : revokeDevice(sender, h, device)
    \/ revokeAccess(sender, h)

Next == (\E sender \in Address, h \in Hash : Transact(sender, h)) \/ Tick

Spec == Init /\ [][Next]_vars

-------------------------------------------------------------------------------
(* View functions.                                                         *)

isTrustedGateway(gateway) == trustedGateways[gateway] # NoIp

isTrustedDevice(device) == trustedGateways[trustedDevices[device]] # NoIp

isValidAccess(h) == /\ payloadMustExist(h)
                    /\ payloads[h].isApproved
                    /\ ~payloads[h].isRevoked
                    /\ payloads[h].expiryTime >= now

-------------------------------------------------------------------------------
(* Properties.                                                             *)

\* Every variable has its type.
TypeOK ==
    /\ payloads \in [Hash -> Payload]
    /\ trustedGateways \in [AnyAddress -> RouterIp]
    /\ trustedDevices \in [AnyAddress -> AnyAddress]
    /\ now \in 0 .. MaxTime
    /\ log \in Seq(Event)

Approvals == {"GatewayApproved", "DeviceApproved", "AccessApproved"}

Revocations == {"GatewayRevoked", "DeviceRevoked", "AccessRevoked"}

\* How far an event brings its payload.
Rank(e) == IF e.event = "PayloadAdded" THEN 1
           ELSE IF e.event \in Approvals THEN 2 ELSE 3

\* The log l has an event of rank r about h.
Logged(l, h, r) == \E i \in DOMAIN l : l[i].payloadHash = h /\ Rank(l[i]) = r

EventsInOrder ==
    \A i, j \in DOMAIN log :
        i < j /\ log[i].payloadHash = log[j].payloadHash => Rank(log[i]) < Rank(log[j])

FlagsAreLogged ==
    \A h \in Hash : /\ payloads[h].isValue <=> Logged(log, h, 1)
                    /\ payloads[h].isApproved <=> Logged(log, h, 2)
                    /\ payloads[h].isRevoked <=> Logged(log, h, 3)

FlagsInOrder ==
    \A h \in Hash : /\ payloads[h].isRevoked => payloads[h].isApproved
                    /\ payloads[h].isApproved => payloads[h].isValue
                    /\ ~payloads[h].isValue => payloads[h] = NoPayload

\* What event e says about the parties of its payload p.
Announces(e, p) ==
    /\ e.event = "PayloadAdded" =>
          e.sender = p.source /\ e.target = p.target /\ e.approver = p.approver
    /\ e.event \in Approvals => e.sender = p.approver
    /\ e.event = "GatewayApproved" => e.target = p.target
    /\ e.event = "DeviceApproved" => e.source = p.source /\ e.target = p.target
    /\ e.event = "AccessApproved" => e.target = p.source
    /\ e.event = "GatewayRevoked" => e.sender = p.source /\ e.gateway = p.target
    /\ e.event = "DeviceRevoked" => e.sender = p.source /\ e.device = p.target
    /\ e.event = "AccessRevoked" => e.sender \in {p.source, p.approver} /\ e.target = p.target

PartiesAreLogged == \A i \in DOMAIN log : Announces(log[i], payloads[log[i].payloadHash])

\* The actors rebuild their databases by replaying the log from block 0.  The
\* replay gives exactly the contract's state of every payload: each hash has at
\* most one event of each kind, in the order stored, approved, revoked, it has
\* one exactly when the flag is set, and the parties stored are those that
\* each of its events names.
LogMatchesPayloads == EventsInOrder /\ FlagsAreLogged /\ FlagsInOrder /\ PartiesAreLogged

ApprovesGateway(e, g) == e.event = "GatewayApproved" /\ e.target = g

RevokesGateway(e, g) == e.event = "GatewayRevoked" /\ e.gateway = g

\* In the first n events of log l gateway g was approved and not revoked since.
VouchedFor(l, g, n) ==
    \E i \in 1 .. n : /\ ApprovesGateway(l[i], g)
                      /\ \A j \in (i + 1) .. n : ~RevokesGateway(l[j], g)

\* A trusted gateway is one whose approval was mined with no revocation after it.
TrustIsLogged ==
    \A g \in AnyAddress : isTrustedGateway(g) => VouchedFor(log, g, Len(log))

\* A device is approved, and an access is granted, only behind a gateway that
\* some ISP had approved by then and no owner had revoked since: the chain of
\* trust ISP -> gateway -> device / access, as the log tells it.
ChainOfTrust ==
    \A i \in DOMAIN log :
        /\ log[i].event = "DeviceApproved" => VouchedFor(log, log[i].source, i - 1)
        /\ log[i].event = "AccessApproved" => VouchedFor(log, log[i].sender, i - 1)

ApprovesDevice(e, d) == e.event = "DeviceApproved" /\ e.target = d

RevokesDevice(e, d) == e.event = "DeviceRevoked" /\ e.device = d

\* In log l, event i is the last one that moves device d.
LastMove(l, d, i) ==
    /\ i \in DOMAIN l
    /\ ApprovesDevice(l[i], d) \/ RevokesDevice(l[i], d)
    /\ \A j \in DOMAIN l : j > i => ~ApprovesDevice(l[j], d) /\ ~RevokesDevice(l[j], d)

\* The contract's table of devices is what the log says of each: the gateway of
\* the device's last event if that is an approval, no gateway otherwise.
DevicesReplayFromLog ==
    \A d \in AnyAddress :
        /\ \A i \in DOMAIN log :
               LastMove(log, d, i) =>
                   trustedDevices[d] = IF log[i].event = "DeviceApproved"
                                       THEN log[i].source ELSE NoAddress
        /\ trustedDevices[d] # NoAddress => \E i \in DOMAIN log : LastMove(log, d, i)

\* isTrustedDevice answers yes for a device that has a gateway only while both are
\* vouched for: an approved payload that nobody revoked names the device and comes
\* from its gateway, and one names that gateway.  It needs the accounts to use the
\* methods of each payload's own kind, as the actors do: revokeAccess on a device's
\* payload would revoke it and leave the tables alone.
TrustedDeviceHasChain ==
    \A d \in AnyAddress :
        isTrustedDevice(d) /\ trustedDevices[d] # NoAddress =>
            \E hd, hg \in Hash :
                /\ payloads[hd].isApproved /\ ~payloads[hd].isRevoked
                /\ payloads[hg].isApproved /\ ~payloads[hg].isRevoked
                /\ payloads[hd].target = d
                /\ payloads[hd].source = trustedDevices[d]
                /\ payloads[hg].target = trustedDevices[d]

\* An access that was granted and has ended, by revocation or by expiry, never
\* becomes valid again: no later transaction about any payload revives it.
AccessNeverRevives ==
    [][\A h \in Hash : payloads[h].isApproved /\ ~isValidAccess(h) => ~isValidAccess(h)']_vars

\* An untrusted gateway becomes trusted only by approving a payload that names
\* it and was never approved before: after a revocation the owner must store a
\* new payload and the ISP must approve it, the old approval cannot be reused.
TrustNeedsFreshApproval ==
    [][\A g \in AnyAddress :
         ~isTrustedGateway(g) /\ isTrustedGateway(g)' =>
             \E h \in Hash : /\ payloads[h].target = g
                             /\ ~payloads[h].isApproved /\ payloads'[h].isApproved]_vars

-------------------------------------------------------------------------------
(* Refinement: the contract implements PayloadLifecycle.                   *)

StageOf(p) == IF p.isRevoked THEN "revoked"
              ELSE IF p.isApproved THEN "approved"
              ELSE IF p.isValue THEN "stored" ELSE "absent"

PartiesOf(p) == [source |-> p.source, target |-> p.target, approver |-> p.approver]

Lifecycle == INSTANCE PayloadLifecycle
                 WITH Party <- AnyAddress,
                      NoParties <- PartiesOf(NoPayload),
                      stage <- [h \in Hash |-> StageOf(payloads[h])],
                      parties <- [h \in Hash |-> PartiesOf(payloads[h])]

\* Every transaction of the contract is one lifecycle step of one payload, and
\* nothing else ever changes a payload's stage or its parties.
LifecycleSpec == Lifecycle!Spec

-------------------------------------------------------------------------------
(* What the repository says of the contract and the code does not do.      *)

\* Revoking a gateway makes the accesses it granted invalid.
RevokedGatewayEndsAccess ==
    \A i \in DOMAIN log :
        log[i].event = "AccessApproved" /\ isValidAccess(log[i].payloadHash) =>
            isTrustedGateway(log[i].sender)

\* A device keeps its current gateway: the one of its latest approval, as long
\* as the payload of that approval is not revoked.
DeviceKeepsCurrentGateway ==
    \A i \in DOMAIN log :
        /\ log[i].event = "DeviceApproved"
        /\ ~payloads[log[i].payloadHash].isRevoked
        /\ \A j \in DOMAIN log : j > i => ~ApprovesDevice(log[j], log[i].target)
        => trustedDevices[log[i].target] = log[i].source
===============================================================================
