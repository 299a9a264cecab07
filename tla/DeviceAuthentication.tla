------------------------- MODULE DeviceAuthentication --------------------------
(***************************************************************************)
(* Device authentication: devices, the gateway they are behind, the vendor *)
(* and the registry contract (src/actors/device, gateway, vendor).         *)
(*                                                                         *)
(* A device sends its authentication payload to the gateway, which keeps   *)
(* it and stores its hash in the contract.  When the gateway sees the      *)
(* PayloadAdded event it sends the payload to the vendor; the vendor sees  *)
(* the event on a subscription of its own, checks the payload against what *)
(* it remembers of it, and sends approveDevice.  Both record the approval  *)
(* when they see DeviceApproved.                                           *)
(*                                                                         *)
(* The gateway's processes may be restarted: its handlers and requests are *)
(* lost, its memcached is not, and its subscriptions start again from      *)
(* block 0.  A request may reach the gateway more than once.               *)
(***************************************************************************)
EXTENDS ActorEvents

CONSTANTS Request,     \* the devices' requests, a repeated one counted again
          gateway, vendor, owner, isp,
          gatewayHash, \* the gateway's own authentication payload
          mockIp,
          hashOf,      \* hashOf[r]: the hash of the payload of request r
          deviceOf,    \* deviceOf[r]: the address the device claims
          vendorOf,    \* vendorOf[r]: the vendor it claims
          Signed,      \* requests whose device signature is really that vendor's
          option,      \* option[r]: how the sender of r authenticates
          carried,     \* carried[r]: the properties the sender of r really has
          device,      \* the properties the vendor builds into its devices
          MaxRestarts, \* bound: restarts of the gateway
          Troubled     \* TRUE: transactions may be refused (see TxNonce) and the
                       \* owner may revoke the gateway

ASSUME DeviceAuthenticationAssumption ==
    /\ {gateway, vendor, owner, isp} \subseteq Address /\ gateway # vendor
    /\ gatewayHash \in Hash /\ mockIp \in Ip
    /\ hashOf \in [Request -> Hash \ {gatewayHash}]
    /\ deviceOf \in [Request -> Address] /\ vendorOf \in [Request -> Address]
    /\ Signed \subseteq Request
    /\ option \in [Request -> {"PKSIG", "HMAC", "FINGERPRINT", "MAC"}]
    /\ \A r \in Request : carried[r].privateKey \in Address
    /\ \A r, s \in Request : hashOf[r] = hashOf[s] =>
           /\ deviceOf[r] = deviceOf[s] /\ vendorOf[r] = vendorOf[s]
           /\ (r \in Signed <=> s \in Signed)
           /\ option[r] = option[s] /\ carried[r] = carried[s]
    /\ MaxRestarts \in Nat /\ Troubled \in BOOLEAN

VARIABLES request,   \* request[r]: where the gateway's handler of r is
          gwDb,      \* gwDb[h]: the gateway's entry for h, in its memcached
          vendorDb,  \* vendorDb[h]: the vendor's entry for h, in its memcached
          relayed,   \* the gateway's requests to the vendor
          restarts   \* restarts of the gateway so far

actors == <<tasks, pool, request, gwDb, vendorDb, relayed, restarts>>

allVars == <<actors, chain>>

NoEntry == [known |-> FALSE, approver |-> NoAddress, isStored |-> FALSE, isApproved |-> FALSE]

\* Fault: an entry that leaves a field out.
BareEntry == [known |-> TRUE, isStored |-> FALSE, isApproved |-> FALSE]

\* Fault: the entry says that the payload is stored before it is.
StoredEntry == [NoEntry EXCEPT !.known = TRUE, !.isStored = TRUE]

\* What storeNewPayload of the gateway writes.
NewEntry == [NoEntry EXCEPT !.known = TRUE]

\* What storeNewPayload of the vendor writes.
VendorEntry == [NewEntry EXCEPT !.approver = vendor, !.isStored = TRUE]

\* Fault: whatever the database has, the event is handled (again).
NeverProcessed(entry) == FALSE

\* Fault: a payload counts as stored as soon as the database has an entry for it.
HasEntry(entry) == entry.known

isPayloadStored(entry) == entry.known /\ entry.isStored

isPayloadApproved(entry) == entry.known /\ entry.isApproved

\* The gateway's payload database.
doesPayloadExist(h) == gwDb[h].known

storeNewPayload(h) == gwDb' = [gwDb EXCEPT ![h] = NewEntry]

updatePayloadStateToStored(h, entry, approver) ==
    gwDb' = [gwDb EXCEPT ![h] = [entry EXCEPT !.isStored = TRUE, !.approver = approver]]

updatePayloadStateToApproved(h, entry) ==
    gwDb' = [gwDb EXCEPT ![h] = [entry EXCEPT !.isApproved = TRUE]]

\* The vendor's; its getPayload throws for what it does not find.
VendorStoresPayload(h) == vendorDb' = [vendorDb EXCEPT ![h] = VendorEntry]

VendorUpdatesPayload(h, entry) ==
    vendorDb' = [vendorDb EXCEPT ![h] = [entry EXCEPT !.isApproved = TRUE]]

VendorHasPayload(h) == vendorDb[h].known

VendorHasApproved(h) == vendorDb[h].known /\ vendorDb[h].isApproved

\* A gateway that its owner and its ISP have put through GatewayAuthentication.
InitAll ==
    /\ payloads = [h \in Hash |->
           IF h = gatewayHash
           THEN [NoPayload EXCEPT !.source = owner, !.target = gateway, !.approver = isp,
                                  !.isValue = TRUE, !.isApproved = TRUE]
           ELSE NoPayload]
    /\ trustedGateways = [a \in AnyAddress |-> IF a = gateway THEN mockIp ELSE NoIp]
    /\ trustedDevices = [a \in AnyAddress |-> NoAddress]
    /\ now = 0
    /\ log = <<PayloadAdded(gatewayHash, owner, gateway, isp),
               GatewayApproved(gatewayHash, isp, gateway)>>
    /\ tasks = {}
    /\ pool = {}
    /\ request = [r \in Request |-> "none"]
    /\ gwDb = [h \in Hash |-> NoEntry]
    /\ vendorDb = [h \in Hash |-> NoEntry]
    /\ relayed = {}
    /\ restarts = 0

StoreTx(r) == [method |-> "storePayload", request |-> r, payloadHash |-> hashOf[r]]

ApproveTx(m) == [method |-> "approveDevice", request |-> m.restart, payloadHash |-> m.payloadHash]

-------------------------------------------------------------------------------
(* The device's proof.  A signature shows whose key made it, an HMAC which *)
(* secret; the hash in the contract covers a timestamp and a nonce.        *)

constructPublicKeyPayload(r) == [signer |-> carried[r].privateKey]

constructSecretKeyPayload(r) == [digestKey |-> carried[r].secretKey]

constructFingerprintPayload(r) == [fingerprint |-> carried[r].fingerprint]

constructMacPayload(r) == [mac |-> carried[r].mac]

preparePayload(r) == CASE option[r] = "PKSIG" -> constructPublicKeyPayload(r)
                       [] option[r] = "HMAC" -> constructSecretKeyPayload(r)
                       [] option[r] = "FINGERPRINT" -> constructFingerprintPayload(r)
                       [] option[r] = "MAC" -> constructMacPayload(r)

\* At the vendor, for the device the payload was stored for.
verifyDeviceAuthPayload(r, target) ==
    LET auth == preparePayload(r)
    IN CASE option[r] = "PKSIG" -> auth.signer = target
         [] option[r] = "HMAC" -> auth.digestKey = device.secretKey
         [] option[r] = "FINGERPRINT" -> auth.fingerprint = device.fingerprint
         [] option[r] = "MAC" -> auth.mac = device.mac

-------------------------------------------------------------------------------
(* The gateway's POST /authenticate: processDeviceAuthentication.          *)

Goto(r, from, to) == request[r] = from /\ request' = [request EXCEPT ![r] = to]

\* A request arrives: doesPayloadExist, and the signature of the vendor it names.
ReceiveRequest(r) == /\ Goto(r, "none", IF doesPayloadExist(hashOf[r]) \/ r \notin Signed
                                        THEN "denied" ELSE "storing")
                     /\ UNCHANGED <<tasks, pool, gwDb, vendorDb, relayed, restarts, chain>>

StoreNewPayload(r) == /\ Goto(r, "storing", "sending")
                      /\ storeNewPayload(hashOf[r])
                      /\ UNCHANGED <<tasks, pool, vendorDb, relayed, restarts, chain>>

\* With a nonce from the shared counter: TxNonce has the read, the increment and the answer
\* as steps of their own.
SendStore(r) == /\ Goto(r, "sending", "ok")
                /\ Send(StoreTx(r))
                /\ UNCHANGED <<tasks, gwDb, vendorDb, relayed, restarts, chain>>

-------------------------------------------------------------------------------
(* The gateway's event handlers.                                           *)

\* The events the gateway's listeners pass on: its own payloads, its own devices.
ForGateway(e) == \/ e.event = "PayloadAdded" /\ e.sender = gateway
                 \/ e.event = "DeviceApproved" /\ e.source = gateway

GatewayDelivers ==
    \E i \in DOMAIN log :
        /\ ForGateway(log[i])
        /\ Deliver(gateway, i, NoEntry)
        /\ UNCHANGED <<pool, request, gwDb, vendorDb, relayed, restarts, chain>>

Relay(h, n) == [payloadHash |-> h, restart |-> n, at |-> "sent"]

\* The device of the gateway's entry for h, that of the request, is the event's target.
IsForDevice(h, target) == \A r \in Request : hashOf[r] = h => deviceOf[r] = target

\* processAuthenticationPayloadAddedEvent: isPayloadStored,
\* updatePayloadStateToStored (get, then replace), prepareAndSendToVendor.
GatewayPayloadAdded(t) ==
    LET h == EventOf(t).payloadHash
    IN /\ t.actor = gateway /\ EventOf(t).event = "PayloadAdded"
       /\ \/ /\ Look(t, isPayloadStored(gwDb[h]), gwDb[h].known /\ IsForDevice(h, EventOf(t).target),
                     gwDb[h], NoEntry)
             /\ UNCHANGED <<gwDb, relayed>>
          \/ /\ t.at = "replace"
             /\ updatePayloadStateToStored(h, t.entry, EventOf(t).approver)
             /\ Step(t, "send", NoEntry)
             /\ UNCHANGED relayed
          \/ /\ t.at = "send"
             /\ relayed' = relayed \cup {Relay(h, restarts)}
             /\ Step(t, "done", NoEntry)
             /\ UNCHANGED gwDb
       /\ UNCHANGED <<pool, request, vendorDb, restarts, chain>>

\* processDeviceApprovedEvent: isPayloadApproved, updatePayloadStateToApproved
\* (get, then replace), which throws unless device and approver are those it knows of.
GatewayDeviceApproved(t) ==
    LET h == EventOf(t).payloadHash
    IN /\ t.actor = gateway /\ EventOf(t).event = "DeviceApproved"
       /\ \/ /\ Look(t, isPayloadApproved(gwDb[h]),
                     /\ gwDb[h].known /\ IsForDevice(h, EventOf(t).target)
                     /\ gwDb[h].approver = EventOf(t).sender,
                     gwDb[h], NoEntry)
             /\ UNCHANGED gwDb
          \/ /\ t.at = "replace"
             /\ updatePayloadStateToApproved(h, t.entry)
             /\ Step(t, "done", NoEntry)
       /\ UNCHANGED <<pool, request, vendorDb, relayed, restarts, chain>>

\* Every process of the gateway stops and starts again.
RestartGateway ==
    /\ restarts < MaxRestarts
    /\ restarts' = restarts + 1
    /\ tasks' = {t \in tasks : t.actor # gateway}
    /\ request' = [r \in Request |->
           IF request[r] \in {"storing", "sending"} THEN "lost" ELSE request[r]]
    /\ UNCHANGED <<pool, gwDb, vendorDb, relayed, chain>>

-------------------------------------------------------------------------------
(* The vendor.                                                             *)

VendorDelivers ==
    \E i \in DOMAIN log :
        /\ \/ log[i].event = "PayloadAdded" /\ log[i].approver = vendor
           \/ log[i].event = "DeviceApproved" /\ log[i].sender = vendor
        /\ Deliver(vendor, i, NoEntry)
        /\ UNCHANGED <<pool, request, gwDb, vendorDb, relayed, restarts, chain>>

\* processPayloadAddedEvent: isPayloadApproved, storeNewPayload.
VendorPayloadAdded(t) ==
    LET h == EventOf(t).payloadHash
    IN /\ t.actor = vendor /\ EventOf(t).event = "PayloadAdded"
       /\ \/ /\ t.at = "check"
             /\ Step(t, IF VendorHasApproved(h) THEN "done" ELSE "set", NoEntry)
             /\ UNCHANGED vendorDb
          \/ /\ t.at = "set"
             /\ VendorStoresPayload(h)
             /\ Step(t, "done", NoEntry)
       /\ UNCHANGED <<pool, request, gwDb, relayed, restarts, chain>>

\* processDeviceApprovedEvent: isPayloadApproved, updatePayloadStateToApproved.
VendorDeviceApproved(t) ==
    LET h == EventOf(t).payloadHash
    IN /\ t.actor = vendor /\ EventOf(t).event = "DeviceApproved"
       /\ \/ /\ Look(t, VendorHasApproved(h), VendorHasPayload(h), vendorDb[h], NoEntry)
             /\ UNCHANGED vendorDb
          \/ /\ t.at = "replace"
             /\ VendorUpdatesPayload(h, t.entry)
             /\ Step(t, "done", NoEntry)
       /\ UNCHANGED <<pool, request, gwDb, relayed, restarts, chain>>

\* The vendor's POST /authenticate: processDeviceAuthentication.
Answer(m, to) == relayed' = (relayed \ {m}) \cup {[m EXCEPT !.at = to]}

\* Fault: the device's own proof is not verified.
OurDevice(h) == \E r \in Signed : hashOf[r] = h /\ deviceOf[r] = payloads[h].target

\* verifyPayload of the device signature and verifyDeviceAuthPayload, for the target
\* the payload was stored with.
ValidPayload(h) ==
    \E r \in Signed : /\ hashOf[r] = h /\ deviceOf[r] = payloads[h].target
                      /\ verifyDeviceAuthPayload(r, payloads[h].target)

\* getPayload throws when the vendor has not seen the payload yet, and the payload
\* cannot be decrypted when it was meant for another vendor: no answer.
VendorReadsPayload(m) ==
    /\ m \in relayed /\ m.at = "sent"
    /\ IF ~VendorHasPayload(m.payloadHash) THEN Answer(m, "hung")
       ELSE IF VendorHasApproved(m.payloadHash) \/ ~ValidPayload(m.payloadHash)
       THEN Answer(m, "denied")
       ELSE Answer(m, "numbering")
    /\ UNCHANGED <<tasks, pool, request, gwDb, vendorDb, restarts, chain>>

VendorSendsApproval(m) == /\ m \in relayed /\ m.at = "numbering"
                          /\ Answer(m, "ok")
                          /\ Send(ApproveTx(m))
                          /\ UNCHANGED <<tasks, request, gwDb, vendorDb, restarts, chain>>

-------------------------------------------------------------------------------
(* The chain.                                                              *)

Mine(tx) == Take(tx) /\ UNCHANGED <<tasks, request, gwDb, vendorDb, relayed, restarts>>

\* A transaction whose require fails is mined and reverted.
MineStore(r) ==
    /\ Mine(StoreTx(r))
    /\ \/ storePayload(gateway, hashOf[r], deviceOf[r], vendorOf[r])
       \/ ~payloadMustNotExist(hashOf[r]) /\ UNCHANGED chain

MineApproval(m) ==
    /\ Mine(ApproveTx(m))
    /\ \/ approveDevice(vendor, m.payloadHash)
       \/ /\ \/ ~payloadMustBeNotApproved(m.payloadHash)
             \/ ~gatewayMustBeTrusted(payloads[m.payloadHash].source)
          /\ UNCHANGED chain

Refuse(tx) == Troubled /\ Mine(tx) /\ UNCHANGED chain

OwnerRevokesGateway == /\ Troubled
                       /\ revokeGateway(owner, gatewayHash, gateway)
                       /\ UNCHANGED actors

-------------------------------------------------------------------------------

GatewayHandles(r) == StoreNewPayload(r) \/ SendStore(r)

VendorHandles(m) == VendorReadsPayload(m) \/ VendorSendsApproval(m)

Events == \/ GatewayDelivers \/ VendorDelivers
          \/ \E t \in tasks : \/ GatewayPayloadAdded(t) \/ GatewayDeviceApproved(t)
                              \/ VendorPayloadAdded(t) \/ VendorDeviceApproved(t)

Mining == \/ \E r \in Request : MineStore(r)
          \/ \E m \in relayed : MineApproval(m)
          \/ \E tx \in pool : Refuse(tx)

NextAll == \/ \E r \in Request : ReceiveRequest(r) \/ GatewayHandles(r)
           \/ \E m \in relayed : VendorHandles(m)
           \/ Events
           \/ Mining
           \/ RestartGateway
           \/ OwnerRevokesGateway

SpecAll == InitAll /\ [][NextAll]_allVars

\* Started handlers and requests end, subscriptions deliver, the node mines or
\* refuses.  No request needs to arrive, nothing needs to fail.
FairSpecAll == /\ SpecAll
               /\ \A r \in Request : WF_allVars(GatewayHandles(r))
               /\ WF_allVars(\E m \in relayed : VendorHandles(m))
               /\ WF_allVars(Events)
               /\ WF_allVars(Mining)

-------------------------------------------------------------------------------
(* Properties.                                                             *)

\* Every variable has its type.
TypeOKAll ==
    /\ TypeOK
    /\ request \in [Request -> {"none", "storing", "sending", "ok", "denied", "lost"}]
    /\ gwDb \in [Hash -> [known : BOOLEAN, approver : AnyAddress,
                          isStored : BOOLEAN, isApproved : BOOLEAN]]
    /\ vendorDb \in [Hash -> {NoEntry, VendorEntry, [VendorEntry EXCEPT !.isApproved = TRUE]}]
    /\ \A m \in relayed : m.at \in {"sent", "numbering", "ok", "denied", "hung"}
    /\ \A t \in tasks : t.actor \in {gateway, vendor} /\ t.event \in DOMAIN log
    /\ restarts \in 0 .. MaxRestarts

\* Neither database is ahead of the chain, whatever is restarted, repeated, refused
\* or revoked in between.
DatabasesBehindChain ==
    \A h \in Hash :
        /\ gwDb[h].isStored => payloads[h].isValue /\ payloads[h].approver = gwDb[h].approver
        /\ gwDb[h].isApproved => payloads[h].isApproved
        /\ vendorDb[h].known => payloads[h].isValue
        /\ vendorDb[h].isApproved => payloads[h].isApproved

\* A device with d's key, or with what the vendor builds into its devices.
Genuine(r, d) == CASE option[r] = "PKSIG" -> carried[r].privateKey = d
                   [] option[r] = "HMAC" -> carried[r].secretKey = device.secretKey
                   [] option[r] = "FINGERPRINT" -> carried[r].fingerprint = device.fingerprint
                   [] option[r] = "MAC" -> carried[r].mac = device.mac

\* Only a device that its vendor signed and whose sender has what its option asks for
\* ever becomes trusted, and only behind the gateway it asked.
TrustedDevicesProved ==
    \A d \in Address : trustedDevices[d] # NoAddress =>
        /\ trustedDevices[d] = gateway
        /\ \E r \in Signed : /\ deviceOf[r] = d /\ vendorOf[r] = vendor
                             /\ request[r] = "ok" /\ Genuine(r, d)

\* The gateway does not forget an approval it has recorded, nor that it stored the
\* payload: no handler writes back an entry it read before.
ApprovalKept ==
    [][\A h \in Hash : /\ gwDb[h].isStored => gwDb'[h].isStored
                       /\ gwDb[h].isApproved => gwDb'[h].isApproved]_allVars

\* The ways in which the authentication of hash h ends.
NotMined(h) == \A tx \in pool : tx.payloadHash # h

Unanswered(h) == \E m \in relayed : m.payloadHash = h /\ m.at \in {"hung", "denied"}

Refused(h) == /\ NotMined(h)
              /\ \/ ~payloads[h].isValue
                 \/ ~payloads[h].isApproved /\ \E m \in relayed : m.payloadHash = h /\ m.at = "ok"

\* A restart came between recording that the payload is stored and sending it on.
CutShort(h) == restarts > 0 /\ gwDb[h].isStored /\ \A m \in relayed : m.payloadHash # h

\* A request that the gateway answered 200 ends with the approval in the gateway's
\* database, unless the vendor denies it or never answers, a transaction is refused or
\* reverted, or a restart cuts the relay short.
Ended(h) == gwDb[h].isApproved \/ Unanswered(h) \/ Refused(h) \/ CutShort(h)

\* Nothing is left to do for an accepted request: no transaction about its hash is under
\* way, the vendor has it no more and the gateway has handled all events about it.
Settled(r) ==
    /\ request[r] = "ok" /\ NotMined(hashOf[r])
    /\ \A m \in relayed : m.payloadHash = hashOf[r] => m.at \notin {"sent", "numbering"}
    /\ \A i \in DOMAIN log : ForGateway(log[i]) /\ log[i].payloadHash = hashOf[r] =>
           \E t \in tasks : t.actor = gateway /\ t.event = i /\ t.at \in {"done", "failed"}

\* There is no other way to get stuck: where nothing is left to do for a request, it has
\* ended in one of these ways.  In particular the gateway's handlers never throw, and
\* none takes its work for done when it is not, whatever a restart replays.
SettledHasEnded == \A r \in Request : Settled(r) => Ended(hashOf[r])

\* Every accepted request comes to one of these ends.
AuthenticationEnds == \A r \in Request : request[r] = "ok" ~> Ended(hashOf[r])

\* The gateway stores a payload it receives once only: it denies a hash that it
\* processed before.
HashProcessedOnce ==
    \A r, s \in Request :
        r # s /\ hashOf[r] = hashOf[s] => ~(request[r] = "ok" /\ request[s] = "ok")

\* What the gateway answered with "payload received, forwarding to vendor!" it
\* forwards to the vendor.
ForwardedToVendor ==
    \A r \in Request : request[r] = "ok" ~> \E m \in relayed : m.payloadHash = hashOf[r]

-------------------------------------------------------------------------------
(* Refinement: gateway, vendor and contract implement Authentication.      *)

DeviceHash == Hash \ {gatewayHash}

\* The hashes of payloads that a genuine device of the vendor sent.
GenuineHash == {hashOf[r] : r \in {q \in Signed : Genuine(q, deviceOf[q])}}

AuthStage(h) == IF gwDb[h].isApproved THEN "recorded"
             ELSE IF payloads[h].isApproved THEN "approved"
             ELSE IF \E m \in relayed : m.payloadHash = h /\ m.at = "ok" THEN "vouched"
             ELSE IF payloads[h].isValue THEN "announced" ELSE "none"

Auth == INSTANCE Authentication
            WITH Applicant <- DeviceHash,
                 vetted <- GenuineHash,
                 stage <- [h \in DeviceHash |-> AuthStage(h)]

\* Where no hash is requested twice, gateway, vendor and contract keep the promise of
\* Authentication, however often the gateway restarts: the vendor vouches for payloads of
\* its genuine devices that are on the chain, and nothing a restart repeats undoes a stage.
AuthenticationSpec == Auth!Spec
===============================================================================
