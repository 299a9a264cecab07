----------------------- MODULE DeviceAuthenticationProofs -----------------------
(***************************************************************************)
(* Proofs about DeviceAuthentication, for any requests (repeated ones      *)
(* included), restarts of the gateway, delivery orders, refused            *)
(* transactions and a revocation of the gateway.                           *)
(***************************************************************************)
EXTENDS DeviceAuthentication, RegistryLogProofs

Options == {"PKSIG", "HMAC", "FINGERPRINT", "MAC"}

LEMMA ConstantsFit ==
    /\ {gateway, vendor, owner, isp} \subseteq Address /\ gateway # vendor
    /\ Address \subseteq AnyAddress /\ NoAddress \notin Address /\ mockIp \in RouterIp
    /\ gatewayHash \in Hash /\ hashOf \in [Request -> Hash \ {gatewayHash}]
    /\ deviceOf \in [Request -> Address] /\ vendorOf \in [Request -> Address]
    /\ Signed \subseteq Request /\ option \in [Request -> Options]
    /\ \A r, s \in Request : hashOf[r] = hashOf[s] =>
           /\ deviceOf[r] = deviceOf[s] /\ vendorOf[r] = vendorOf[s]
           /\ (r \in Signed <=> s \in Signed)
           /\ option[r] = option[s] /\ carried[r] = carried[s]
  BY DeviceAuthenticationAssumption, RegistryAssumption DEF AnyAddress, RouterIp, Options

\* What the vendor verifies is what the sender really has.
LEMMA ProofIsGenuine ==
    ASSUME NEW r \in Request, NEW d PROVE verifyDeviceAuthPayload(r, d) <=> Genuine(r, d)
<1>1. option[r] \in Options
  BY ConstantsFit
<1>2. CASE option[r] = "PKSIG"
  BY <1>2 DEF verifyDeviceAuthPayload, Genuine, preparePayload, constructPublicKeyPayload
<1>3. CASE option[r] = "HMAC"
  BY <1>3 DEF verifyDeviceAuthPayload, Genuine, preparePayload, constructSecretKeyPayload
<1>4. CASE option[r] = "FINGERPRINT"
  BY <1>4 DEF verifyDeviceAuthPayload, Genuine, preparePayload, constructFingerprintPayload
<1>5. CASE option[r] = "MAC"
  BY <1>5 DEF verifyDeviceAuthPayload, Genuine, preparePayload, constructMacPayload
<1> QED
  BY <1>1, <1>2, <1>3, <1>4, <1>5 DEF Options

-------------------------------------------------------------------------------
(* The invariant.                                                          *)

GwEntryType == [known : BOOLEAN, approver : AnyAddress, isStored : BOOLEAN, isApproved : BOOLEAN]

VendorApproved == [VendorEntry EXCEPT !.isApproved = TRUE]

EntriesFit ==
    /\ gwDb \in [Hash -> GwEntryType]
    /\ vendorDb \in [Hash -> {NoEntry, VendorEntry, VendorApproved}]

\* An entry for h that a handler of the gateway may write back.
EntryBehindChain(entry, h) ==
    /\ entry \in GwEntryType
    /\ entry.isStored => payloads[h].isValue /\ payloads[h].approver = entry.approver
    /\ entry.isApproved => payloads[h].isApproved

GatewayTask(t) ==
    t.at = "replace" => EntryBehindChain(t.entry, EventOf(t).payloadHash)

VendorTask(t) == EventOf(t).event = "DeviceApproved" /\ t.at = "replace" =>
                     t.entry \in {VendorEntry, VendorApproved}

TasksFit ==
    \A t \in tasks : /\ t.actor \in {gateway, vendor} /\ t.event \in DOMAIN log
                     /\ t.actor = gateway => GatewayTask(t)
                     /\ t.actor = vendor => VendorTask(t)

\* Some accepted request's payload is stored under h, with its device and its vendor.
StoredFor(h) == \E r \in Request : /\ hashOf[r] = h /\ request[r] = "ok"
                                   /\ payloads[h].source = gateway
                                   /\ payloads[h].target = deviceOf[r]
                                   /\ payloads[h].approver = vendorOf[r]

PayloadsFit ==
    /\ payloads[gatewayHash].isApproved
    /\ \A h \in Hash \ {gatewayHash} : payloads[h].isValue => StoredFor(h)

\* The payload of h was sent by a device that its vendor made.
Proven(h) == \E r \in Signed : /\ hashOf[r] = h /\ deviceOf[r] = payloads[h].target
                               /\ Genuine(r, payloads[h].target)

RelayedFit ==
    \A m \in relayed : /\ m.payloadHash \in Hash /\ payloads[m.payloadHash].isValue
                       /\ m.at \in {"sent", "numbering", "ok", "denied", "hung"}
                       /\ m.at = "numbering" => Proven(m.payloadHash)

PoolFits ==
    \A tx \in pool : \/ \E r \in Request : tx = StoreTx(r) /\ request[r] = "ok"
                     \/ /\ tx.method = "approveDevice"
                        /\ tx.payloadHash \in Hash
                        /\ payloads[tx.payloadHash].isValue /\ Proven(tx.payloadHash)

RequestsFit == /\ request \in [Request -> {"none", "storing", "sending", "ok", "denied", "lost"}]
               /\ restarts \in 0 .. MaxRestarts

ActorInv == /\ EntriesFit /\ DatabasesBehindChain /\ TasksFit /\ PayloadsFit /\ RelayedFit
            /\ PoolFits /\ RequestsFit /\ TrustedDevicesProved

\* What the chain does in one step of the system.
LEMMA ChainSteps == ASSUME RelayedFit, [NextAll]_allVars PROVE [Next]_vars
<1>1. ASSUME NEW r \in Request, MineStore(r) PROVE [Next]_vars
  <2>1. /\ gateway \in Address /\ hashOf[r] \in Hash
        /\ deviceOf[r] \in AnyAddress /\ vendorOf[r] \in AnyAddress
    BY ConstantsFit
  <2> QED
    BY <1>1, <2>1 DEF MineStore, Next, Transact, chain, vars
<1>2. ASSUME NEW m \in relayed, MineApproval(m) PROVE [Next]_vars
  <2>1. m.payloadHash \in Hash /\ vendor \in Address
    BY ConstantsFit DEF RelayedFit
  <2> QED
    BY <1>2, <2>1 DEF MineApproval, Next, Transact, chain, vars
<1>3. CASE OwnerRevokesGateway
  BY <1>3, ConstantsFit DEF OwnerRevokesGateway, Next, Transact
<1>4. CASE Events
  BY <1>4 DEF Events, GatewayDelivers, VendorDelivers, GatewayPayloadAdded, GatewayDeviceApproved,
     VendorPayloadAdded, VendorDeviceApproved, chain, vars
<1>5. ASSUME NEW r \in Request, ReceiveRequest(r) \/ GatewayHandles(r) PROVE [Next]_vars
  BY <1>5 DEF ReceiveRequest, GatewayHandles, StoreNewPayload, SendStore, chain, vars
<1>6. ASSUME NEW m \in relayed, VendorHandles(m) PROVE [Next]_vars
  BY <1>6 DEF VendorHandles, VendorReadsPayload, VendorSendsApproval, chain, vars
<1>7. ASSUME NEW tx \in pool, Refuse(tx) PROVE [Next]_vars
  BY <1>7 DEF Refuse, chain, vars
<1>8. CASE RestartGateway \/ UNCHANGED allVars
  BY <1>8 DEF RestartGateway, allVars, chain, vars
<1> QED
  BY <1>1, <1>2, <1>3, <1>4, <1>5, <1>6, <1>7, <1>8 DEF NextAll, Mining

-------------------------------------------------------------------------------
(* Steps of the programs: the chain stays as it is.                        *)

\* A step that leaves the chain alone, and forgets no accepted request, keeps all but
\* what it changes itself.
LEMMA ProgramFrame ==
    ASSUME ActorInv, UNCHANGED chain,
           \A r \in Request : request[r] = "ok" => request'[r] = "ok"
    PROVE  /\ PayloadsFit' /\ TrustedDevicesProved'
           /\ \A h \in Hash : Proven(h)' = Proven(h)
           /\ relayed' = relayed => RelayedFit'
           /\ pool' \subseteq pool => PoolFits'
           /\ tasks' \subseteq tasks => TasksFit'
           /\ gwDb' = gwDb /\ vendorDb' = vendorDb => EntriesFit' /\ DatabasesBehindChain'
<1>a. /\ EntriesFit /\ DatabasesBehindChain /\ TasksFit /\ PayloadsFit /\ RelayedFit
      /\ PoolFits /\ RequestsFit /\ TrustedDevicesProved
      /\ UNCHANGED <<payloads, log, trustedDevices>>
  BY DEF ActorInv, chain
<1>1. PayloadsFit'
  <2>1. \A h \in Hash : StoredFor(h) => StoredFor(h)'
    BY <1>a DEF StoredFor
  <2> QED
    BY <1>a, <2>1 DEF PayloadsFit
<1>2. TrustedDevicesProved'
  BY <1>a, ConstantsFit DEF TrustedDevicesProved, Genuine
<1>3. \A h : Proven(h)' = Proven(h)
  BY <1>a DEF Proven, Genuine
<1>4. relayed' = relayed => RelayedFit'
  BY <1>a, <1>3 DEF RelayedFit
<1>5. pool' \subseteq pool => PoolFits'
  <2> SUFFICES ASSUME NEW tx \in pool
               PROVE  \/ \E r \in Request : tx = StoreTx(r) /\ request'[r] = "ok"
                      \/ /\ tx.method = "approveDevice"
                         /\ tx.payloadHash \in Hash
                         /\ payloads'[tx.payloadHash].isValue /\ Proven(tx.payloadHash)'
    BY DEF PoolFits, StoreTx
  <2> QED
    BY <1>a, <1>3 DEF PoolFits
<1>6. tasks' \subseteq tasks => TasksFit'
  BY <1>a DEF TasksFit, GatewayTask, VendorTask, EntryBehindChain, EventOf
<1>7. gwDb' = gwDb /\ vendorDb' = vendorDb => EntriesFit' /\ DatabasesBehindChain'
  BY <1>a DEF EntriesFit, DatabasesBehindChain
<1> QED
  BY <1>1, <1>2, <1>3, <1>4, <1>5, <1>6, <1>7

\* A handler that goes on, or starts, leaves the others as they are.
LEMMA TasksStep ==
    ASSUME TasksFit, UNCHANGED chain, NEW new, tasks' \subseteq tasks \cup {new},
           new.actor \in {gateway, vendor}, new.event \in DOMAIN log,
           new.actor = gateway => GatewayTask(new), new.actor = vendor => VendorTask(new)
    PROVE  TasksFit'
<1>1. UNCHANGED <<log, payloads>>
  BY DEF chain
<1> QED
  BY <1>1 DEF TasksFit, GatewayTask, VendorTask, EntryBehindChain, EventOf

LEMMA DeliverStep ==
    ASSUME LogInv, ActorInv, GatewayDelivers \/ VendorDelivers PROVE ActorInv'
<1>1. /\ UNCHANGED chain /\ UNCHANGED <<pool, request, gwDb, vendorDb, relayed, restarts>>
  BY DEF GatewayDelivers, VendorDelivers
<1>2. PICK actor \in {gateway, vendor}, i \in DOMAIN log : Deliver(actor, i, NoEntry)
  BY DEF GatewayDelivers, VendorDelivers
<1>3. TasksFit'
  <2> DEFINE new == Task(actor, i, "check", NoEntry)
  <2>1. /\ tasks' \subseteq tasks \cup {new} /\ new.actor \in {gateway, vendor}
        /\ new.event \in DOMAIN log /\ GatewayTask(new) /\ VendorTask(new)
    BY <1>2 DEF Deliver, Task, GatewayTask, VendorTask
  <2> QED
    BY <1>1, <2>1, TasksStep DEF ActorInv
<1> QED
  BY <1>1, <1>3, ProgramFrame DEF ActorInv, RequestsFit

\* The gateway's two handlers.
LEMMA GatewayHandlerStep ==
    ASSUME LogInv, ActorInv, NEW t \in tasks, GatewayPayloadAdded(t) \/ GatewayDeviceApproved(t)
    PROVE  ActorInv'
<1> DEFINE h == EventOf(t).payloadHash
<1>a. EntriesFit /\ DatabasesBehindChain /\ TasksFit /\ RelayedFit /\ RequestsFit
  BY DEF ActorInv
<1>b. /\ t.actor = gateway /\ t.event \in DOMAIN log /\ h \in Hash /\ GatewayTask(t)
      /\ UNCHANGED chain /\ UNCHANGED <<pool, request, vendorDb, restarts>>
      /\ UNCHANGED <<log, payloads>>
  BY <1>a, EventFacts DEF GatewayPayloadAdded, GatewayDeviceApproved, TasksFit, EventOf, chain
<1>c. /\ EventOf(t).event = "PayloadAdded" =>
            payloads[h].isValue /\ payloads[h].approver = EventOf(t).approver
      /\ EventOf(t).event = "DeviceApproved" => payloads[h].isApproved
  BY <1>b, EventFacts DEF EventOf, Approvals
<1>d. EntryBehindChain(gwDb[h], h)
  BY <1>a, <1>b DEF EntryBehindChain, EntriesFit, DatabasesBehindChain
<1>1. /\ EntriesFit' /\ DatabasesBehindChain'
      /\ relayed' = relayed \/ \E n : relayed' = relayed \cup {Relay(h, n)} /\ payloads[h].isValue
  <2>1. CASE GatewayPayloadAdded(t) /\ t.at = "replace"
    <3> DEFINE e == [t.entry EXCEPT !.isStored = TRUE, !.approver = EventOf(t).approver]
    <3>1. gwDb' = [gwDb EXCEPT ![h] = e] /\ relayed' = relayed
      BY <2>1 DEF GatewayPayloadAdded, Look, updatePayloadStateToStored
    <3>2. t.entry \in GwEntryType /\ (t.entry.isApproved => payloads[h].isApproved)
      BY <1>b, <2>1 DEF GatewayTask, EntryBehindChain
    <3>3. payloads[h].isValue /\ payloads[h].approver = EventOf(t).approver
      BY <1>c, <2>1 DEF GatewayPayloadAdded
    <3>4. EventOf(t).approver \in AnyAddress
      BY <1>b, <3>3 DEF LogInv, TypeOK, Payload
    <3>5. /\ e \in GwEntryType /\ e.approver = EventOf(t).approver
          /\ e.isApproved <=> t.entry.isApproved
      BY <3>2, <3>4 DEF GwEntryType
    <3>6. EntriesFit'
      BY <1>a, <1>b, <3>1, <3>5 DEF EntriesFit
    <3>7. DatabasesBehindChain'
      BY <1>a, <1>b, <3>1, <3>2, <3>3, <3>5 DEF EntriesFit, DatabasesBehindChain
    <3> QED
      BY <3>1, <3>6, <3>7
  <2>2. CASE GatewayDeviceApproved(t) /\ t.at = "replace"
    <3> DEFINE e == [t.entry EXCEPT !.isApproved = TRUE]
    <3>1. gwDb' = [gwDb EXCEPT ![h] = e] /\ relayed' = relayed
      BY <2>2 DEF GatewayDeviceApproved, Look, updatePayloadStateToApproved
    <3>2. /\ t.entry \in GwEntryType
          /\ t.entry.isStored => payloads[h].isValue /\ payloads[h].approver = t.entry.approver
      BY <1>b, <2>2 DEF GatewayTask, EntryBehindChain
    <3>3. payloads[h].isApproved
      BY <1>c, <2>2 DEF GatewayDeviceApproved
    <3>4. /\ e \in GwEntryType /\ e.approver = t.entry.approver
          /\ e.isStored <=> t.entry.isStored
      BY <3>2 DEF GwEntryType
    <3>5. EntriesFit'
      BY <1>a, <1>b, <3>1, <3>4 DEF EntriesFit
    <3>6. DatabasesBehindChain'
      BY <1>a, <1>b, <3>1, <3>2, <3>3, <3>4 DEF EntriesFit, DatabasesBehindChain
    <3> QED
      BY <3>1, <3>5, <3>6
  <2>3. CASE t.at # "replace"
    <3>1. gwDb' = gwDb
      BY <2>3 DEF GatewayPayloadAdded, GatewayDeviceApproved, Look
    <3>2. relayed' = relayed \/ \E n : relayed' = relayed \cup {Relay(h, n)} /\ payloads[h].isValue
      BY <1>c, <2>3 DEF GatewayPayloadAdded, GatewayDeviceApproved, Look
    <3> QED
      BY <1>a, <1>b, <3>1, <3>2 DEF EntriesFit, DatabasesBehindChain
  <2> QED
    BY <2>1, <2>2, <2>3
<1>2. TasksFit'
  <2>1. PICK at, entry : /\ Step(t, at, entry)
                         /\ at = "replace" => entry = gwDb[h]
    BY DEF GatewayPayloadAdded, GatewayDeviceApproved, Look, NoEntry
  <2> DEFINE new == Task(t.actor, t.event, at, entry)
  <2>2. /\ tasks' \subseteq tasks \cup {new} /\ new.actor = gateway /\ new.event = t.event
        /\ new.at = at /\ new.entry = entry /\ EventOf(new) = EventOf(t)
    BY <1>b, <2>1 DEF Step, Task, EventOf
  <2>3. GatewayTask(new)
    BY <1>d, <2>1, <2>2 DEF GatewayTask
  <2> QED
    BY <1>a, <1>b, <2>2, <2>3, TasksStep, ConstantsFit
<1>3. RelayedFit'
  <2>1. CASE relayed' = relayed
    BY <1>b, <2>1, ProgramFrame
  <2>2. ASSUME NEW n, relayed' = relayed \cup {Relay(h, n)}, payloads[h].isValue PROVE RelayedFit'
    <3>1. Relay(h, n).payloadHash = h /\ Relay(h, n).at = "sent"
      BY DEF Relay
    <3>2. \A g \in Hash : Proven(g)' = Proven(g)
      BY <1>b, ProgramFrame
    <3> QED
      BY <1>a, <1>b, <2>2, <3>1, <3>2 DEF RelayedFit
  <2> QED
    BY <1>1, <2>1, <2>2
<1> QED
  BY <1>a, <1>b, <1>1, <1>2, <1>3, ProgramFrame DEF ActorInv, RequestsFit

\* The vendor's two handlers.
LEMMA VendorHandlerStep ==
    ASSUME LogInv, ActorInv, NEW t \in tasks, VendorPayloadAdded(t) \/ VendorDeviceApproved(t)
    PROVE  ActorInv'
<1> DEFINE h == EventOf(t).payloadHash
<1>a. EntriesFit /\ DatabasesBehindChain /\ TasksFit /\ RequestsFit
  BY DEF ActorInv
<1>b. /\ t.actor = vendor /\ t.event \in DOMAIN log /\ h \in Hash /\ VendorTask(t)
      /\ UNCHANGED chain /\ UNCHANGED <<pool, request, gwDb, relayed, restarts>>
      /\ UNCHANGED <<log, payloads>>
  BY <1>a, EventFacts, ConstantsFit
     DEF VendorPayloadAdded, VendorDeviceApproved, TasksFit, EventOf, chain
<1>c. /\ EventOf(t).event = "PayloadAdded" => payloads[h].isValue
      /\ EventOf(t).event = "DeviceApproved" => payloads[h].isApproved /\ payloads[h].isValue
  BY <1>b, EventFacts DEF EventOf, Approvals, LogInv, LogMatchesPayloads, FlagsInOrder
<1>1. \/ vendorDb' = vendorDb
      \/ vendorDb' = [vendorDb EXCEPT ![h] = VendorEntry] /\ payloads[h].isValue
      \/ /\ vendorDb' = [vendorDb EXCEPT ![h] = VendorApproved]
         /\ payloads[h].isApproved /\ payloads[h].isValue
  <2>1. CASE VendorPayloadAdded(t)
    BY <1>c, <2>1 DEF VendorPayloadAdded, VendorStoresPayload
  <2>2. CASE VendorDeviceApproved(t) /\ t.at = "replace"
    <3>1. t.entry \in {VendorEntry, VendorApproved}
      BY <1>b, <2>2 DEF VendorTask, VendorDeviceApproved
    <3>2. [t.entry EXCEPT !.isApproved = TRUE] = VendorApproved
      BY <3>1 DEF VendorApproved, VendorEntry, NewEntry, NoEntry
    <3> QED
      BY <1>c, <2>2, <3>2 DEF VendorDeviceApproved, VendorUpdatesPayload, Look
  <2>3. CASE VendorDeviceApproved(t) /\ t.at # "replace"
    BY <2>3 DEF VendorDeviceApproved, Look
  <2> QED
    BY <2>1, <2>2, <2>3
<1>2. EntriesFit' /\ DatabasesBehindChain'
  <2>1. EntriesFit'
    BY <1>a, <1>b, <1>1 DEF EntriesFit
  <2>2. /\ ~NoEntry.known /\ ~NoEntry.isApproved /\ ~VendorEntry.isApproved
    BY DEF NoEntry, VendorEntry, NewEntry
  <2>3. \A g \in Hash : /\ vendorDb'[g].known => payloads[g].isValue
                        /\ vendorDb'[g].isApproved => payloads[g].isApproved
    BY <1>a, <1>b, <1>1, <2>2 DEF EntriesFit, DatabasesBehindChain
  <2> QED
    BY <1>a, <1>b, <2>1, <2>3 DEF DatabasesBehindChain
<1>3. TasksFit'
  <2>1. PICK at, entry : /\ Step(t, at, entry)
                         /\ at = "replace" => entry = vendorDb[h] /\ vendorDb[h].known
    BY DEF VendorPayloadAdded, VendorDeviceApproved, Look, NoEntry, VendorHasPayload
  <2> DEFINE new == Task(t.actor, t.event, at, entry)
  <2>2. /\ tasks' \subseteq tasks \cup {new} /\ new.actor = vendor /\ new.event = t.event
        /\ new.at = at /\ new.entry = entry /\ EventOf(new) = EventOf(t)
    BY <1>b, <2>1 DEF Step, Task, EventOf
  <2>3. vendorDb[h].known => vendorDb[h] \in {VendorEntry, VendorApproved}
    BY <1>a, <1>b DEF EntriesFit, NoEntry
  <2>4. VendorTask(new)
    BY <2>1, <2>2, <2>3 DEF VendorTask
  <2> QED
    BY <1>a, <1>b, <2>2, <2>4, TasksStep, ConstantsFit
<1> QED
  BY <1>a, <1>b, <1>2, <1>3, ProgramFrame DEF ActorInv, RequestsFit

\* The gateway's request handler and its restarts.
LEMMA GatewayRequestStep ==
    ASSUME ActorInv, NEW r \in Request, ReceiveRequest(r) \/ GatewayHandles(r) PROVE ActorInv'
<1>a. /\ EntriesFit /\ DatabasesBehindChain /\ RequestsFit /\ PoolFits /\ hashOf[r] \in Hash
      /\ UNCHANGED chain /\ UNCHANGED <<tasks, vendorDb, relayed, restarts>> /\ UNCHANGED payloads
  BY ConstantsFit DEF ActorInv, ReceiveRequest, GatewayHandles, StoreNewPayload, SendStore, chain
<1>b. PICK to \in {"storing", "sending", "ok", "denied"} :
          /\ request[r] \in {"none", "storing", "sending"} /\ request' = [request EXCEPT ![r] = to]
  BY DEF ReceiveRequest, GatewayHandles, StoreNewPayload, SendStore, Goto
<1>1. RequestsFit' /\ \A s \in Request : request[s] = "ok" => request'[s] = "ok"
  BY <1>a, <1>b DEF RequestsFit
<1>2. EntriesFit' /\ DatabasesBehindChain'
  <2>1. CASE gwDb' = gwDb
    BY <1>a, <1>1, <2>1, ProgramFrame
  <2>2. CASE gwDb' = [gwDb EXCEPT ![hashOf[r]] = NewEntry]
    <3>1. NewEntry \in GwEntryType /\ ~NewEntry.isStored /\ ~NewEntry.isApproved
      BY DEF NewEntry, NoEntry, GwEntryType, AnyAddress
    <3> QED
      BY <1>a, <2>2, <3>1 DEF EntriesFit, DatabasesBehindChain
  <2> QED
    BY <2>1, <2>2 DEF ReceiveRequest, GatewayHandles, StoreNewPayload, SendStore, storeNewPayload
<1>3. PoolFits'
  <2>1. CASE pool' = pool
    BY <1>a, <1>1, <2>1, ProgramFrame
  <2>2. CASE SendStore(r)
    <3>1. pool' = pool \cup {StoreTx(r)} /\ request'[r] = "ok"
      BY <1>a, <2>2 DEF SendStore, Goto, Send, RequestsFit
    <3>2. \A h \in Hash : Proven(h)' = Proven(h)
      BY <1>a, <1>1, ProgramFrame
    <3> SUFFICES ASSUME NEW tx \in pool'
                 PROVE  \/ \E s \in Request : tx = StoreTx(s) /\ request'[s] = "ok"
                        \/ /\ tx.method = "approveDevice"
                           /\ tx.payloadHash \in Hash
                           /\ payloads'[tx.payloadHash].isValue /\ Proven(tx.payloadHash)'
      BY DEF PoolFits, StoreTx
    <3> QED
      BY <1>a, <1>1, <3>1, <3>2 DEF PoolFits
  <2> QED
    BY <2>1, <2>2 DEF ReceiveRequest, GatewayHandles, StoreNewPayload
<1> QED
  BY <1>a, <1>1, <1>2, <1>3, ProgramFrame DEF ActorInv

LEMMA RestartStep == ASSUME ActorInv, RestartGateway PROVE ActorInv'
<1>1. /\ UNCHANGED chain /\ UNCHANGED <<pool, gwDb, vendorDb, relayed>> /\ tasks' \subseteq tasks
  BY DEF RestartGateway
<1>2. RequestsFit' /\ \A r \in Request : request[r] = "ok" => request'[r] = "ok"
  BY DeviceAuthenticationAssumption DEF ActorInv, RequestsFit, RestartGateway
<1> QED
  BY <1>1, <1>2, ProgramFrame DEF ActorInv

\* The vendor's request handler.
LEMMA VendorRequestStep ==
    ASSUME ActorInv, NEW m \in relayed, VendorHandles(m) PROVE ActorInv'
<1>a. /\ RelayedFit /\ PoolFits /\ RequestsFit
      /\ UNCHANGED chain /\ UNCHANGED <<tasks, request, gwDb, vendorDb, restarts>>
      /\ UNCHANGED payloads /\ m.payloadHash \in Hash /\ payloads[m.payloadHash].isValue
  BY DEF ActorInv, RelayedFit, VendorHandles, VendorReadsPayload, VendorSendsApproval, chain
<1>b. \A h \in Hash : Proven(h)' = Proven(h)
  BY <1>a, ProgramFrame
<1>1. RelayedFit'
  <2>1. PICK to \in {"numbering", "ok", "denied", "hung"} :
            Answer(m, to) /\ (to = "numbering" => Proven(m.payloadHash))
    <3>1. ValidPayload(m.payloadHash) => Proven(m.payloadHash)
      BY ProofIsGenuine, ConstantsFit DEF ValidPayload, Proven
    <3> QED
      BY <3>1 DEF VendorHandles, VendorReadsPayload, VendorSendsApproval
  <2> DEFINE n == [m EXCEPT !.at = to]
  <2>2. n.payloadHash = m.payloadHash /\ n.at = to /\ relayed' = (relayed \ {m}) \cup {n}
    BY <2>1 DEF Answer
  <2> QED
    BY <1>a, <1>b, <2>1, <2>2 DEF RelayedFit
<1>2. PoolFits'
  <2>1. CASE pool' = pool
    BY <1>a, <2>1, ProgramFrame
  <2>2. CASE VendorSendsApproval(m)
    <3>1. /\ pool' = pool \cup {ApproveTx(m)} /\ Proven(m.payloadHash)
          /\ ApproveTx(m).method = "approveDevice" /\ ApproveTx(m).payloadHash = m.payloadHash
      BY <1>a, <2>2 DEF VendorSendsApproval, Send, RelayedFit, ApproveTx
    <3> SUFFICES ASSUME NEW tx \in pool'
                 PROVE  \/ \E s \in Request : tx = StoreTx(s) /\ request'[s] = "ok"
                        \/ /\ tx.method = "approveDevice"
                           /\ tx.payloadHash \in Hash
                           /\ payloads'[tx.payloadHash].isValue /\ Proven(tx.payloadHash)'
      BY DEF PoolFits, StoreTx
    <3> QED
      BY <1>a, <1>b, <3>1 DEF PoolFits
  <2> QED
    BY <2>1, <2>2 DEF VendorHandles, VendorReadsPayload
<1> QED
  BY <1>a, <1>1, <1>2, ProgramFrame DEF ActorInv, RequestsFit

-------------------------------------------------------------------------------
(* Steps of the chain: the programs stay as they are.                      *)

\* A payload that is stored keeps its parties, so what was proved of it stays proved.
LEMMA ChainFrame ==
    ASSUME LogInv, LogInv', ActorInv, [Next]_vars, pool' \subseteq pool,
           UNCHANGED <<tasks, request, gwDb, vendorDb, relayed, restarts>>
    PROVE  /\ EntriesFit' /\ DatabasesBehindChain' /\ TasksFit' /\ RelayedFit' /\ PoolFits'
           /\ RequestsFit' /\ payloads'[gatewayHash].isApproved
           /\ \A h \in Hash : /\ payloads[h].isValue /\ Proven(h) => Proven(h)'
                              /\ payloads[h].isValue /\ StoredFor(h) => StoredFor(h)'
<1>a. /\ EntriesFit /\ DatabasesBehindChain /\ TasksFit /\ PayloadsFit /\ RelayedFit
      /\ PoolFits /\ RequestsFit
  BY DEF ActorInv
<1>b. /\ DOMAIN log \subseteq DOMAIN log' /\ \A i \in DOMAIN log : log'[i] = log[i]
      /\ \A h \in Hash : /\ payloads[h].isValue => payloads'[h].isValue
                         /\ payloads[h].isApproved => payloads'[h].isApproved
                         /\ payloads[h].isValue => SameParties(payloads'[h], payloads[h])
  BY ChainGrows
<1>1. EntriesFit' /\ RequestsFit' /\ payloads'[gatewayHash].isApproved
  BY <1>a, <1>b, ConstantsFit DEF EntriesFit, RequestsFit, PayloadsFit
<1>2. DatabasesBehindChain'
  BY <1>a, <1>b DEF DatabasesBehindChain, SameParties
<1>3. \A h \in Hash : /\ payloads[h].isValue /\ Proven(h) => Proven(h)'
                      /\ payloads[h].isValue /\ StoredFor(h) => StoredFor(h)'
  BY <1>b DEF Proven, Genuine, StoredFor, SameParties
<1>4. TasksFit'
  <2> SUFFICES ASSUME NEW t \in tasks
               PROVE  /\ t.actor \in {gateway, vendor} /\ t.event \in DOMAIN log'
                      /\ t.actor = gateway => GatewayTask(t)'
                      /\ t.actor = vendor => VendorTask(t)'
    BY <1>a DEF TasksFit
  <2>1. /\ t.event \in DOMAIN log /\ t.actor \in {gateway, vendor} /\ EventOf(t)' = EventOf(t)
        /\ EventOf(t).payloadHash \in Hash
    BY <1>a, <1>b, EventFacts DEF TasksFit, EventOf
  <2>2. t.actor = gateway => GatewayTask(t)'
    BY <1>a, <1>b, <2>1 DEF TasksFit, GatewayTask, EntryBehindChain, SameParties
  <2>3. t.actor = vendor => VendorTask(t)'
    BY <1>a, <2>1 DEF TasksFit, VendorTask
  <2> QED
    BY <1>b, <2>1, <2>2, <2>3
<1>5. RelayedFit'
  BY <1>a, <1>b, <1>3 DEF RelayedFit
<1>6. PoolFits'
  <2> SUFFICES ASSUME NEW tx \in pool
               PROVE  \/ \E s \in Request : tx = StoreTx(s) /\ request[s] = "ok"
                      \/ /\ tx.method = "approveDevice"
                         /\ tx.payloadHash \in Hash
                         /\ payloads'[tx.payloadHash].isValue /\ Proven(tx.payloadHash)'
    BY DEF PoolFits, StoreTx
  <2> QED
    BY <1>a, <1>b, <1>3 DEF PoolFits
<1> QED
  BY <1>1, <1>2, <1>3, <1>4, <1>5, <1>6

\* What the gateway's transaction stores is the payload of an accepted request.
LEMMA MineStoreStep ==
    ASSUME LogInv, LogInv', ActorInv, [Next]_vars, NEW r \in Request, MineStore(r)
    PROVE  ActorInv'
<1>a. /\ PayloadsFit /\ PoolFits /\ RequestsFit /\ TrustedDevicesProved
      /\ hashOf[r] \in Hash \ {gatewayHash} /\ payloads \in [Hash -> Payload]
      /\ StoreTx(r) \in pool /\ pool' \subseteq pool
      /\ UNCHANGED <<tasks, request, gwDb, vendorDb, relayed, restarts>>
  BY ConstantsFit DEF ActorInv, LogInv, TypeOK, MineStore, Mine, Take
<1>1. /\ EntriesFit' /\ DatabasesBehindChain' /\ TasksFit' /\ RelayedFit' /\ PoolFits'
      /\ RequestsFit' /\ payloads'[gatewayHash].isApproved
      /\ \A h \in Hash : payloads[h].isValue /\ StoredFor(h) => StoredFor(h)'
  BY <1>a, ChainFrame
<1>2. trustedDevices' = trustedDevices
  BY DEF MineStore, storePayload, chain
<1>3. PayloadsFit'
  <2>1. CASE UNCHANGED chain
    BY <1>1, <1>a, <2>1 DEF PayloadsFit, chain
  <2>2. CASE storePayload(gateway, hashOf[r], deviceOf[r], vendorOf[r])
    <3>1. PICK s \in Request : StoreTx(r) = StoreTx(s) /\ request[s] = "ok"
      BY <1>a DEF PoolFits, StoreTx
    <3>2. s = r
      BY <3>1 DEF StoreTx
    <3>3. StoredFor(hashOf[r])'
      BY <1>a, <2>2, <3>1, <3>2 DEF StoredFor, storePayload, Payload
    <3>4. \A h \in Hash \ {hashOf[r]} : payloads'[h] = payloads[h]
      BY <1>a, <2>2 DEF storePayload
    <3> SUFFICES ASSUME NEW h \in Hash \ {gatewayHash}, payloads'[h].isValue PROVE StoredFor(h)'
      BY <1>1 DEF PayloadsFit
    <3> QED
      BY <1>1, <1>a, <3>3, <3>4 DEF PayloadsFit
  <2> QED
    BY <2>1, <2>2 DEF MineStore
<1>4. TrustedDevicesProved'
  BY <1>a, <1>2 DEF TrustedDevicesProved, Genuine
<1> QED
  BY <1>1, <1>3, <1>4 DEF ActorInv

\* What the vendor approves is the payload of an accepted request that it proved.
LEMMA MineApprovalStep ==
    ASSUME LogInv, LogInv', ActorInv, [Next]_vars, NEW m \in relayed, MineApproval(m)
    PROVE  ActorInv'
<1> DEFINE h == m.payloadHash
<1>a. /\ PayloadsFit /\ PoolFits /\ RequestsFit /\ TrustedDevicesProved
      /\ h \in Hash /\ payloads \in [Hash -> Payload]
      /\ trustedDevices \in [AnyAddress -> AnyAddress]
      /\ ApproveTx(m) \in pool /\ pool' \subseteq pool
      /\ UNCHANGED <<tasks, request, gwDb, vendorDb, relayed, restarts>>
  BY DEF ActorInv, LogInv, TypeOK, MineApproval, Mine, Take, RelayedFit
<1>1. /\ EntriesFit' /\ DatabasesBehindChain' /\ TasksFit' /\ RelayedFit' /\ PoolFits'
      /\ RequestsFit' /\ payloads'[gatewayHash].isApproved
      /\ \A g \in Hash : payloads[g].isValue /\ StoredFor(g) => StoredFor(g)'
  BY <1>a, ChainFrame
<1>2. payloads[h].isValue /\ Proven(h)
  BY <1>a DEF PoolFits, ApproveTx, StoreTx
<1>3. PayloadsFit'
  <2>1. \A g \in Hash : payloads'[g].isValue => payloads[g].isValue
    BY <1>a, <1>2 DEF MineApproval, approveDevice, chain
  <2> QED
    BY <1>a, <1>1, <2>1 DEF PayloadsFit
<1>4. TrustedDevicesProved'
  <2>1. CASE UNCHANGED chain
    BY <1>a, <2>1 DEF TrustedDevicesProved, Genuine, chain
  <2>2. CASE approveDevice(vendor, h)
    <3> DEFINE target == payloads[h].target
    <3>1. /\ trustedDevices' = [trustedDevices EXCEPT ![target] = payloads[h].source]
          /\ payloads[h].approver = vendor /\ ~payloads[h].isApproved
      BY <2>2 DEF approveDevice, onlyForApprover, payloadMustBeNotApproved
    <3>2. PICK r \in Request : /\ hashOf[r] = h /\ request[r] = "ok"
                               /\ payloads[h].source = gateway
                               /\ target = deviceOf[r] /\ vendor = vendorOf[r]
      BY <1>a, <1>2, <3>1 DEF PayloadsFit, StoredFor
    <3>3. r \in Signed /\ Genuine(r, target)
      <4>1. PICK s \in Signed : hashOf[s] = h /\ Genuine(s, target)
        BY <1>2 DEF Proven
      <4>2. option[s] = option[r] /\ carried[s] = carried[r] /\ r \in Signed
        BY <3>2, <4>1, ConstantsFit
      <4> QED
        BY <4>1, <4>2 DEF Genuine
    <3>4. \A d \in Address : trustedDevices'[d] =
              IF d = target THEN gateway ELSE trustedDevices[d]
      BY <1>a, <3>1, <3>2, ConstantsFit
    <3>5. \A s, d : Genuine(s, d)' = Genuine(s, d)
      BY DEF Genuine
    <3> SUFFICES ASSUME NEW d \in Address, trustedDevices'[d] # NoAddress
                 PROVE  /\ trustedDevices'[d] = gateway
                        /\ \E s \in Signed : /\ deviceOf[s] = d /\ vendorOf[s] = vendor
                                             /\ request'[s] = "ok" /\ Genuine(s, d)'
      BY DEF TrustedDevicesProved
    <3>6. CASE d = target
      BY <1>a, <3>2, <3>3, <3>4, <3>5, <3>6
    <3>7. CASE d # target
      BY <1>a, <3>4, <3>5, <3>7 DEF TrustedDevicesProved
    <3> QED
      BY <3>6, <3>7
  <2> QED
    BY <2>1, <2>2 DEF MineApproval
<1> QED
  BY <1>1, <1>3, <1>4 DEF ActorInv

\* A refusal and a revocation approve nothing.
LEMMA OtherChainStep ==
    ASSUME LogInv, LogInv', ActorInv, [Next]_vars,
           \/ \E tx \in pool : Refuse(tx)
           \/ OwnerRevokesGateway
           \/ UNCHANGED allVars
    PROVE  ActorInv'
<1>a. /\ PayloadsFit /\ TrustedDevicesProved /\ payloads \in [Hash -> Payload]
      /\ pool' \subseteq pool /\ UNCHANGED trustedDevices
      /\ UNCHANGED <<tasks, request, gwDb, vendorDb, relayed, restarts>>
  BY DEF ActorInv, LogInv, TypeOK, Refuse, Mine, Take, OwnerRevokesGateway, revokeGateway, actors,
     allVars, chain
<1>1. /\ EntriesFit' /\ DatabasesBehindChain' /\ TasksFit' /\ RelayedFit' /\ PoolFits'
      /\ RequestsFit' /\ payloads'[gatewayHash].isApproved
      /\ \A g \in Hash : payloads[g].isValue /\ StoredFor(g) => StoredFor(g)'
  BY <1>a, ChainFrame
<1>2. \A g \in Hash : payloads'[g].isValue => payloads[g].isValue
  BY <1>a DEF Refuse, Mine, OwnerRevokesGateway, revokeGateway, payloadMustExist, allVars, chain
<1>3. PayloadsFit' /\ TrustedDevicesProved'
  BY <1>a, <1>1, <1>2 DEF PayloadsFit, TrustedDevicesProved, Genuine
<1> QED
  BY <1>1, <1>3 DEF ActorInv

LEMMA ActorInvStep == LogInv /\ LogInv' /\ ActorInv /\ [NextAll]_allVars => ActorInv'
<1> SUFFICES ASSUME LogInv, LogInv', ActorInv, [NextAll]_allVars PROVE ActorInv'
  OBVIOUS
<1>a. [Next]_vars
  BY ChainSteps DEF ActorInv
<1>1. CASE Events
  BY <1>1, DeliverStep, GatewayHandlerStep, VendorHandlerStep DEF Events
<1>2. ASSUME NEW r \in Request, ReceiveRequest(r) \/ GatewayHandles(r) PROVE ActorInv'
  BY <1>2, GatewayRequestStep
<1>3. ASSUME NEW m \in relayed, VendorHandles(m) PROVE ActorInv'
  BY <1>3, VendorRequestStep
<1>4. CASE Mining
  BY <1>a, <1>4, MineStoreStep, MineApprovalStep, OtherChainStep DEF Mining
<1>5. CASE RestartGateway
  BY <1>5, RestartStep
<1>6. CASE OwnerRevokesGateway \/ UNCHANGED allVars
  BY <1>a, <1>6, OtherChainStep
<1> QED
  BY <1>1, <1>2, <1>3, <1>4, <1>5, <1>6 DEF NextAll

\* The contract's state after GatewayAuthentication is one that its log tells.
LEMMA LogInvInitAll == InitAll => LogInv
<1> SUFFICES ASSUME InitAll PROVE LogInv
  OBVIOUS
<1> DEFINE p == [NoPayload EXCEPT !.source = owner, !.target = gateway, !.approver = isp,
                                  !.isValue = TRUE, !.isApproved = TRUE]
           added == PayloadAdded(gatewayHash, owner, gateway, isp)
           approved == GatewayApproved(gatewayHash, isp, gateway)
<1>1. /\ log = <<added, approved>> /\ DOMAIN log = {1, 2}
      /\ log[1] = added /\ log[2] = approved
  BY DEF InitAll
<1>2. /\ p \in Payload /\ NoPayload \in Payload /\ 0 \in Uint
      /\ p.source = owner /\ p.target = gateway /\ p.approver = isp
      /\ p.isValue /\ p.isApproved /\ ~p.isRevoked
      /\ ~NoPayload.isValue /\ ~NoPayload.isApproved /\ ~NoPayload.isRevoked
  <2>1. 0 \in Uint
    BY RegistryAssumption DEF Uint
  <2>2. NoPayload \in Payload
    BY <2>1 DEF NoPayload, Payload, AnyAddress
  <2>3. /\ p.source = owner /\ p.target = gateway /\ p.approver = isp
        /\ p.isValue /\ p.isApproved /\ ~p.isRevoked
        /\ ~NoPayload.isValue /\ ~NoPayload.isApproved /\ ~NoPayload.isRevoked
    BY DEF NoPayload
  <2>4. p \in Payload
    BY <2>2, ConstantsFit DEF Payload
  <2> QED
    BY <2>1, <2>2, <2>3, <2>4
<1>3. payloads = [h \in Hash |-> IF h = gatewayHash THEN p ELSE NoPayload]
  BY DEF InitAll
<1>4. TypeOK
  <2>1. added \in Event /\ approved \in Event
    BY ConstantsFit, EventsTyped, <1>2
  <2>2. log \in Seq(Event)
    BY <1>1, <2>1
  <2>3. now \in 0 .. MaxTime
    BY RegistryAssumption DEF InitAll, Uint
  <2>4. /\ trustedGateways \in [AnyAddress -> RouterIp]
        /\ trustedDevices \in [AnyAddress -> AnyAddress]
    BY ConstantsFit DEF InitAll, RouterIp, AnyAddress
  <2>5. payloads \in [Hash -> Payload]
    BY <1>2, <1>3
  <2> QED
    BY <2>2, <2>3, <2>4, <2>5 DEF TypeOK
<1>5. /\ Rank(log[1]) = 1 /\ Rank(log[2]) = 2
      /\ \A i \in DOMAIN log : log[i].payloadHash = gatewayHash
      /\ log[1].sender = owner /\ log[1].target = gateway /\ log[1].approver = isp
      /\ log[1].event = "PayloadAdded" /\ log[2].event = "GatewayApproved"
      /\ log[2].sender = isp /\ log[2].target = gateway
  BY <1>1 DEF Rank, PayloadAdded, GatewayApproved, Approvals
<1>6. EventsInOrder
  BY <1>1, <1>5 DEF EventsInOrder
<1>7. FlagsAreLogged
  <2>1. \A h \in Hash : /\ Logged(log, h, 1) <=> h = gatewayHash
                        /\ Logged(log, h, 2) <=> h = gatewayHash
                        /\ ~Logged(log, h, 3)
    BY <1>1, <1>5 DEF Logged
  <2> QED
    BY <1>2, <1>3, <2>1 DEF FlagsAreLogged
<1>8. FlagsInOrder
  BY <1>2, <1>3 DEF FlagsInOrder
<1>9. PartiesAreLogged
  <2>1. /\ payloads[gatewayHash].source = owner /\ payloads[gatewayHash].target = gateway
        /\ payloads[gatewayHash].approver = isp
    BY <1>2, <1>3, ConstantsFit
  <2> QED
    BY <1>1, <1>5, <2>1 DEF PartiesAreLogged, Announces, Approvals
<1> QED
  BY <1>4, <1>6, <1>7, <1>8, <1>9 DEF LogInv, LogMatchesPayloads

LEMMA ActorInvInit == InitAll => ActorInv
<1> SUFFICES ASSUME InitAll PROVE ActorInv
  OBVIOUS
<1>1. /\ NoEntry \in GwEntryType /\ ~NoEntry.known /\ ~NoEntry.isStored /\ ~NoEntry.isApproved
  BY DEF NoEntry, GwEntryType, AnyAddress
<1>2. EntriesFit /\ DatabasesBehindChain
  BY <1>1 DEF InitAll, EntriesFit, DatabasesBehindChain
<1>3. TasksFit /\ RelayedFit /\ PoolFits
  BY DEF InitAll, TasksFit, RelayedFit, PoolFits
<1>4. PayloadsFit
  BY ConstantsFit DEF InitAll, PayloadsFit, NoPayload
<1>5. RequestsFit
  BY DeviceAuthenticationAssumption DEF InitAll, RequestsFit
<1>6. TrustedDevicesProved
  BY ConstantsFit DEF InitAll, TrustedDevicesProved
<1> QED
  BY <1>2, <1>3, <1>4, <1>5, <1>6 DEF ActorInv

LEMMA SystemInvariant == SpecAll => [](LogInv /\ ActorInv)
<1>1. InitAll => LogInv /\ ActorInv
  BY LogInvInitAll, ActorInvInit
<1>2. LogInv /\ ActorInv /\ [NextAll]_allVars => LogInv' /\ ActorInv'
  <2>1. ActorInv /\ [NextAll]_allVars => [Next]_vars
    BY ChainSteps DEF ActorInv
  <2> QED
    BY <2>1, LogInvStep, ActorInvStep
<1> QED
  BY <1>1, <1>2, PTL DEF SpecAll

-------------------------------------------------------------------------------
(* The theorems.                                                           *)

\* Every variable keeps its type, the contract's included.
THEOREM SystemTypeCorrect == SpecAll => []TypeOKAll
<1>1. LogInv /\ ActorInv => TypeOKAll
  BY DEF LogInv, ActorInv, TypeOKAll, EntriesFit, GwEntryType, VendorApproved, TasksFit, RelayedFit,
     RequestsFit
<1> QED
  BY <1>1, SystemInvariant, PTL

\* Neither the gateway's nor the vendor's database says of a payload what the contract
\* does not, whatever is restarted, repeated, refused or revoked in between.
THEOREM DatabasesFollowChain == SpecAll => []DatabasesBehindChain
<1>1. LogInv /\ ActorInv => DatabasesBehindChain
  BY DEF ActorInv
<1> QED
  BY <1>1, SystemInvariant, PTL

\* Only a device that its vendor signed, that proved itself the way its option asks for
\* and whose request the gateway accepted becomes trusted, behind that gateway.
THEOREM TrustedDevicesAreProved == SpecAll => []TrustedDevicesProved
<1>1. LogInv /\ ActorInv => TrustedDevicesProved
  BY DEF ActorInv
<1> QED
  BY <1>1, SystemInvariant, PTL

-------------------------------------------------------------------------------
(* Where no hash is repeated, nothing the gateway recorded is undone: its  *)
(* two handlers of one hash come one after the other.                      *)

HashesDiffer == \A r, s \in Request : hashOf[r] = hashOf[s] => r = s

\* The vendor hears of a payload, and approves it, once the gateway has it as stored.
StoredFirst ==
    /\ \A m \in relayed : gwDb[m.payloadHash].isStored
    /\ \A h \in Hash \ {gatewayHash} : payloads[h].isApproved => gwDb[h].isStored
    /\ \A h \in Hash : /\ gwDb[h].isApproved => gwDb[h].isStored
                       /\ gwDb[h].isStored => gwDb[h].known
    /\ \A i \in DOMAIN log : log[i].event = "DeviceApproved" => log[i].payloadHash # gatewayHash

\* What a handler of the gateway read is still true where it matters.
UpToDate(t) ==
    LET stored == gwDb[EventOf(t).payloadHash].isStored
    IN /\ t.at = "replace" => t.entry.known
       /\ EventOf(t).event = "PayloadAdded" /\ t.at \in {"get", "replace"} => ~stored
       /\ EventOf(t).event = "PayloadAdded" /\ t.at = "send" => stored
       /\ EventOf(t).event = "DeviceApproved" /\ t.at = "replace" => t.entry.isStored

HandlersInOrder ==
    /\ \A t \in tasks : t.actor = gateway => UpToDate(t)
    /\ \A t, u \in tasks : t.actor = u.actor /\ t.event = u.event => t = u

KeptInv == StoredFirst /\ HandlersInOrder

\* Every event has at most one handler of an actor.
LEMMA OneHandler ==
    ASSUME HandlersInOrder,
           \/ tasks' \subseteq tasks
           \/ \E t \in tasks : \E at, entry : Step(t, at, entry)
           \/ \E actor, i : Deliver(actor, i, NoEntry)
    PROVE  \A t, u \in tasks' : t.actor = u.actor /\ t.event = u.event => t = u
<1>1. CASE tasks' \subseteq tasks
  BY <1>1 DEF HandlersInOrder
<1>2. ASSUME NEW t \in tasks, NEW at, NEW entry, Step(t, at, entry)
      PROVE  \A v, u \in tasks' : v.actor = u.actor /\ v.event = u.event => v = u
  BY <1>2 DEF HandlersInOrder, Step, Task
<1>3. ASSUME NEW actor, NEW i, Deliver(actor, i, NoEntry)
      PROVE  \A v, u \in tasks' : v.actor = u.actor /\ v.event = u.event => v = u
  BY <1>3 DEF HandlersInOrder, Deliver, Task
<1> QED
  BY <1>1, <1>2, <1>3

\* Steps that leave the gateway's database and the chain alone.
LEMMA KeptQuiet ==
    ASSUME KeptInv, UNCHANGED <<gwDb, chain>>,
           \A m \in relayed' : gwDb[m.payloadHash].isStored,
           \A t \in tasks' : t.actor = gateway => t \in tasks \/ UpToDate(t),
           \/ tasks' \subseteq tasks
           \/ \E t \in tasks : \E at, entry : Step(t, at, entry)
           \/ \E actor, i : Deliver(actor, i, NoEntry)
    PROVE  KeptInv'
<1>a. StoredFirst /\ HandlersInOrder /\ UNCHANGED <<payloads, log>>
  BY DEF KeptInv, chain
<1>1. StoredFirst'
  BY <1>a DEF StoredFirst
<1>2. \A t : UpToDate(t)' <=> UpToDate(t)
  BY <1>a DEF UpToDate, EventOf
<1>3. \A t, u \in tasks' : t.actor = u.actor /\ t.event = u.event => t = u
  BY <1>a, OneHandler
<1> QED
  BY <1>a, <1>1, <1>2, <1>3 DEF KeptInv, HandlersInOrder

\* A handler of the gateway that writes back an entry, which says stored.
LEMMA KeptWrite ==
    ASSUME LogInv, ActorInv, KeptInv, UNCHANGED <<relayed, chain>>,
           NEW t \in tasks, t.actor = gateway,
           NEW at, Step(t, at, NoEntry), at \in {"send", "done"},
           NEW entry, gwDb' = [gwDb EXCEPT ![EventOf(t).payloadHash] = entry],
           entry.known, entry.isStored,
           gwDb[EventOf(t).payloadHash].isStored \/ EventOf(t).event = "PayloadAdded"
    PROVE  KeptInv'
<1> DEFINE h == EventOf(t).payloadHash
           new == Task(t.actor, t.event, at, NoEntry)
<1>a. /\ StoredFirst /\ HandlersInOrder /\ UNCHANGED <<payloads, log>>
      /\ gwDb \in [Hash -> GwEntryType] /\ h \in Hash /\ t.event \in DOMAIN log
  BY EventFacts DEF KeptInv, chain, ActorInv, EntriesFit, TasksFit, EventOf
<1>1. \A g \in Hash : gwDb'[g] = IF g = h THEN entry ELSE gwDb[g]
  BY <1>a
<1>b. gwDb' \in [Hash -> GwEntryType \cup {entry}]
  BY <1>a
<1>2. StoredFirst'
  BY <1>a, <1>1 DEF StoredFirst, ActorInv, RelayedFit
<1>3. ASSUME NEW u \in tasks, u.actor = gateway, u # t PROVE UpToDate(u)'
  <2>1. u.event \in DOMAIN log /\ EventOf(u)' = EventOf(u) /\ EventOf(u).payloadHash \in Hash
    BY <1>a, EventFacts DEF ActorInv, TasksFit, EventOf
  <2>2. UpToDate(u)
    BY <1>3, <1>a DEF HandlersInOrder
  <2>3. CASE EventOf(u).payloadHash # h
    BY <1>1, <2>1, <2>2, <2>3 DEF UpToDate
  <2>4. CASE EventOf(u).payloadHash = h
    <3>1. ~(EventOf(u).event = "PayloadAdded" /\ u.at \in {"get", "replace"})
      <4>1. SUFFICES ASSUME EventOf(u).event = "PayloadAdded", u.at \in {"get", "replace"} PROVE FALSE
        OBVIOUS
      <4>2. EventOf(t).event = "PayloadAdded"
        BY <2>2, <2>4, <4>1 DEF UpToDate
      <4>3. u.event = t.event
        BY <1>a, <2>1, <2>4, <4>1, <4>2, AddedOnce DEF EventOf
      <4> QED
        BY <1>3, <1>a, <4>3 DEF HandlersInOrder
    <3> QED
      BY <1>1, <2>1, <2>2, <2>4, <3>1 DEF UpToDate
  <2> QED
    BY <2>3, <2>4
<1>4. UpToDate(new)'
  <2>1. new.event = t.event /\ new.at = at
    BY DEF Task
  <2>2. EventOf(new)' = EventOf(t)
    BY <1>a, <2>1 DEF EventOf
  <2> QED
    BY <1>a, <1>1, <2>1, <2>2 DEF UpToDate
<1>5. \A v, u \in tasks' : v.actor = u.actor /\ v.event = u.event => v = u
  BY <1>a, OneHandler
<1>6. \A u \in tasks' : u.actor = gateway => UpToDate(u)'
  <2> SUFFICES ASSUME NEW u \in tasks', u.actor = gateway PROVE UpToDate(u)'
    OBVIOUS
  <2>1. u = new \/ (u \in tasks /\ u # t)
    BY DEF Step
  <2> QED
    BY <1>3, <1>4, <2>1
<1> QED
  BY <1>2, <1>5, <1>6 DEF KeptInv, HandlersInOrder

\* The gateway's database keeps what it says of payloads.
NothingUndone == \A h \in Hash : /\ gwDb[h].isStored => gwDb'[h].isStored
                                 /\ gwDb[h].isApproved => gwDb'[h].isApproved

\* The gateway's two event handlers.
LEMMA KeptHandlers ==
    ASSUME LogInv, ActorInv, KeptInv, NEW t \in tasks,
           GatewayPayloadAdded(t) \/ GatewayDeviceApproved(t)
    PROVE  KeptInv' /\ NothingUndone
<1> DEFINE h == EventOf(t).payloadHash
<1>a. /\ StoredFirst /\ UpToDate(t) /\ t.actor = gateway /\ UNCHANGED chain
      /\ gwDb \in [Hash -> GwEntryType] /\ t.event \in DOMAIN log /\ h \in Hash
      /\ GatewayTask(t) /\ \A m \in relayed : m.payloadHash \in Hash
  BY EventFacts DEF KeptInv, HandlersInOrder, ActorInv, EntriesFit, TasksFit, RelayedFit, EventOf,
     GatewayPayloadAdded, GatewayDeviceApproved
<1>b. EventOf(t).event = "DeviceApproved" => gwDb[h].isStored
  BY <1>a, EventFacts DEF StoredFirst, EventOf, Approvals
<1>1. CASE t.at = "replace" /\ GatewayPayloadAdded(t)
  <2> DEFINE entry == [t.entry EXCEPT !.isStored = TRUE, !.approver = EventOf(t).approver]
  <2>1. /\ gwDb' = [gwDb EXCEPT ![h] = entry] /\ Step(t, "send", NoEntry)
        /\ UNCHANGED relayed /\ EventOf(t).event = "PayloadAdded"
    BY <1>1 DEF GatewayPayloadAdded, Look, updatePayloadStateToStored
  <2>2. entry.known /\ entry.isStored
    BY <1>a, <1>1 DEF UpToDate, GatewayTask, EntryBehindChain, GwEntryType
  <2>3. ~gwDb[h].isStored /\ ~gwDb[h].isApproved
    BY <1>a, <1>1, <2>1 DEF UpToDate, StoredFirst
  <2> HIDE DEF entry
  <2>4. NothingUndone
    BY <1>a, <2>1, <2>2, <2>3 DEF NothingUndone
  <2> QED
    BY <1>a, <2>1, <2>2, <2>4, KeptWrite
<1>2. CASE t.at = "replace" /\ GatewayDeviceApproved(t)
  <2> DEFINE entry == [t.entry EXCEPT !.isApproved = TRUE]
  <2>1. /\ gwDb' = [gwDb EXCEPT ![h] = entry] /\ Step(t, "done", NoEntry)
        /\ UNCHANGED relayed /\ EventOf(t).event = "DeviceApproved"
    BY <1>2 DEF GatewayDeviceApproved, Look, updatePayloadStateToApproved
  <2>2. entry.known /\ entry.isStored /\ entry.isApproved
    BY <1>a, <1>2, <2>1 DEF UpToDate, GatewayTask, EntryBehindChain, GwEntryType
  <2> HIDE DEF entry
  <2>3. NothingUndone
    BY <1>a, <2>1, <2>2 DEF NothingUndone
  <2> QED
    BY <1>a, <1>b, <2>1, <2>2, <2>3, KeptWrite
<1>3. CASE t.at # "replace"
  <2>1. gwDb' = gwDb
    BY <1>3 DEF GatewayPayloadAdded, GatewayDeviceApproved, Look
  <2>2. \A m \in relayed' : gwDb[m.payloadHash].isStored
    <3>1. \/ relayed' = relayed
          \/ t.at = "send" /\ relayed' = relayed \cup {Relay(h, restarts)}
      BY <1>3 DEF GatewayPayloadAdded, GatewayDeviceApproved
    <3>2. t.at = "send" => gwDb[h].isStored
      BY <1>a DEF UpToDate, GatewayPayloadAdded, GatewayDeviceApproved, Look
    <3> QED
      BY <1>a, <3>1, <3>2 DEF StoredFirst, Relay
  <2>3. PICK at, entry :
            /\ Step(t, at, entry)
            /\ at \in {"get", "replace"} /\ EventOf(t).event = "PayloadAdded" => ~gwDb[h].isStored
            /\ at = "replace" => entry = gwDb[h] /\ gwDb[h].known
            /\ at # "send"
    BY <1>a, <1>3 DEF GatewayPayloadAdded, GatewayDeviceApproved, Look, UpToDate, StoredFirst,
       isPayloadStored
  <2> DEFINE new == Task(t.actor, t.event, at, entry)
  <2>4. UpToDate(new)
    <3>1. EventOf(new) = EventOf(t) /\ new.at = at /\ new.entry = entry
      BY DEF Task, EventOf
    <3> QED
      BY <1>b, <2>3, <3>1 DEF UpToDate
  <2>5. \A u \in tasks' : u.actor = gateway => u \in tasks \/ UpToDate(u)
    BY <2>3, <2>4 DEF Step
  <2> QED
    BY <1>a, <2>1, <2>2, <2>3, <2>5, KeptQuiet DEF NothingUndone
<1> QED
  BY <1>1, <1>2, <1>3

\* The other steps of the programs.
LEMMA KeptPrograms ==
    ASSUME LogInv, ActorInv, KeptInv,
           \/ \E r \in Request : ReceiveRequest(r) \/ SendStore(r)
           \/ \E m \in relayed : VendorHandles(m)
           \/ GatewayDelivers \/ VendorDelivers \/ RestartGateway
           \/ \E t \in tasks : VendorPayloadAdded(t) \/ VendorDeviceApproved(t)
    PROVE  KeptInv' /\ NothingUndone
<1>a. UNCHANGED <<gwDb, chain>> /\ gateway # vendor /\ StoredFirst
  BY ConstantsFit
     DEF ReceiveRequest, SendStore, VendorHandles, VendorReadsPayload, VendorSendsApproval,
         GatewayDelivers, VendorDelivers, RestartGateway, VendorPayloadAdded, VendorDeviceApproved,
         KeptInv
<1>1. \A m \in relayed' : gwDb[m.payloadHash].isStored
  <2>1. CASE relayed' = relayed
    BY <1>a, <2>1 DEF StoredFirst
  <2>2. ASSUME NEW m \in relayed, NEW to, Answer(m, to)
        PROVE  \A n \in relayed' : gwDb[n.payloadHash].isStored
    <3> DEFINE n == [m EXCEPT !.at = to]
    <3>1. n.payloadHash = m.payloadHash /\ relayed' = (relayed \ {m}) \cup {n}
      BY <2>2 DEF Answer
    <3> QED
      BY <1>a, <2>2, <3>1 DEF StoredFirst
  <2> QED
    BY <2>1, <2>2
       DEF ReceiveRequest, SendStore, VendorHandles, VendorReadsPayload, VendorSendsApproval,
           GatewayDelivers, VendorDelivers, RestartGateway, VendorPayloadAdded, VendorDeviceApproved
<1>2. /\ \A t \in tasks' : t.actor = gateway => t \in tasks \/ UpToDate(t)
      /\ \/ tasks' \subseteq tasks
         \/ \E t \in tasks : \E at, entry : Step(t, at, entry)
         \/ \E actor, i : Deliver(actor, i, NoEntry)
  <2>1. CASE GatewayDelivers \/ VendorDelivers
    <3>1. PICK actor, i : Deliver(actor, i, NoEntry)
      BY <2>1 DEF GatewayDelivers, VendorDelivers
    <3>2. UpToDate(Task(actor, i, "check", NoEntry))
      BY DEF UpToDate, Task
    <3> QED
      BY <3>1, <3>2 DEF Deliver
  <2>2. ASSUME NEW t \in tasks, VendorPayloadAdded(t) \/ VendorDeviceApproved(t)
        PROVE  /\ \A u \in tasks' : u.actor = gateway => u \in tasks \/ UpToDate(u)
               /\ \E u \in tasks : \E at, entry : Step(u, at, entry)
    <3>1. t.actor = vendor /\ \E at, entry : Step(t, at, entry)
      BY <2>2 DEF VendorPayloadAdded, VendorDeviceApproved, Look
    <3> QED
      BY <1>a, <3>1 DEF Step, Task
  <2>3. CASE tasks' \subseteq tasks
    BY <2>3
  <2> QED
    BY <2>1, <2>2, <2>3
       DEF ReceiveRequest, SendStore, VendorHandles, VendorReadsPayload, VendorSendsApproval,
           RestartGateway
<1> QED
  BY <1>a, <1>1, <1>2, KeptQuiet DEF NothingUndone

\* A request's hash is stored in the contract by that request only, so the entry that
\* it stores in the database is the first.
LEMMA KeptFirst ==
    ASSUME HashesDiffer, LogInv, ActorInv, KeptInv, NEW r \in Request, StoreNewPayload(r)
    PROVE  KeptInv' /\ NothingUndone
<1> DEFINE h == hashOf[r]
<1>a. /\ StoredFirst /\ HandlersInOrder /\ h \in Hash \ {gatewayHash}
      /\ gwDb \in [Hash -> GwEntryType] /\ UNCHANGED <<payloads, log, tasks, relayed>>
      /\ request[r] = "storing" /\ gwDb' = [gwDb EXCEPT ![h] = NewEntry]
  BY ConstantsFit DEF KeptInv, ActorInv, EntriesFit, StoreNewPayload, Goto, storeNewPayload, chain
<1>b. NewEntry.known /\ ~NewEntry.isStored /\ ~NewEntry.isApproved
  BY DEF NewEntry, NoEntry
<1>1. ~gwDb[h].isStored /\ ~gwDb[h].isApproved
  <2>1. ~payloads[h].isValue
    BY <1>a DEF HashesDiffer, ActorInv, PayloadsFit, StoredFor
  <2> QED
    BY <1>a, <2>1 DEF StoredFirst, ActorInv, DatabasesBehindChain
<1>2. \A g \in Hash : gwDb'[g] = IF g = h THEN NewEntry ELSE gwDb[g]
  BY <1>a
<1>3. StoredFirst'
  <2>1. \A m \in relayed : m.payloadHash \in Hash
    BY DEF ActorInv, RelayedFit
  <2> QED
    BY <1>a, <1>b, <1>1, <1>2, <2>1 DEF StoredFirst
<1>4. HandlersInOrder'
  <2> SUFFICES ASSUME NEW t \in tasks, t.actor = gateway PROVE UpToDate(t)'
    BY <1>a DEF HandlersInOrder
  <2>1. EventOf(t)' = EventOf(t) /\ EventOf(t).payloadHash \in Hash
    BY <1>a, EventFacts DEF ActorInv, TasksFit, EventOf
  <2> QED
    BY <1>a, <1>b, <1>1, <1>2, <2>1 DEF HandlersInOrder, UpToDate
<1> QED
  BY <1>1, <1>2, <1>3, <1>4 DEF KeptInv, NothingUndone

\* The chain approves only what the gateway has as stored.
LEMMA KeptChain ==
    ASSUME LogInv, LogInv', ActorInv, KeptInv, [Next]_vars,
           UNCHANGED <<tasks, gwDb, relayed>>,
           \/ \E r \in Request : MineStore(r)
           \/ \E m \in relayed : MineApproval(m)
           \/ \E tx \in pool : Refuse(tx)
           \/ OwnerRevokesGateway \/ UNCHANGED allVars
    PROVE  KeptInv' /\ NothingUndone
<1>a. /\ StoredFirst /\ HandlersInOrder /\ payloads \in [Hash -> Payload] /\ log \in Seq(Event)
      /\ gatewayHash \in Hash /\ payloads[gatewayHash].isApproved
      /\ \A m \in relayed : m.payloadHash \in Hash
      /\ \A r \in Request : hashOf[r] \in Hash
      /\ DOMAIN log \subseteq DOMAIN log' /\ \A i \in DOMAIN log : log'[i] = log[i]
  BY ConstantsFit, ChainGrows
     DEF KeptInv, ActorInv, LogInv, TypeOK, PayloadsFit, RelayedFit
<1>1. \/ UNCHANGED <<payloads, log>>
      \/ \E h \in Hash, e \in Event :
            /\ log' = Append(log, e)
            /\ \/ /\ e.event # "DeviceApproved"
                  /\ \A g \in Hash : payloads'[g].isApproved = payloads[g].isApproved
               \/ /\ e.payloadHash = h /\ h # gatewayHash /\ gwDb[h].isStored
                  /\ \A g \in Hash \ {h} : payloads'[g] = payloads[g]
  <2>1. ASSUME NEW r \in Request, MineStore(r)
        PROVE  \/ UNCHANGED <<payloads, log>>
               \/ \E e \in Event :
                     /\ log' = Append(log, e) /\ e.event # "DeviceApproved"
                     /\ \A g \in Hash : payloads'[g].isApproved = payloads[g].isApproved
    <3> DEFINE e == PayloadAdded(hashOf[r], gateway, deviceOf[r], vendorOf[r])
    <3>1. e \in Event /\ e.event = "PayloadAdded"
      BY <1>a, ConstantsFit DEF PayloadAdded, Event
    <3>2. CASE storePayload(gateway, hashOf[r], deviceOf[r], vendorOf[r])
      <4>1. log' = Append(log, e)
        BY <3>2 DEF storePayload, Emit
      <4>2. \A g \in Hash : payloads'[g].isApproved = payloads[g].isApproved
        BY <1>a, <3>2 DEF storePayload, Payload
      <4> QED
        BY <3>1, <4>1, <4>2
    <3> QED
      BY <2>1, <3>2 DEF MineStore, chain
  <2>2. ASSUME NEW m \in relayed, MineApproval(m)
        PROVE  \/ UNCHANGED <<payloads, log>>
               \/ \E e \in Event :
                     /\ log' = Append(log, e)
                     /\ e.payloadHash = m.payloadHash /\ m.payloadHash # gatewayHash
                     /\ gwDb[m.payloadHash].isStored
                     /\ \A g \in Hash \ {m.payloadHash} : payloads'[g] = payloads[g]
    <3> DEFINE h == m.payloadHash
               e == DeviceApproved(h, vendor, payloads[h].source, payloads[h].target)
    <3>1. e \in Event /\ e.payloadHash = h
      BY <1>a, ConstantsFit DEF DeviceApproved, Event, Payload
    <3>2. CASE approveDevice(vendor, h)
      <4>1. log' = Append(log, e)
        BY <3>2 DEF approveDevice, Emit
      <4>2. h # gatewayHash /\ \A g \in Hash \ {h} : payloads'[g] = payloads[g]
        BY <1>a, <3>2 DEF approveDevice, payloadMustBeNotApproved
      <4>3. gwDb[h].isStored
        BY <1>a DEF StoredFirst
      <4> QED
        BY <3>1, <4>1, <4>2, <4>3
    <3> QED
      BY <2>2, <3>2 DEF MineApproval, chain
  <2>3. CASE OwnerRevokesGateway
    <3> DEFINE e == GatewayRevoked(gatewayHash, owner, gateway)
    <3>1. e \in Event /\ e.event = "GatewayRevoked"
      BY <1>a, ConstantsFit DEF GatewayRevoked, Event
    <3>2. log' = Append(log, e)
      BY <2>3 DEF OwnerRevokesGateway, revokeGateway, Emit
    <3>3. \A g \in Hash : payloads'[g].isApproved = payloads[g].isApproved
      BY <1>a, <2>3 DEF OwnerRevokesGateway, revokeGateway, Payload
    <3> QED
      BY <1>a, <3>1, <3>2, <3>3
  <2>4. CASE (\E tx \in pool : Refuse(tx)) \/ UNCHANGED allVars
    BY <2>4 DEF Refuse, allVars, chain
  <2> QED
    BY <1>a, <2>1, <2>2, <2>3, <2>4
<1>2. StoredFirst'
  <2>1. CASE UNCHANGED <<payloads, log>>
    BY <1>a, <2>1 DEF StoredFirst
  <2>2. ASSUME NEW h \in Hash, NEW e \in Event, log' = Append(log, e),
               \/ /\ e.event # "DeviceApproved"
                  /\ \A g \in Hash : payloads'[g].isApproved = payloads[g].isApproved
               \/ /\ e.payloadHash = h /\ h # gatewayHash /\ gwDb[h].isStored
                  /\ \A g \in Hash \ {h} : payloads'[g] = payloads[g]
        PROVE  StoredFirst'
    <3>1. \A i \in DOMAIN log' : i \in DOMAIN log \/ log'[i] = e
      BY <1>a, <2>2
    <3>2. \A i \in DOMAIN log' : log'[i].event = "DeviceApproved" => log'[i].payloadHash # gatewayHash
      BY <1>a, <2>2, <3>1 DEF StoredFirst
    <3>3. \A g \in Hash \ {gatewayHash} : payloads'[g].isApproved => gwDb[g].isStored
      BY <1>a, <2>2 DEF StoredFirst
    <3> QED
      BY <1>a, <3>2, <3>3 DEF StoredFirst
  <2> QED
    BY <1>1, <2>1, <2>2
<1>3. HandlersInOrder'
  <2>1. \A t \in tasks : EventOf(t)' = EventOf(t)
    BY <1>a DEF ActorInv, TasksFit, EventOf
  <2> QED
    BY <1>a, <2>1 DEF HandlersInOrder, UpToDate
<1> QED
  BY <1>2, <1>3 DEF KeptInv, NothingUndone

LEMMA KeptStep ==
    ASSUME HashesDiffer
    PROVE  LogInv /\ LogInv' /\ ActorInv /\ KeptInv /\ [NextAll]_allVars => KeptInv' /\ NothingUndone
<1> SUFFICES ASSUME LogInv, LogInv', ActorInv, KeptInv, [NextAll]_allVars
             PROVE  KeptInv' /\ NothingUndone
  OBVIOUS
<1>a. [Next]_vars
  BY ChainSteps DEF ActorInv
<1>1. ASSUME NEW r \in Request, ReceiveRequest(r) \/ GatewayHandles(r)
      PROVE  KeptInv' /\ NothingUndone
  BY <1>1, KeptPrograms, KeptFirst DEF GatewayHandles
<1>2. CASE (\E m \in relayed : VendorHandles(m)) \/ RestartGateway
  BY <1>2, KeptPrograms
<1>3. CASE Events
  BY <1>3, KeptPrograms, KeptHandlers DEF Events
<1>4. CASE Mining \/ OwnerRevokesGateway \/ UNCHANGED allVars
  <2>1. UNCHANGED <<tasks, gwDb, relayed>>
    BY <1>4 DEF Mining, MineStore, MineApproval, Refuse, Mine, OwnerRevokesGateway, actors, allVars
  <2> QED
    BY <1>a, <1>4, <2>1, KeptChain DEF Mining
<1> QED
  BY <1>1, <1>2, <1>3, <1>4 DEF NextAll

LEMMA KeptInit == InitAll => KeptInv
<1> SUFFICES ASSUME InitAll PROVE KeptInv
  OBVIOUS
<1>1. ~NoEntry.isStored /\ ~NoEntry.isApproved /\ ~NoPayload.isApproved
  BY DEF NoEntry, NoPayload
<1>2. \A i \in DOMAIN log : log[i].event # "DeviceApproved"
  BY DEF InitAll, PayloadAdded, GatewayApproved
<1>3. StoredFirst
  BY <1>1, <1>2 DEF InitAll, StoredFirst
<1> QED
  BY <1>3 DEF InitAll, KeptInv, HandlersInOrder

\* If no hash is requested twice, the gateway does not forget that a payload is stored
\* or approved, whatever is delivered again after a restart.
THEOREM ApprovalIsKept == ASSUME HashesDiffer PROVE SpecAll => ApprovalKept
<1>1. InitAll => KeptInv
  BY KeptInit
<1>2. LogInv /\ ActorInv /\ (LogInv /\ ActorInv)' /\ KeptInv /\ [NextAll]_allVars => KeptInv'
  BY KeptStep
<1>3. LogInv /\ ActorInv /\ (LogInv /\ ActorInv)' /\ KeptInv /\ [NextAll]_allVars =>
          [\A h \in Hash : /\ gwDb[h].isStored => gwDb'[h].isStored
                           /\ gwDb[h].isApproved => gwDb'[h].isApproved]_allVars
  BY KeptStep DEF NothingUndone
<1> QED
  BY <1>1, <1>2, <1>3, SystemInvariant, PTL DEF SpecAll, ApprovalKept
-------------------------------------------------------------------------------
(* Where nothing is left to do, the request has ended.                     *)

\* The kinds of the payloads of this system.
Kind == [h \in Hash |-> IF h = gatewayHash THEN "gateway" ELSE "device"]

\* The handler t of the gateway is about a device's payload.
AboutDevice(t) == t.actor = gateway /\ EventOf(t).payloadHash # gatewayHash

\* No handler throws, and one that has ended has done its work.
TaskOnTrack(t) ==
    LET entry == gwDb[EventOf(t).payloadHash]
    IN /\ EventOf(t).event \in {"PayloadAdded", "DeviceApproved"}
       /\ t.at # "failed"
       /\ t.at = "done" => IF EventOf(t).event = "PayloadAdded" THEN entry.isStored ELSE entry.isApproved

TasksOnTrack == \A t \in tasks : AboutDevice(t) => TaskOnTrack(t)

Sending(t, h) == /\ t.actor = gateway /\ t.at = "send"
                 /\ EventOf(t).event = "PayloadAdded" /\ EventOf(t).payloadHash = h

\* A payload that is stored was relayed, or is about to be, or a restart came in between.
StoredIsRelayed ==
    \A h \in Hash : gwDb[h].isStored =>
        restarts > 0 \/ (\E m \in relayed : m.payloadHash = h) \/ \E t \in tasks : Sending(t, h)

RequestsKnown == \A r \in Request : request[r] \in {"sending", "ok"} => gwDb[hashOf[r]].known

TrackInv == MethodsMatch(Kind) /\ TasksOnTrack /\ StoredIsRelayed /\ RequestsKnown

\* A step of the chain keeps the events of the handlers.
LEMMA EventsStay ==
    ASSUME LogInv, LogInv', [Next]_vars, TasksFit
    PROVE  \A t \in tasks : t.event \in DOMAIN log /\ EventOf(t)' = EventOf(t)
  BY ChainGrows DEF TasksFit, EventOf

\* Where nothing is undone, only the handler that goes on has something to show.
LEMMA TasksTrack ==
    ASSUME LogInv, LogInv', [Next]_vars, ActorInv, TasksOnTrack, NothingUndone,
           \A u \in tasks' : u \in tasks \/ (AboutDevice(u)' => TaskOnTrack(u)')
    PROVE  TasksOnTrack'
<1> SUFFICES ASSUME NEW u \in tasks, AboutDevice(u)' PROVE TaskOnTrack(u)'
  BY DEF TasksOnTrack
<1>1. u.event \in DOMAIN log /\ EventOf(u)' = EventOf(u) /\ EventOf(u).payloadHash \in Hash
  BY EventsStay, EventFacts DEF ActorInv, TasksFit, EventOf
<1>2. TaskOnTrack(u)
  BY <1>1 DEF AboutDevice, TasksOnTrack
<1> QED
  BY <1>1, <1>2 DEF TaskOnTrack, NothingUndone

\* The gateway's handlers.
LEMMA TrackHandlers ==
    ASSUME LogInv, LogInv', [Next]_vars, ActorInv, KeptInv, TrackInv, NothingUndone, NEW t \in tasks,
           GatewayPayloadAdded(t) \/ GatewayDeviceApproved(t)
    PROVE  TasksOnTrack' /\ StoredIsRelayed' /\ RequestsKnown'
<1> DEFINE h == EventOf(t).payloadHash
<1>a. /\ StoredFirst /\ UpToDate(t) /\ t.actor = gateway /\ UNCHANGED <<payloads, log, request, restarts>>
      /\ gwDb \in [Hash -> GwEntryType] /\ t.event \in DOMAIN log /\ h \in Hash
      /\ GatewayTask(t) /\ TasksOnTrack /\ StoredIsRelayed /\ RequestsKnown
      /\ EventOf(t) = log[t.event]
  BY EventFacts DEF KeptInv, HandlersInOrder, ActorInv, EntriesFit, TasksFit, EventOf, TrackInv,
     GatewayPayloadAdded, GatewayDeviceApproved, chain
<1>b. EventOf(t).event \in {"PayloadAdded", "DeviceApproved"}
  BY DEF GatewayPayloadAdded, GatewayDeviceApproved
<1>1. ASSUME h # gatewayHash PROVE gwDb[h].known /\ IsForDevice(h, EventOf(t).target)
  <2>1. payloads[h].isValue
    BY <1>a, EventFacts
       DEF GatewayPayloadAdded, GatewayDeviceApproved, Approvals, LogInv, LogMatchesPayloads, FlagsInOrder
  <2>2. PICK r \in Request : hashOf[r] = h /\ request[r] = "ok" /\ payloads[h].target = deviceOf[r]
    BY <1>1, <1>a, <2>1 DEF ActorInv, PayloadsFit, StoredFor
  <2>3. EventOf(t).target = payloads[h].target
    BY <1>a, <1>b DEF LogInv, LogMatchesPayloads, PartiesAreLogged, Announces
  <2>4. IsForDevice(h, EventOf(t).target)
    BY <2>2, <2>3, DeviceAuthenticationAssumption DEF IsForDevice
  <2> QED
    BY <1>a, <2>2, <2>4 DEF RequestsKnown
<1>2. ASSUME EventOf(t).event = "DeviceApproved"
      PROVE  h # gatewayHash /\ gwDb[h].isStored /\ gwDb[h].approver = EventOf(t).sender
  <2>1. h # gatewayHash /\ gwDb[h].isStored
    BY <1>2, <1>a, EventFacts DEF StoredFirst, Approvals
  <2>2. EventOf(t).sender = payloads[h].approver
    BY <1>2, <1>a DEF LogInv, LogMatchesPayloads, PartiesAreLogged, Announces, Approvals
  <2> QED
    BY <1>a, <2>1, <2>2 DEF ActorInv, DatabasesBehindChain
<1>3. PICK at, entry :
          /\ Step(t, at, entry)
          /\ at = "send" <=> t.at = "replace" /\ EventOf(t).event = "PayloadAdded"
          /\ h # gatewayHash => at # "failed"
          /\ at = "done" => IF EventOf(t).event = "PayloadAdded"
                            THEN gwDb'[h].isStored ELSE gwDb'[h].isApproved
          /\ t.at = "send" => relayed' = relayed \cup {Relay(h, restarts)}
          /\ t.at # "send" => relayed' = relayed
          /\ gwDb' = gwDb \/ (t.at = "replace" /\ gwDb' = [gwDb EXCEPT ![h] = gwDb'[h]] /\ gwDb'[h].known)
  <2>1. CASE t.at = "replace" /\ GatewayPayloadAdded(t)
    <3> DEFINE e == [t.entry EXCEPT !.isStored = TRUE, !.approver = EventOf(t).approver]
    <3>1. e.known
      BY <1>a, <2>1 DEF GatewayTask, EntryBehindChain, UpToDate, GwEntryType
    <3>2. gwDb' = [gwDb EXCEPT ![h] = e] /\ Step(t, "send", NoEntry) /\ relayed' = relayed
      BY <2>1 DEF GatewayPayloadAdded, Look, updatePayloadStateToStored
    <3> HIDE DEF e
    <3> QED
      BY <1>a, <2>1, <3>1, <3>2 DEF GatewayPayloadAdded
  <2>2. CASE t.at = "replace" /\ GatewayDeviceApproved(t)
    <3> DEFINE e == [t.entry EXCEPT !.isApproved = TRUE]
    <3>1. e.known /\ e.isApproved
      BY <1>a, <2>2 DEF GatewayTask, EntryBehindChain, UpToDate, GwEntryType
    <3>2. gwDb' = [gwDb EXCEPT ![h] = e] /\ Step(t, "done", NoEntry) /\ relayed' = relayed
      BY <2>2 DEF GatewayDeviceApproved, Look, updatePayloadStateToApproved
    <3> HIDE DEF e
    <3> QED
      BY <1>a, <2>2, <3>1, <3>2 DEF GatewayDeviceApproved
  <2>3. CASE t.at # "replace" /\ GatewayPayloadAdded(t)
    BY <1>1, <1>a, <2>3 DEF GatewayPayloadAdded, Look, UpToDate, isPayloadStored
  <2>4. CASE t.at # "replace" /\ GatewayDeviceApproved(t)
    BY <1>1, <1>2, <1>a, <2>4 DEF GatewayDeviceApproved, Look, isPayloadApproved
  <2> QED
    BY <2>1, <2>2, <2>3, <2>4
<1> DEFINE new == Task(t.actor, t.event, at, entry)
<1>4. /\ tasks' = (tasks \ {t}) \cup {new} /\ new.actor = gateway /\ new.at = at
      /\ EventOf(new)' = EventOf(t)
  BY <1>a, <1>3 DEF Step, Task, EventOf
<1> HIDE DEF new
<1>5. RequestsKnown'
  <2>1. \A g \in Hash : gwDb[g].known => gwDb'[g].known
    <3>1. CASE gwDb' = gwDb
      BY <3>1
    <3>2. CASE gwDb' = [gwDb EXCEPT ![h] = gwDb'[h]] /\ gwDb'[h].known
      <4>1. \A g \in Hash : g # h => gwDb'[g] = gwDb[g]
        BY <1>a, <3>2
      <4> QED
        BY <3>2, <4>1
    <3> QED
      BY <1>3, <3>1, <3>2
  <2> QED
    BY <1>a, <2>1, ConstantsFit DEF RequestsKnown
<1>6. StoredIsRelayed'
  <2> SUFFICES ASSUME NEW g \in Hash, gwDb'[g].isStored, restarts = 0
               PROVE  (\E m \in relayed' : m.payloadHash = g) \/ \E u \in tasks' : Sending(u, g)'
    BY <1>a DEF StoredIsRelayed, ActorInv, RequestsFit
  <2>1. CASE g = h /\ at = "send"
    BY <1>3, <1>4, <2>1 DEF Sending
  <2>2. CASE g = h /\ t.at = "send"
    <3>1. Relay(h, restarts) \in relayed' /\ Relay(h, restarts).payloadHash = h
      BY <1>3, <2>2 DEF Relay
    <3> QED
      BY <2>2, <3>1
  <2>3. CASE (g # h \/ (at # "send" /\ t.at # "send")) /\ \E m \in relayed : m.payloadHash = g
    BY <1>3, <2>3
  <2>4. CASE (g # h \/ (at # "send" /\ t.at # "send")) /\ ~\E m \in relayed : m.payloadHash = g
    <3>1. gwDb[g].isStored
      BY <1>a, <1>2, <1>3, <2>4 DEF GatewayPayloadAdded, GatewayDeviceApproved
    <3>2. PICK u \in tasks : Sending(u, g)
      BY <1>a, <2>4, <3>1 DEF StoredIsRelayed
    <3>3. u # t /\ Sending(u, g)'
      BY <1>a, <2>4, <3>2 DEF Sending, EventOf
    <3> QED
      BY <1>4, <3>2, <3>3
  <2> QED
    BY <2>1, <2>2, <2>3, <2>4
<1>7. TasksOnTrack'
  <2>1. ASSUME AboutDevice(new)' PROVE TaskOnTrack(new)'
    BY <1>b, <1>3, <1>4, <2>1 DEF AboutDevice, TaskOnTrack
  <2> QED
    BY <1>a, <1>4, <2>1, TasksTrack
<1> QED
  BY <1>5, <1>6, <1>7

\* The other steps store nothing, and what they start has nothing to show yet.
LEMMA TrackOthers ==
    ASSUME LogInv, LogInv', [Next]_vars, ActorInv, TrackInv, NothingUndone,
           \A u \in tasks' : \/ u \in tasks \/ u.actor = vendor
                             \/ EventOf(u)'.event \in {"PayloadAdded", "DeviceApproved"} /\ u.at = "check",
           \/ restarts' > 0
           \/ restarts' = restarts /\ \A t \in tasks : t.actor = gateway => t \in tasks',
           \A m \in relayed : \E n \in relayed' : n.payloadHash = m.payloadHash,
           \A h \in Hash : gwDb'[h].isStored => gwDb[h].isStored,
           \A r \in Request : request'[r] \in {"sending", "ok"} => gwDb'[hashOf[r]].known
    PROVE  TasksOnTrack' /\ StoredIsRelayed' /\ RequestsKnown'
<1>1. TasksOnTrack'
  <2>1. \A u \in tasks' : u \in tasks \/ (AboutDevice(u)' => TaskOnTrack(u)')
    BY ConstantsFit DEF AboutDevice, TaskOnTrack
  <2> QED
    BY <2>1, TasksTrack DEF TrackInv
<1>2. StoredIsRelayed'
  <2> SUFFICES ASSUME NEW h \in Hash, gwDb'[h].isStored, ~(restarts' > 0), NEW t \in tasks, Sending(t, h)
               PROVE  \E u \in tasks' : Sending(u, h)'
    BY DEF TrackInv, StoredIsRelayed
  <2>1. t \in tasks' /\ EventOf(t)' = EventOf(t)
    BY EventsStay DEF Sending, ActorInv
  <2> QED
    BY <2>1 DEF Sending
<1> QED
  BY <1>1, <1>2 DEF RequestsKnown

\* The requests, at the gateway and at the vendor.
LEMMA TrackRequests ==
    ASSUME LogInv, LogInv', [Next]_vars, ActorInv, TrackInv, NothingUndone,
           \/ \E r \in Request : ReceiveRequest(r) \/ GatewayHandles(r)
           \/ \E m \in relayed : VendorHandles(m)
    PROVE  TasksOnTrack' /\ StoredIsRelayed' /\ RequestsKnown'
<1>a. /\ gwDb \in [Hash -> GwEntryType] /\ RequestsFit /\ RequestsKnown
      /\ \A r \in Request : hashOf[r] \in Hash
  BY ConstantsFit DEF ActorInv, EntriesFit, TrackInv
<1>1. ASSUME NEW r \in Request, ReceiveRequest(r) \/ GatewayHandles(r)
      PROVE  TasksOnTrack' /\ StoredIsRelayed' /\ RequestsKnown'
  <2>1. UNCHANGED <<tasks, relayed, restarts>>
    BY <1>1 DEF ReceiveRequest, GatewayHandles, StoreNewPayload, SendStore
  <2>2. CASE ReceiveRequest(r) \/ SendStore(r)
    <3>1. gwDb' = gwDb
      BY <2>2 DEF ReceiveRequest, SendStore
    <3>2. \A s \in Request : request'[s] \in {"sending", "ok"} => request[s] \in {"sending", "ok"}
      BY <1>a, <2>2 DEF ReceiveRequest, SendStore, Goto, RequestsFit
    <3> QED
      BY <1>a, <2>1, <3>1, <3>2, TrackOthers DEF RequestsKnown
  <2>3. CASE StoreNewPayload(r)
    <3>1. NewEntry.known /\ ~NewEntry.isStored
      BY DEF NewEntry, NoEntry
    <3>2. \A h \in Hash : gwDb'[h] = IF h = hashOf[r] THEN NewEntry ELSE gwDb[h]
      BY <1>a, <2>3 DEF StoreNewPayload, storeNewPayload
    <3>3. \A s \in Request : s # r => request'[s] = request[s]
      BY <1>a, <2>3 DEF StoreNewPayload, Goto, RequestsFit
    <3> QED
      BY <1>a, <2>1, <3>1, <3>2, <3>3, TrackOthers DEF RequestsKnown
  <2> QED
    BY <1>1, <2>2, <2>3 DEF GatewayHandles
<1>2. ASSUME NEW m \in relayed, VendorHandles(m)
      PROVE  TasksOnTrack' /\ StoredIsRelayed' /\ RequestsKnown'
  <2>1. UNCHANGED <<tasks, gwDb, request, restarts>>
    BY <1>2 DEF VendorHandles, VendorReadsPayload, VendorSendsApproval
  <2>2. PICK to : Answer(m, to)
    BY <1>2 DEF VendorHandles, VendorReadsPayload, VendorSendsApproval
  <2>3. \A n \in relayed : \E k \in relayed' : k.payloadHash = n.payloadHash
    <3>1. /\ [m EXCEPT !.at = to].payloadHash = m.payloadHash
          /\ relayed' = (relayed \ {m}) \cup {[m EXCEPT !.at = to]}
      BY <2>2 DEF Answer
    <3> QED
      BY <3>1
  <2> QED
    BY <1>a, <2>1, <2>3, TrackOthers DEF RequestsKnown
<1> QED
  BY <1>1, <1>2

\* The subscriptions, the vendor's handlers and a restart.
LEMMA TrackPrograms ==
    ASSUME LogInv, LogInv', [Next]_vars, ActorInv, TrackInv, NothingUndone,
           \/ GatewayDelivers \/ VendorDelivers \/ RestartGateway
           \/ \E t \in tasks : VendorPayloadAdded(t) \/ VendorDeviceApproved(t)
    PROVE  TasksOnTrack' /\ StoredIsRelayed' /\ RequestsKnown'
<1>a. RequestsKnown /\ UNCHANGED <<gwDb, relayed, log>> /\ gateway # vendor
  BY ConstantsFit
     DEF TrackInv, GatewayDelivers, VendorDelivers, RestartGateway, VendorPayloadAdded,
         VendorDeviceApproved, chain
<1>1. CASE GatewayDelivers \/ VendorDelivers
  <2>1. PICK actor, i : /\ Deliver(actor, i, NoEntry)
                        /\ actor = vendor \/ ForGateway(log[i])
    BY <1>1 DEF GatewayDelivers, VendorDelivers
  <2> DEFINE new == Task(actor, i, "check", NoEntry)
  <2>2. new.actor = actor /\ new.at = "check" /\ EventOf(new)' = log[i]
    BY <1>a DEF Task, EventOf
  <2>3. tasks' = tasks \cup {new} /\ UNCHANGED <<request, restarts>>
    BY <1>1, <2>1 DEF Deliver, GatewayDelivers, VendorDelivers
  <2> HIDE DEF new
  <2>4. \A u \in tasks' : \/ u \in tasks \/ u.actor = vendor
                          \/ EventOf(u)'.event \in {"PayloadAdded", "DeviceApproved"} /\ u.at = "check"
    BY <2>1, <2>2, <2>3 DEF ForGateway
  <2> QED
    BY <1>a, <2>3, <2>4, TrackOthers DEF RequestsKnown
<1>2. ASSUME NEW t \in tasks, VendorPayloadAdded(t) \/ VendorDeviceApproved(t)
      PROVE  TasksOnTrack' /\ StoredIsRelayed' /\ RequestsKnown'
  <2>1. t.actor = vendor /\ UNCHANGED <<request, restarts>> /\ \E at, entry : Step(t, at, entry)
    BY <1>2 DEF VendorPayloadAdded, VendorDeviceApproved, Look
  <2>2. /\ \A u \in tasks' : u \in tasks \/ u.actor = vendor
        /\ \A u \in tasks : u.actor = gateway => u \in tasks'
    BY <1>a, <2>1 DEF Step, Task
  <2> QED
    BY <1>a, <2>1, <2>2, TrackOthers DEF RequestsKnown
<1>3. CASE RestartGateway
  <2>1. tasks' \subseteq tasks /\ restarts' > 0
    BY <1>3 DEF RestartGateway, ActorInv, RequestsFit
  <2>2. \A r \in Request : request'[r] \in {"sending", "ok"} => request[r] = "ok"
    BY <1>3 DEF RestartGateway
  <2> QED
    BY <1>a, <2>1, <2>2, TrackOthers DEF RequestsKnown
<1> QED
  BY <1>1, <1>2, <1>3

\* The system uses the contract's methods for devices with the devices' payloads, and
\* revokeGateway with the gateway's.
LEMMA MethodsStep ==
    ASSUME LogInv, ActorInv, MethodsMatch(Kind), [NextAll]_allVars
    PROVE  MethodsMatch(Kind)'
<1> DEFINE OfItsKind(e) == e.event \in EventsOf(Kind[e.payloadHash])
<1>a. \A h \in Hash : Kind[h] = IF h = gatewayHash THEN "gateway" ELSE "device"
  BY DEF Kind
<1>1. CASE UNCHANGED log
  BY <1>1 DEF MethodsMatch, Kind
<1>2. ASSUME NEW e, OfItsKind(e), Emit(e) PROVE MethodsMatch(Kind)'
  <2>1. log \in Seq(Event) /\ log' = Append(log, e)
    BY <1>2 DEF Emit, LogInv, TypeOK
  <2>2. \A i \in DOMAIN log' : log'[i] = e \/ (i \in DOMAIN log /\ log'[i] = log[i])
    BY <2>1
  <2> HIDE DEF Kind
  <2>3. Kind' = Kind
    BY DEF Kind
  <2> QED
    BY <1>2, <2>2, <2>3 DEF MethodsMatch
<1>3. ASSUME UNCHANGED log \/ \E e : OfItsKind(e) /\ Emit(e) PROVE MethodsMatch(Kind)'
  BY <1>1, <1>2, <1>3
<1>4. ASSUME NEW r \in Request, MineStore(r) PROVE UNCHANGED log \/ \E e : OfItsKind(e) /\ Emit(e)
  <2>1. OfItsKind(PayloadAdded(hashOf[r], gateway, deviceOf[r], vendorOf[r]))
    BY <1>a, ConstantsFit DEF PayloadAdded, EventsOf
  <2> QED
    BY <1>4, <2>1 DEF MineStore, storePayload, chain
<1>5. ASSUME NEW m \in relayed, MineApproval(m)
      PROVE  UNCHANGED log \/ \E e : OfItsKind(e) /\ Emit(e)
  <2> DEFINE h == m.payloadHash
  <2>1. CASE approveDevice(vendor, h)
    <3>1. h \in Hash \ {gatewayHash}
      BY <2>1 DEF ActorInv, PayloadsFit, RelayedFit, approveDevice, payloadMustBeNotApproved
    <3>2. OfItsKind(DeviceApproved(h, vendor, payloads[h].source, payloads[h].target))
      BY <1>a, <3>1 DEF DeviceApproved, EventsOf
    <3> QED
      BY <2>1, <3>2 DEF approveDevice
  <2> QED
    BY <1>5, <2>1 DEF MineApproval, chain
<1>6. ASSUME OwnerRevokesGateway PROVE \E e : OfItsKind(e) /\ Emit(e)
  <2>1. OfItsKind(GatewayRevoked(gatewayHash, owner, gateway))
    BY <1>a, ConstantsFit DEF GatewayRevoked, EventsOf
  <2> QED
    BY <1>6, <2>1 DEF OwnerRevokesGateway, revokeGateway
<1>7. ASSUME NEW r \in Request, ReceiveRequest(r) \/ GatewayHandles(r) PROVE UNCHANGED log
  BY <1>7 DEF ReceiveRequest, GatewayHandles, StoreNewPayload, SendStore, chain
<1>8. ASSUME NEW m \in relayed, VendorHandles(m) PROVE UNCHANGED log
  BY <1>8 DEF VendorHandles, VendorReadsPayload, VendorSendsApproval, chain
<1>9. CASE Events \/ RestartGateway \/ (\E tx \in pool : Refuse(tx)) \/ UNCHANGED allVars
  <2>1. UNCHANGED log
    BY <1>9 DEF Events, GatewayDelivers, VendorDelivers, GatewayPayloadAdded, GatewayDeviceApproved,
       VendorPayloadAdded, VendorDeviceApproved, RestartGateway, Refuse, allVars, chain
  <2> QED
    BY <1>1, <2>1
<1> QED
  BY <1>1, <1>3, <1>4, <1>5, <1>6, <1>7, <1>8, <1>9 DEF NextAll, Mining

LEMMA TrackStep ==
    LogInv /\ LogInv' /\ ActorInv /\ KeptInv /\ NothingUndone /\ TrackInv /\ [NextAll]_allVars => TrackInv'
<1> SUFFICES ASSUME LogInv, LogInv', ActorInv, KeptInv, NothingUndone, TrackInv, [NextAll]_allVars
             PROVE  TasksOnTrack' /\ StoredIsRelayed' /\ RequestsKnown'
  BY MethodsStep DEF TrackInv
<1>a. [Next]_vars
  BY ChainSteps DEF ActorInv
<1>1. ASSUME NEW t \in tasks, GatewayPayloadAdded(t) \/ GatewayDeviceApproved(t)
      PROVE  TasksOnTrack' /\ StoredIsRelayed' /\ RequestsKnown'
  BY <1>a, <1>1, TrackHandlers
<1>2. CASE Mining \/ OwnerRevokesGateway \/ UNCHANGED allVars
  <2>1. UNCHANGED <<tasks, gwDb, relayed, request, restarts>>
    BY <1>2 DEF Mining, MineStore, MineApproval, Refuse, Mine, OwnerRevokesGateway, actors, allVars
  <2>2. RequestsKnown
    BY DEF TrackInv
  <2> QED
    BY <1>a, <2>1, <2>2, TrackOthers DEF RequestsKnown
<1> QED
  BY <1>a, <1>1, <1>2, TrackRequests, TrackPrograms DEF NextAll, Events

LEMMA MethodsInit == InitAll => MethodsMatch(Kind)
<1> SUFFICES ASSUME InitAll PROVE MethodsMatch(Kind)
  OBVIOUS
<1>1. /\ DOMAIN log = {1, 2}
      /\ log[1] = PayloadAdded(gatewayHash, owner, gateway, isp)
      /\ log[2] = GatewayApproved(gatewayHash, isp, gateway)
  BY DEF InitAll
<1>2. Kind[gatewayHash] = "gateway"
  BY ConstantsFit DEF Kind
<1> QED
  BY <1>1, <1>2 DEF MethodsMatch, EventsOf, PayloadAdded, GatewayApproved

LEMMA TrackInit == InitAll => TrackInv
<1> SUFFICES ASSUME InitAll PROVE TrackInv
  OBVIOUS
<1>1. ~NoEntry.isStored
  BY DEF NoEntry
<1> QED
  BY <1>1, MethodsInit DEF InitAll, TrackInv, TasksOnTrack, StoredIsRelayed, RequestsKnown

\* Where nothing is left to do for a request, its authentication has ended.
LEMMA SettledEnds ==
    ASSUME LogInv, ActorInv, KeptInv, TrackInv, NEW r \in Request, Settled(r)
    PROVE  Ended(hashOf[r])
<1> DEFINE h == hashOf[r]
<1>a. h \in Hash /\ h # gatewayHash /\ Kind[h] = "device" /\ NotMined(h)
  BY ConstantsFit DEF Kind, Settled
<1>1. CASE ~payloads[h].isValue
  BY <1>a, <1>1 DEF Ended, Refused
<1>2. CASE payloads[h].isValue
  <2>1. payloads[h].source = gateway
    BY <1>a, <1>2 DEF ActorInv, PayloadsFit, StoredFor
  <2>2. PICK i \in DOMAIN log : log[i].payloadHash = h /\ Rank(log[i]) = 1
    BY <1>2, <1>a DEF LogInv, LogMatchesPayloads, FlagsAreLogged, Logged
  <2>3. log[i].event = "PayloadAdded" /\ log[i].sender = gateway
    BY <2>1, <2>2 DEF Rank, LogInv, LogMatchesPayloads, PartiesAreLogged, Announces
  <2>4. PICK t \in tasks : t.actor = gateway /\ t.event = i /\ t.at \in {"done", "failed"}
    BY <2>2, <2>3 DEF Settled, ForGateway
  <2>5. gwDb[h].isStored
    BY <1>a, <2>2, <2>3, <2>4 DEF TrackInv, TasksOnTrack, AboutDevice, TaskOnTrack, EventOf
  <2>6. ASSUME NEW u \in tasks, Sending(u, h) PROVE FALSE
    <3>1. u.event \in DOMAIN log /\ EventOf(u) = log[u.event]
      BY DEF ActorInv, TasksFit, EventOf
    <3>2. u.event = i
      BY <2>2, <2>3, <2>6, <3>1, AddedOnce DEF Sending
    <3>3. u = t
      BY <2>4, <2>6, <3>2 DEF KeptInv, HandlersInOrder, Sending
    <3> QED
      BY <2>4, <2>6, <3>3 DEF Sending
  <2>7. CASE \A m \in relayed : m.payloadHash # h
    BY <1>a, <2>5, <2>6, <2>7 DEF TrackInv, StoredIsRelayed, Ended, CutShort
  <2>8. ASSUME NEW m \in relayed, m.payloadHash = h PROVE Ended(h)
    <3>1. m.at \in {"ok", "denied", "hung"}
      BY <2>8 DEF ActorInv, RelayedFit, Settled
    <3>2. CASE m.at # "ok"
      BY <2>8, <3>1, <3>2 DEF Ended, Unanswered
    <3>3. CASE m.at = "ok" /\ ~payloads[h].isApproved
      BY <1>a, <2>8, <3>3 DEF Ended, Refused
    <3>4. CASE m.at = "ok" /\ payloads[h].isApproved
      <4>1. PICK j \in DOMAIN log : log[j].payloadHash = h /\ Rank(log[j]) = 2
        BY <1>a, <3>4 DEF LogInv, LogMatchesPayloads, FlagsAreLogged, Logged
      <4>2. log[j].event = "DeviceApproved"
        BY <1>a, <4>1 DEF TrackInv, MethodsMatch, EventsOf, Rank, Approvals
      <4>3. log[j].source = gateway
        BY <2>1, <4>1, <4>2 DEF LogInv, LogMatchesPayloads, PartiesAreLogged, Announces
      <4>4. PICK u \in tasks : u.actor = gateway /\ u.event = j /\ u.at \in {"done", "failed"}
        BY <4>1, <4>2, <4>3 DEF Settled, ForGateway
      <4>5. gwDb[h].isApproved
        BY <1>a, <4>1, <4>2, <4>4 DEF TrackInv, TasksOnTrack, AboutDevice, TaskOnTrack, EventOf
      <4> QED
        BY <4>5 DEF Ended
    <3> QED
      BY <3>2, <3>3, <3>4
  <2> QED
    BY <2>7, <2>8
<1> QED
  BY <1>1, <1>2

\* If no hash is requested twice, a request for which nothing is left to do has its
\* approval in the gateway's database, or the vendor denied it or hung, or a transaction
\* was refused, or a restart cut the relay short: nothing else loses it, and the
\* gateway's handlers of its events never throw.
THEOREM SettledRequestHasEnded == ASSUME HashesDiffer PROVE SpecAll => []SettledHasEnded
<1> DEFINE Inv == LogInv /\ ActorInv /\ KeptInv /\ TrackInv
<1>1. InitAll => Inv
  BY LogInvInitAll, ActorInvInit, KeptInit, TrackInit
<1>2. Inv /\ [NextAll]_allVars => Inv'
  <2>1. ActorInv /\ [NextAll]_allVars => [Next]_vars
    BY ChainSteps DEF ActorInv
  <2> QED
    BY <2>1, LogInvStep, ActorInvStep, KeptStep, TrackStep
<1>3. Inv => SettledHasEnded
  BY SettledEnds DEF SettledHasEnded
<1> QED
  BY <1>1, <1>2, <1>3, PTL DEF SpecAll

-------------------------------------------------------------------------------
(* What isTrustedDevice answers for the devices of this system.            *)

\* The gateway's own payload stands at the start.
LEMMA StandsInit == InitAll => StandsInv(Kind)
<1> SUFFICES ASSUME InitAll PROVE GatewaysStand(Kind) /\ DevicesStand(Kind)
  BY LogInvInitAll DEF StandsInv
<1>1. Stands(Kind, "gateway", gatewayHash, gateway)
  BY ConstantsFit DEF InitAll, Stands, Kind, NoPayload
<1> QED
  BY <1>1, ConstantsFit DEF InitAll, GatewaysStand, DevicesStand, isTrustedGateway

\* isTrustedDevice answers yes only while both the device and its gateway have an
\* approved payload that nobody revoked: in this system every payload is used by the
\* methods of its kind, so the crossed revocations that break this never occur.
THEOREM DevicesHaveTheirChain == SpecAll => []TrustedDeviceHasChain
<1> DEFINE Inv == LogInv /\ ActorInv /\ MethodsMatch(Kind) /\ StandsInv(Kind)
<1>1. InitAll => Inv
  BY LogInvInitAll, ActorInvInit, MethodsInit, StandsInit
<1>2. Inv /\ [NextAll]_allVars => Inv'
  <2>1. ActorInv /\ [NextAll]_allVars => [Next]_vars
    BY ChainSteps DEF ActorInv
  <2> QED
    BY <2>1, LogInvStep, ActorInvStep, MethodsStep, StandsStep DEF StandsInv
<1>3. Inv => TrustedDeviceHasChain
  BY StandsHasChain
<1> QED
  BY <1>1, <1>2, <1>3, PTL DEF SpecAll

-------------------------------------------------------------------------------
(* Gateway, vendor and contract implement Authentication.                  *)

\* The vendor answered that it approves h.
Vouched(h) == \E m \in relayed : m.payloadHash = h /\ m.at = "ok"

\* The contract approves, and the vendor asks it to, what the vendor vouched for.
VouchedFirst == /\ \A h \in DeviceHash : payloads[h].isApproved => Vouched(h)
                /\ \A tx \in pool : tx.method = "approveDevice" => Vouched(tx.payloadHash)

\* An answer of the vendor undoes none of its answers.
LEMMA AnswerVouches ==
    ASSUME NEW m \in relayed, NEW to, m.at # "ok", Answer(m, to)
    PROVE  /\ \A h : Vouched(h) => Vouched(h)'
           /\ \A h : Vouched(h)' => Vouched(h) \/ (to = "ok" /\ h = m.payloadHash)
           /\ to = "ok" => Vouched(m.payloadHash)'
<1> DEFINE n == [m EXCEPT !.at = to]
<1>1. n.payloadHash = m.payloadHash /\ n.at = to /\ relayed' = (relayed \ {m}) \cup {n}
  BY DEF Answer
<1> HIDE DEF n
<1> QED
  BY <1>1 DEF Vouched

LEMMA VouchedSteps ==
    ASSUME [NextAll]_allVars
    PROVE  /\ \A h : Vouched(h) => Vouched(h)'
           /\ \/ \A h : Vouched(h)' => Vouched(h)
              \/ \E m \in relayed : VendorSendsApproval(m)
<1>1. CASE UNCHANGED relayed
  BY <1>1 DEF Vouched
<1>2. ASSUME NEW t \in tasks, GatewayPayloadAdded(t)
      PROVE  \A h : Vouched(h)' <=> Vouched(h)
  <2>1. relayed' = relayed \/ \E g : relayed' = relayed \cup {Relay(g, restarts)}
    BY <1>2 DEF GatewayPayloadAdded
  <2> QED
    BY <2>1 DEF Relay, Vouched
<1>3. ASSUME NEW m \in relayed, VendorHandles(m)
      PROVE  /\ \A h : Vouched(h) => Vouched(h)'
             /\ VendorSendsApproval(m) \/ \A h : Vouched(h)' => Vouched(h)
  BY <1>3, AnswerVouches DEF VendorHandles, VendorReadsPayload, VendorSendsApproval
<1> QED
  BY <1>1, <1>2, <1>3
     DEF NextAll, ReceiveRequest, GatewayHandles, StoreNewPayload, SendStore, Events, GatewayDelivers,
         VendorDelivers, GatewayDeviceApproved, VendorPayloadAdded, VendorDeviceApproved, Mining,
         MineStore, MineApproval, Refuse, Mine, RestartGateway, OwnerRevokesGateway, actors, allVars

\* Who moves the chain.
LEMMA ChainMoves ==
    ASSUME [NextAll]_allVars
    PROVE  \/ UNCHANGED chain \/ OwnerRevokesGateway
           \/ \E r \in Request : MineStore(r)
           \/ \E m \in relayed : MineApproval(m)
<1>1. CASE Events
  BY <1>1 DEF Events, GatewayDelivers, VendorDelivers, GatewayPayloadAdded, GatewayDeviceApproved,
     VendorPayloadAdded, VendorDeviceApproved
<1>2. ASSUME NEW r \in Request, ReceiveRequest(r) \/ GatewayHandles(r) PROVE UNCHANGED chain
  BY <1>2 DEF ReceiveRequest, GatewayHandles, StoreNewPayload, SendStore
<1>3. ASSUME NEW m \in relayed, VendorHandles(m) PROVE UNCHANGED chain
  BY <1>3 DEF VendorHandles, VendorReadsPayload, VendorSendsApproval
<1>4. ASSUME NEW tx \in pool, Refuse(tx) PROVE UNCHANGED chain
  BY <1>4 DEF Refuse
<1>5. CASE RestartGateway \/ UNCHANGED allVars
  BY <1>5 DEF RestartGateway, allVars
<1> QED
  BY <1>1, <1>2, <1>3, <1>4, <1>5 DEF NextAll, Mining

\* Who asks the node for an approval.
LEMMA PoolMoves ==
    ASSUME [NextAll]_allVars
    PROVE  \/ pool' \subseteq pool
           \/ \E r \in Request : pool' = pool \cup {StoreTx(r)}
           \/ \E m \in relayed : VendorSendsApproval(m)
<1>1. CASE Events
  BY <1>1 DEF Events, GatewayDelivers, VendorDelivers, GatewayPayloadAdded, GatewayDeviceApproved,
     VendorPayloadAdded, VendorDeviceApproved
<1>2. ASSUME NEW r \in Request, ReceiveRequest(r) \/ GatewayHandles(r)
      PROVE  pool' \subseteq pool \/ pool' = pool \cup {StoreTx(r)}
  BY <1>2 DEF ReceiveRequest, GatewayHandles, StoreNewPayload, SendStore, Send
<1>3. ASSUME NEW m \in relayed, VendorHandles(m) PROVE pool' \subseteq pool \/ VendorSendsApproval(m)
  BY <1>3 DEF VendorHandles, VendorReadsPayload
<1>4. CASE Mining
  BY <1>4 DEF Mining, MineStore, MineApproval, Refuse, Mine, Take
<1>5. CASE RestartGateway \/ OwnerRevokesGateway \/ UNCHANGED allVars
  BY <1>5 DEF RestartGateway, OwnerRevokesGateway, actors, allVars
<1> QED
  BY <1>1, <1>2, <1>3, <1>4, <1>5 DEF NextAll

\* What a mined transaction does to the payloads of devices.
LEMMA DevicePayloads ==
    ASSUME LogInv, ActorInv, [NextAll]_allVars
    PROVE  LET Same(h) == /\ payloads'[h].isValue = payloads[h].isValue
                          /\ payloads'[h].isApproved = payloads[h].isApproved
           IN \/ \A h \in DeviceHash : Same(h)
              \/ \E r \in Request :
                    /\ MineStore(r)
                    /\ ~payloads[hashOf[r]].isValue /\ payloads'[hashOf[r]].isValue
                    /\ ~payloads[hashOf[r]].isApproved /\ ~payloads'[hashOf[r]].isApproved
                    /\ \A h \in DeviceHash \ {hashOf[r]} : Same(h)
              \/ \E m \in relayed :
                    /\ MineApproval(m) /\ m.payloadHash \in DeviceHash
                    /\ ~payloads[m.payloadHash].isApproved /\ payloads'[m.payloadHash].isApproved
                    /\ \A h \in DeviceHash \ {m.payloadHash} : Same(h)
<1> DEFINE Same(h) == /\ payloads'[h].isValue = payloads[h].isValue
                      /\ payloads'[h].isApproved = payloads[h].isApproved
<1>a. /\ payloads \in [Hash -> Payload] /\ DeviceHash \subseteq Hash /\ gatewayHash \notin DeviceHash
      /\ \A r \in Request : hashOf[r] \in DeviceHash
      /\ \A m \in relayed : m.payloadHash \in Hash
      /\ payloads[gatewayHash].isApproved
      /\ \A h \in Hash : payloads[h].isApproved => payloads[h].isValue
  BY ConstantsFit DEF ActorInv, LogInv, TypeOK, DeviceHash, RelayedFit, PayloadsFit,
     LogMatchesPayloads, FlagsInOrder
<1>1. CASE UNCHANGED chain
  BY <1>1 DEF chain
<1>2. CASE OwnerRevokesGateway
  <2>1. \A h \in Hash \ {gatewayHash} : payloads'[h] = payloads[h]
    BY <1>a, <1>2 DEF OwnerRevokesGateway, revokeGateway
  <2> QED
    BY <1>a, <2>1
<1>3. ASSUME NEW r \in Request, storePayload(gateway, hashOf[r], deviceOf[r], vendorOf[r])
      PROVE  /\ ~payloads[hashOf[r]].isValue /\ payloads'[hashOf[r]].isValue
             /\ ~payloads[hashOf[r]].isApproved /\ ~payloads'[hashOf[r]].isApproved
             /\ \A h \in DeviceHash \ {hashOf[r]} : Same(h)
  <2>1. /\ ~payloads[hashOf[r]].isValue /\ payloads'[hashOf[r]].isValue
        /\ payloads'[hashOf[r]].isApproved = payloads[hashOf[r]].isApproved
    BY <1>a, <1>3 DEF storePayload, payloadMustNotExist, Payload
  <2>2. \A h \in Hash \ {hashOf[r]} : payloads'[h] = payloads[h]
    BY <1>a, <1>3 DEF storePayload
  <2> QED
    BY <1>a, <2>1, <2>2
<1>4. ASSUME NEW m \in relayed, approveDevice(vendor, m.payloadHash)
      PROVE  /\ m.payloadHash \in DeviceHash
             /\ ~payloads[m.payloadHash].isApproved /\ payloads'[m.payloadHash].isApproved
             /\ \A h \in DeviceHash \ {m.payloadHash} : Same(h)
  <2>1. /\ ~payloads[m.payloadHash].isApproved /\ payloads'[m.payloadHash].isApproved
        /\ \A h \in Hash \ {m.payloadHash} : payloads'[h] = payloads[h]
    BY <1>a, <1>4 DEF approveDevice, payloadMustBeNotApproved, Payload
  <2> QED
    BY <1>a, <2>1 DEF DeviceHash
<1> QED
  <2>1. ASSUME NEW r \in Request, MineStore(r)
        PROVE  UNCHANGED chain \/ storePayload(gateway, hashOf[r], deviceOf[r], vendorOf[r])
    BY <2>1 DEF MineStore
  <2>2. ASSUME NEW m \in relayed, MineApproval(m)
        PROVE  UNCHANGED chain \/ approveDevice(vendor, m.payloadHash)
    BY <2>2 DEF MineApproval
  <2> QED
    BY <1>1, <1>2, <1>3, <1>4, <2>1, <2>2, ChainMoves

\* The only step that approves a payload of a device, or asks for it.
LEMMA VouchedStep ==
    LogInv /\ ActorInv /\ VouchedFirst /\ [NextAll]_allVars => VouchedFirst'
<1> SUFFICES ASSUME LogInv, ActorInv, VouchedFirst, [NextAll]_allVars PROVE VouchedFirst'
  OBVIOUS
<1>a. \A h : Vouched(h) => Vouched(h)'
  BY VouchedSteps
<1>1. ASSUME NEW h \in DeviceHash, payloads'[h].isApproved, ~payloads[h].isApproved
      PROVE  Vouched(h)
  <2>1. PICK m \in relayed : MineApproval(m) /\ m.payloadHash = h
    BY <1>1, DevicePayloads
  <2>2. ApproveTx(m) \in pool /\ ApproveTx(m).method = "approveDevice" /\ ApproveTx(m).payloadHash = h
    BY <2>1 DEF MineApproval, Mine, Take, ApproveTx
  <2> QED
    BY <2>2 DEF VouchedFirst
<1>2. ASSUME NEW tx \in pool', tx.method = "approveDevice", tx \notin pool
      PROVE  Vouched(tx.payloadHash)'
  <2>1. PICK m \in relayed : VendorSendsApproval(m) /\ tx = ApproveTx(m)
    BY <1>2, PoolMoves DEF VendorSendsApproval, Send, StoreTx
  <2> QED
    BY <2>1, AnswerVouches DEF VendorSendsApproval, ApproveTx
<1> QED
  BY <1>a, <1>1, <1>2 DEF VouchedFirst

LEMMA StageKept ==
    ASSUME NEW h \in DeviceHash,
           gwDb'[h].isApproved = gwDb[h].isApproved,
           payloads'[h].isApproved = payloads[h].isApproved,
           payloads'[h].isValue = payloads[h].isValue,
           Vouched(h)' <=> Vouched(h)
    PROVE  AuthStage(h)' = AuthStage(h)
  BY DEF AuthStage, Vouched

LEMMA AuthStays ==
    ASSUME \A h \in DeviceHash : AuthStage(h)' = AuthStage(h)
    PROVE  UNCHANGED Auth!vars
  BY DEF Auth!vars, GenuineHash, Genuine

LEMMA AuthMoves ==
    ASSUME NEW h \in DeviceHash, NEW from, NEW to, AuthStage(h) = from, AuthStage(h)' = to,
           \A g \in DeviceHash \ {h} : AuthStage(g)' = AuthStage(g)
    PROVE  Auth!Move(h, from, to)
  BY DEF Auth!Move, GenuineHash, Genuine

\* A step that leaves the payloads alone, writes at most one entry of the gateway and does
\* not make the vendor vouch records an approval or changes nothing.
LEMMA RecordAuth ==
    ASSUME ActorInv, ActorInv', NothingUndone,
           \A g \in DeviceHash : /\ payloads'[g].isValue = payloads[g].isValue
                                 /\ payloads'[g].isApproved = payloads[g].isApproved
                                 /\ Vouched(g)' <=> Vouched(g),
           NEW h \in Hash, \A g \in Hash \ {h} : gwDb'[g] = gwDb[g]
    PROVE  [Auth!Next]_(Auth!vars)
<1>a. /\ DatabasesBehindChain' /\ DeviceHash \subseteq Hash
      /\ gwDb \in [Hash -> GwEntryType] /\ gwDb' \in [Hash -> GwEntryType]
  BY DEF ActorInv, EntriesFit, DeviceHash
<1>1. \A g \in DeviceHash \ {h} : AuthStage(g)' = AuthStage(g)
  BY <1>a, StageKept
<1>2. CASE h \in DeviceHash /\ gwDb'[h].isApproved # gwDb[h].isApproved
  <2>1. ~gwDb[h].isApproved /\ gwDb'[h].isApproved
    BY <1>a, <1>2 DEF NothingUndone, GwEntryType
  <2>2. payloads[h].isApproved
    BY <1>a, <1>2, <2>1 DEF DatabasesBehindChain
  <2>3. AuthStage(h) = "approved" /\ AuthStage(h)' = "recorded"
    BY <2>1, <2>2 DEF AuthStage
  <2>4. Auth!Record(h)
    BY <1>1, <1>2, <2>3, AuthMoves DEF Auth!Record
  <2> QED
    BY <1>2, <2>4 DEF Auth!Next
<1>3. CASE h \notin DeviceHash \/ gwDb'[h].isApproved = gwDb[h].isApproved
  <2>1. \A g \in DeviceHash : AuthStage(g)' = AuthStage(g)
    BY <1>1, <1>3, StageKept
  <2> QED
    BY <2>1, AuthStays
<1> QED
  BY <1>2, <1>3

\* The vendor vouches for a payload on the chain that a genuine device sent.
LEMMA VouchAuth ==
    ASSUME LogInv, ActorInv, VouchedFirst, NEW m \in relayed, VendorSendsApproval(m)
    PROVE  [Auth!Next]_(Auth!vars)
<1> DEFINE h == m.payloadHash
<1>a. /\ UNCHANGED <<gwDb, payloads>> /\ payloads[h].isValue /\ Proven(h)
      /\ DatabasesBehindChain /\ DeviceHash \subseteq Hash
  BY DEF ActorInv, RelayedFit, VendorSendsApproval, chain, DeviceHash
<1>b. /\ \A g : Vouched(g) => Vouched(g)'
      /\ \A g : Vouched(g)' => Vouched(g) \/ g = h
      /\ Vouched(h)'
  BY AnswerVouches DEF VendorSendsApproval
<1>1. \A g \in DeviceHash \ {h} : AuthStage(g)' = AuthStage(g)
  BY <1>a, <1>b, StageKept
<1>2. CASE h \in DeviceHash /\ ~Vouched(h)
  <2>1. ~payloads[h].isApproved /\ ~gwDb[h].isApproved
    BY <1>a, <1>2 DEF VouchedFirst, DatabasesBehindChain
  <2>2. AuthStage(h) = "announced" /\ AuthStage(h)' = "vouched"
    BY <1>a, <1>b, <1>2, <2>1 DEF AuthStage, Vouched
  <2>3. h \in GenuineHash
    BY <1>a DEF Proven, GenuineHash
  <2>4. Auth!Vouch(h)
    BY <1>1, <1>2, <2>2, <2>3, AuthMoves DEF Auth!Vouch
  <2> QED
    BY <1>2, <2>4 DEF Auth!Next
<1>3. CASE h \notin DeviceHash \/ Vouched(h)
  <2>1. \A g \in DeviceHash : AuthStage(g)' = AuthStage(g)
    BY <1>a, <1>b, <1>1, <1>3, StageKept
  <2> QED
    BY <2>1, AuthStays
<1> QED
  BY <1>2, <1>3

\* No step writes two entries of the gateway.
LEMMA OneEntry ==
    ASSUME LogInv, ActorInv, [NextAll]_allVars
    PROVE  \E h \in Hash : \A g \in Hash \ {h} : gwDb'[g] = gwDb[g]
<1>a. gwDb \in [Hash -> GwEntryType] /\ gatewayHash \in Hash /\ \A r \in Request : hashOf[r] \in Hash
  BY ConstantsFit DEF ActorInv, EntriesFit
<1>1. CASE UNCHANGED gwDb
  BY <1>1, <1>a
<1>2. ASSUME NEW h \in Hash, NEW entry, gwDb' = [gwDb EXCEPT ![h] = entry]
      PROVE  \A g \in Hash \ {h} : gwDb'[g] = gwDb[g]
  BY <1>2, <1>a
<1>3. ASSUME NEW t \in tasks, GatewayPayloadAdded(t) \/ GatewayDeviceApproved(t)
      PROVE  UNCHANGED gwDb \/ \E h \in Hash : \E entry : gwDb' = [gwDb EXCEPT ![h] = entry]
  <2>1. EventOf(t).payloadHash \in Hash
    BY EventFacts DEF ActorInv, TasksFit, EventOf
  <2> QED
    BY <1>3, <2>1 DEF GatewayPayloadAdded, GatewayDeviceApproved, updatePayloadStateToStored,
       updatePayloadStateToApproved
<1>4. ASSUME NEW r \in Request, ReceiveRequest(r) \/ GatewayHandles(r)
      PROVE  UNCHANGED gwDb \/ \E h \in Hash : \E entry : gwDb' = [gwDb EXCEPT ![h] = entry]
  BY <1>4, <1>a DEF ReceiveRequest, GatewayHandles, StoreNewPayload, SendStore, storeNewPayload
<1>5. UNCHANGED gwDb \/ \E h \in Hash : \E entry : gwDb' = [gwDb EXCEPT ![h] = entry]
  BY <1>3, <1>4
     DEF NextAll, VendorHandles, VendorReadsPayload, VendorSendsApproval, Events, GatewayDelivers,
         VendorDelivers, VendorPayloadAdded, VendorDeviceApproved, Mining, MineStore, MineApproval,
         Refuse, Mine, RestartGateway, OwnerRevokesGateway, actors, allVars
<1> QED
  BY <1>1, <1>2, <1>5

LEMMA AuthStep ==
    ASSUME LogInv, ActorInv, ActorInv', VouchedFirst, NothingUndone, [NextAll]_allVars
    PROVE  [Auth!Next]_(Auth!vars)
<1> DEFINE Same(h) == /\ payloads'[h].isValue = payloads[h].isValue
                      /\ payloads'[h].isApproved = payloads[h].isApproved
<1>a. /\ DatabasesBehindChain /\ RelayedFit /\ DeviceHash \subseteq Hash
      /\ \A r \in Request : hashOf[r] \in DeviceHash
      /\ \A h : Vouched(h) => h \in Hash /\ payloads[h].isValue
      /\ \A h \in Hash : payloads[h].isApproved => payloads[h].isValue
  BY ConstantsFit DEF ActorInv, RelayedFit, DeviceHash, Vouched, LogInv, LogMatchesPayloads,
     FlagsInOrder
<1>1. ASSUME NEW m \in relayed, VendorSendsApproval(m) PROVE [Auth!Next]_(Auth!vars)
  BY <1>1, VouchAuth
<1>2. ASSUME \A h : Vouched(h)' <=> Vouched(h) PROVE [Auth!Next]_(Auth!vars)
  <2>1. CASE \A h \in DeviceHash : Same(h)
    <3>1. PICK h \in Hash : \A g \in Hash \ {h} : gwDb'[g] = gwDb[g]
      BY OneEntry
    <3> QED
      BY <1>2, <2>1, <3>1, RecordAuth
  <2>2. ASSUME NEW r \in Request, MineStore(r),
               ~payloads[hashOf[r]].isValue, payloads'[hashOf[r]].isValue,
               ~payloads[hashOf[r]].isApproved, ~payloads'[hashOf[r]].isApproved,
               \A h \in DeviceHash \ {hashOf[r]} : Same(h)
        PROVE  [Auth!Next]_(Auth!vars)
    <3>1. gwDb' = gwDb
      BY <2>2 DEF MineStore, Mine
    <3>2. ~gwDb[hashOf[r]].isApproved /\ ~Vouched(hashOf[r])
      BY <1>a, <2>2 DEF DatabasesBehindChain
    <3>3. AuthStage(hashOf[r]) = "none" /\ AuthStage(hashOf[r])' = "announced"
      BY <1>2, <2>2, <3>1, <3>2 DEF AuthStage, Vouched
    <3>4. \A g \in DeviceHash \ {hashOf[r]} : AuthStage(g)' = AuthStage(g)
      BY <1>2, <2>2, <3>1, StageKept
    <3>5. Auth!Announce(hashOf[r])
      BY <1>a, <3>3, <3>4, AuthMoves DEF Auth!Announce
    <3> QED
      BY <1>a, <3>5 DEF Auth!Next
  <2>3. ASSUME NEW m \in relayed, MineApproval(m), m.payloadHash \in DeviceHash,
               ~payloads[m.payloadHash].isApproved, payloads'[m.payloadHash].isApproved,
               \A h \in DeviceHash \ {m.payloadHash} : Same(h)
        PROVE  [Auth!Next]_(Auth!vars)
    <3> DEFINE h == m.payloadHash
    <3>1. gwDb' = gwDb /\ ApproveTx(m) \in pool
      BY <2>3 DEF MineApproval, Mine, Take
    <3>2. Vouched(h)
      BY <3>1 DEF VouchedFirst, ApproveTx
    <3>3. ~gwDb[h].isApproved
      BY <1>a, <2>3 DEF DatabasesBehindChain
    <3>4. AuthStage(h) = "vouched" /\ AuthStage(h)' = "approved"
      BY <2>3, <3>1, <3>2, <3>3 DEF AuthStage, Vouched
    <3>5. \A g \in DeviceHash \ {h} : AuthStage(g)' = AuthStage(g)
      BY <1>2, <2>3, <3>1, StageKept
    <3>6. Auth!Approve(h)
      BY <2>3, <3>4, <3>5, AuthMoves DEF Auth!Approve
    <3> QED
      BY <2>3, <3>6 DEF Auth!Next
  <2> QED
    BY <2>1, <2>2, <2>3, DevicePayloads
<1> QED
  BY <1>1, <1>2, VouchedSteps

\* Where no hash is requested twice, gateway, vendor and contract keep the promise of
\* Authentication through restarts, refusals and a revocation: the vendor vouches only for
\* genuine devices' payloads that are on the chain, only those are approved, and what the
\* gateway recorded stays.
THEOREM ImplementsAuthentication == ASSUME HashesDiffer PROVE SpecAll => AuthenticationSpec
<1>1. InitAll => LogInv /\ ActorInv /\ KeptInv /\ VouchedFirst /\ Auth!Init
  <2> SUFFICES ASSUME InitAll PROVE VouchedFirst /\ Auth!Init
    BY LogInvInitAll, ActorInvInit, KeptInit
  <2>1. \A h \in DeviceHash : /\ ~payloads[h].isValue /\ ~payloads[h].isApproved
                              /\ ~gwDb[h].isApproved
    BY DEF InitAll, NoPayload, NoEntry, DeviceHash
  <2>2. \A h \in DeviceHash : AuthStage(h) = "none"
    BY <2>1 DEF InitAll, AuthStage
  <2>3. GenuineHash \subseteq DeviceHash
    BY ConstantsFit DEF GenuineHash, DeviceHash
  <2> QED
    BY <2>1, <2>2, <2>3 DEF InitAll, VouchedFirst, Auth!Init
<1> DEFINE Inv == LogInv /\ ActorInv /\ KeptInv /\ VouchedFirst
<1>2. Inv /\ [NextAll]_allVars => Inv' /\ NothingUndone
  <2>1. ActorInv /\ [NextAll]_allVars => [Next]_vars
    BY ChainSteps DEF ActorInv
  <2> QED
    BY <2>1, LogInvStep, ActorInvStep, KeptStep, VouchedStep
<1>3. Inv /\ [NextAll]_allVars => [Auth!Next]_(Auth!vars)
  BY <1>2, AuthStep
<1> QED
  BY <1>1, <1>2, <1>3, PTL DEF SpecAll, AuthenticationSpec, Auth!Spec
===============================================================================
