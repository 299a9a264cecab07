----------------------- MODULE AccessAuthorizationProofs -----------------------
(***************************************************************************)
(* Proofs about AccessAuthorization, for any services, payloads, restarts  *)
(* of the gateway, delivery orders, refused transactions, revocations and  *)
(* clocks.                                                                 *)
(***************************************************************************)
EXTENDS AccessAuthorization, RegistryLogProofs

LEMMA ConstantsFit ==
    /\ Service \subseteq Address /\ {gateway, owner, isp} \subseteq Address \ Service
    /\ Address \subseteq AnyAddress /\ NoAddress \notin Address /\ mockIp \in RouterIp
    /\ gatewayHash \in Hash /\ tokenOf \in [Service -> Hash \ {gatewayHash}]
    /\ \A s, u \in Service : tokenOf[s] = tokenOf[u] => s = u
    /\ assigned \in SUBSET Resource /\ Choice \subseteq SUBSET Resource
    /\ expiredIn \in Duration /\ MaxRestarts \in Nat /\ Skew \in Nat
    /\ MaxTime \in Nat /\ UintSize \in Nat /\ 0 \in Uint
  BY AccessAuthorizationAssumption, RegistryAssumption DEF AnyAddress, RouterIp, Uint

\* A transaction is of one service, and of one method.
LEMMA Transactions ==
    ASSUME NEW s \in Service, NEW u \in Service
    PROVE  /\ StoreTx(s) # ApproveTx(u)
           /\ StoreTx(s) = StoreTx(u) => s = u
           /\ ApproveTx(s) = ApproveTx(u) => s = u
  BY DEF StoreTx, ApproveTx

\* What the chain does in one step of the system.
LEMMA ChainSteps == [NextAll]_allVars => [Next]_vars
<1> SUFFICES ASSUME [NextAll]_allVars PROVE [Next]_vars
  OBVIOUS
<1>1. ASSUME NEW s \in Service, MineStore(s) PROVE [Next]_vars
  <2>1. s \in Address /\ s \in AnyAddress /\ gateway \in AnyAddress /\ tokenOf[s] \in Hash
    BY ConstantsFit
  <2> QED
    BY <1>1, <2>1 DEF MineStore, Next, Transact
<1>2. ASSUME NEW s \in Service, MineApproval(s) PROVE [Next]_vars
  <2>1. gateway \in Address /\ tokenOf[s] \in Hash /\ expiredIn \in Duration
    BY ConstantsFit
  <2> QED
    BY <1>2, <2>1 DEF MineApproval, Next, Transact, chain, vars
<1>3. CASE Revoke
  <2>1. CASE revokeGateway(owner, gatewayHash, gateway)
    BY <2>1, ConstantsFit DEF Next, Transact
  <2>2. ASSUME NEW s \in Service, NEW sender \in {s, gateway}, revokeAccess(sender, tokenOf[s])
        PROVE  [Next]_vars
    <3>1. sender \in Address /\ tokenOf[s] \in Hash
      BY ConstantsFit
    <3> QED
      BY <2>2, <3>1 DEF Next, Transact
  <2> QED
    BY <1>3, <2>1, <2>2 DEF Revoke
<1>4. CASE BlockTime
  BY <1>4 DEF BlockTime, Next
<1>5. CASE Events
  BY <1>5 DEF Events, ServiceDelivers, GatewayDelivers, ServicePayloadAdded, ServiceAccessApproved,
     GatewayPayloadAdded, GatewayAccessApproved, chain, vars
<1>6. ASSUME NEW s \in Service, ServiceMain(s) \/ GatewayHandles(s) PROVE [Next]_vars
  BY <1>6 DEF ServiceMain, GetAccessList, Publish, ServiceStoresPayload, RequestForResource,
     GatewayHandles, AuthorizeReadsToken, SetAccesses, SendApproval, StoreNewNonce, CheckToken,
     HandshakeChecksToken, UpdateSecret, ServeResource, chain, vars
<1>7. CASE RestartGateway \/ GatewayTime \/ UNCHANGED allVars \/ \E tx \in pool : Refuse(tx)
  BY <1>7 DEF RestartGateway, GatewayTime, allVars, Refuse, chain, vars
<1> QED
  BY <1>1, <1>2, <1>3, <1>4, <1>5, <1>6, <1>7 DEF NextAll, Mining

-------------------------------------------------------------------------------
(* What an AccessApproved event says of its payload.                       *)

AccessEventFits(e, p) == /\ e.event = "AccessApproved" => /\ e.expiryTime = p.expiryTime
                                                          /\ e.target = p.source
                                                          /\ e.sender = p.approver
                         /\ e.event = "PayloadAdded" => e.sender = p.source

AccessLogged == \A i \in DOMAIN log : AccessEventFits(log[i], payloads[log[i].payloadHash])

LEMMA AccessLoggedStep ==
    ASSUME LogInv, LogInv', AccessLogged, [Next]_vars PROVE AccessLogged'
<1>a. /\ DOMAIN log \subseteq DOMAIN log' /\ \A i \in DOMAIN log : log'[i] = log[i]
      /\ \A h \in Hash : payloads[h].isValue => SameParties(payloads'[h], payloads[h])
      /\ \A i \in DOMAIN log : log[i].payloadHash \in Hash
      /\ payloads \in [Hash -> Payload] /\ log \in Seq(Event)
  BY ChainGrows, EventFacts DEF LogInv, TypeOK
<1>1. ASSUME NEW i \in DOMAIN log
      PROVE  AccessEventFits(log'[i], payloads'[log'[i].payloadHash])
  <2> DEFINE h == log[i].payloadHash
  <2>1. log'[i] = log[i] /\ h \in Hash
    BY <1>a
  <2>2. CASE log[i].event = "AccessApproved"
    <3>1. payloads[h].isApproved /\ payloads[h].isValue
      BY <2>2, EventFacts DEF Approvals, LogInv, LogMatchesPayloads, FlagsInOrder
    <3>2. payloads'[h].expiryTime = payloads[h].expiryTime
      BY <2>1, <3>1, ApprovedStays DEF vars
    <3> QED
      BY <1>a, <2>1, <2>2, <3>1, <3>2 DEF AccessLogged, AccessEventFits, SameParties
  <2>3. CASE log[i].event # "AccessApproved"
    BY <1>a, <2>1, <2>3, EventFacts DEF AccessLogged, AccessEventFits, SameParties
  <2> QED
    BY <2>2, <2>3
<1>2. ASSUME NEW e, Emit(e), AccessEventFits(e, payloads'[e.payloadHash]) PROVE AccessLogged'
  <2>1. /\ Len(log) \in Nat /\ DOMAIN log = 1 .. Len(log) /\ log' = Append(log, e)
        /\ DOMAIN log' = DOMAIN log \cup {Len(log) + 1} /\ log'[Len(log) + 1] = e
    BY <1>a, <1>2 DEF Emit
  <2> QED
    BY <1>1, <1>2, <2>1 DEF AccessLogged
<1>3. ASSUME UNCHANGED log PROVE AccessLogged'
  BY <1>1, <1>3 DEF AccessLogged
<1>4. ASSUME NEW sender \in Address, NEW h \in Hash, Transact(sender, h) PROVE AccessLogged'
  <2>1. ASSUME NEW target, NEW approver, storePayload(sender, h, target, approver)
        PROVE  AccessLogged'
    BY <1>a, <1>2, <2>1 DEF storePayload, PayloadAdded, AccessEventFits, Payload
  <2>2. ASSUME NEW time, approveAccess(sender, h, time) PROVE AccessLogged'
    BY <1>a, <1>2, <2>2 DEF approveAccess, onlyForApprover, AccessApproved, AccessEventFits, Payload
  <2>3. ASSUME NEW ip, approveGateway(sender, h, ip) PROVE AccessLogged'
    BY <1>2, <2>3 DEF approveGateway, GatewayApproved, AccessEventFits
  <2>4. CASE approveDevice(sender, h)
    BY <1>2, <2>4 DEF approveDevice, DeviceApproved, AccessEventFits
  <2>5. ASSUME NEW g, revokeGateway(sender, h, g) PROVE AccessLogged'
    BY <1>2, <2>5 DEF revokeGateway, GatewayRevoked, AccessEventFits
  <2>6. ASSUME NEW d, revokeDevice(sender, h, d) PROVE AccessLogged'
    BY <1>2, <2>6 DEF revokeDevice, DeviceRevoked, AccessEventFits
  <2>7. CASE revokeAccess(sender, h)
    BY <1>2, <2>7 DEF revokeAccess, AccessRevoked, AccessEventFits
  <2> QED
    BY <1>4, <2>1, <2>2, <2>3, <2>4, <2>5, <2>6, <2>7 DEF Transact
<1> QED
  BY <1>3, <1>4 DEF Next, Tick, vars

-------------------------------------------------------------------------------
(* Types.                                                                  *)

TaskStage == {"check", "get", "replace", "set", "send", "done", "failed"}

RequestStage == {"none", "sent", "tying", "writing", "numbering", "checking",
                 "agreeing", "ok", "denied", "hung", "lost"}

Requests == [kind : {"none", "authorize", "handshake", "resource"}, at : RequestStage, entry : Entry]

TasksTyped == \A t \in tasks : /\ t.actor \in Service \cup {gateway} /\ t.event \in DOMAIN log
                               /\ t.entry \in Entry /\ t.at \in TaskStage

LEMMA EntriesTyped ==
    /\ NoEntry \in Entry /\ \A b \in BOOLEAN : NewEntry(b) \in Entry
    /\ \A entry \in Entry : /\ [entry EXCEPT !.isStored = TRUE] \in Entry
                            /\ \A a \in SUBSET Resource : [entry EXCEPT !.accesses = a] \in Entry
                            /\ \A e : e.expiryTime \in Uint => Approved(entry, e) \in Entry
<1>1. NoEntry \in Entry
  BY ConstantsFit DEF NoEntry, Entry
<1>2. \A b \in BOOLEAN : NewEntry(b) \in Entry
  BY ConstantsFit DEF NewEntry, NoEntry, Entry
<1>3. ASSUME NEW entry \in Entry
      PROVE  /\ [entry EXCEPT !.isStored = TRUE] \in Entry
             /\ \A a \in SUBSET Resource : [entry EXCEPT !.accesses = a] \in Entry
             /\ \A e : e.expiryTime \in Uint => Approved(entry, e) \in Entry
  BY DEF Entry, Approved
<1> QED
  BY <1>1, <1>2, <1>3

LEMMA ApprovalTyped ==
    ASSUME LogInv, NEW i \in DOMAIN log, log[i].event = "AccessApproved"
    PROVE  log[i].expiryTime \in Uint
<1>1. log[i] \in Event
  BY DEF LogInv, TypeOK
<1> QED
  BY <1>1 DEF Event

\* A handler's step keeps the types of the tasks.
LEMMA StepTyped ==
    ASSUME TasksTyped, UNCHANGED chain, NEW t \in tasks, NEW at \in TaskStage, NEW entry \in Entry,
           Step(t, at, entry)
    PROVE  TasksTyped'
  BY DEF TasksTyped, Step, Task, chain

\* A step of an HTTP request keeps its type.
LEMMA RequestTyped ==
    ASSUME request \in [Service -> Requests], NEW s \in Service,
           \/ \E at \in RequestStage, entry \in Entry : Goto(s, at, entry)
           \/ \E kind \in {"authorize", "handshake", "resource"} : Ask(s, kind)
    PROVE  request' \in [Service -> Requests]
<1>1. ASSUME NEW at \in RequestStage, NEW entry \in Entry, Goto(s, at, entry)
      PROVE  request' \in [Service -> Requests]
  <2>1. [request[s] EXCEPT !.at = at, !.entry = entry] \in Requests
    BY DEF Requests
  <2> QED
    BY <1>1, <2>1 DEF Goto
<1>2. ASSUME NEW kind \in {"authorize", "handshake", "resource"}, Ask(s, kind)
      PROVE  request' \in [Service -> Requests]
  <2>1. [NoRequest EXCEPT !.kind = kind, !.at = "sent"] \in Requests
    BY EntriesTyped DEF Requests, NoRequest, RequestStage
  <2> QED
    BY <1>2, <2>1 DEF Ask
<1> QED
  BY <1>1, <1>2

\* TypeOKAll with the names above.
ActorTypes ==
    /\ TasksTyped
    /\ pool \subseteq {StoreTx(s) : s \in Service} \cup {ApproveTx(s) : s \in Service}
    /\ main \in [Service -> {"start", "listed", "published", "done"}]
    /\ asks \in [Service -> SUBSET Resource]
    /\ serviceDb \in [Service -> Entry]
    /\ request \in [Service -> Requests]
    /\ accessDb \in [Service -> SUBSET Resource]
    /\ tokenDb \in [Hash -> Entry]
    /\ nonceDb \in [Service -> {"absent", "secret", "key"}]
    /\ clock \in 0 .. MaxTime
    /\ restarts \in 0 .. MaxRestarts

LEMMA ServiceTypes ==
    ASSUME ActorTypes, NEW s \in Service, ServiceMain(s) PROVE ActorTypes'
<1> USE DEF ActorTypes
<1>1. CASE GetAccessList(s)
  BY <1>1, ConstantsFit DEF GetAccessList, storeNewAccess, TasksTyped, chain
<1>2. CASE Publish(s)
  BY <1>2 DEF Publish, Send, TasksTyped, chain
<1>3. CASE ServiceStoresPayload(s)
  BY <1>3, EntriesTyped DEF ServiceStoresPayload, TasksTyped, chain
<1>4. CASE RequestForResource(s)
  BY <1>4, RequestTyped DEF RequestForResource, service, TasksTyped, chain
<1> QED
  BY <1>1, <1>2, <1>3, <1>4 DEF ServiceMain

LEMMA DeliveryTypes ==
    ASSUME LogInv, ActorTypes, (\E s \in Service : ServiceDelivers(s)) \/ GatewayDelivers
    PROVE  ActorTypes'
<1>1. /\ UNCHANGED <<pool, main, asks, serviceDb, request, accessDb, tokenDb, nonceDb, clock, restarts>>
      /\ UNCHANGED chain
  BY DEF ServiceDelivers, GatewayDelivers, service
<1>2. PICK actor \in Service \cup {gateway}, i \in DOMAIN log : Deliver(actor, i, NoEntry)
  BY DEF ServiceDelivers, GatewayDelivers
<1>3. TasksTyped'
  BY <1>1, <1>2, EntriesTyped DEF Deliver, Task, TasksTyped, TaskStage, chain, ActorTypes
<1> QED
  BY <1>1, <1>3 DEF ActorTypes

LEMMA HandlerTypes ==
    ASSUME LogInv, ActorTypes, NEW t \in tasks,
           \/ \E s \in Service : ServicePayloadAdded(s, t) \/ ServiceAccessApproved(s, t)
           \/ GatewayPayloadAdded(t) \/ GatewayAccessApproved(t)
    PROVE  ActorTypes'
<1>a. /\ t.event \in DOMAIN log /\ t.entry \in Entry
      /\ EventOf(t).payloadHash \in Hash
      /\ EventOf(t).event = "AccessApproved" => EventOf(t).expiryTime \in Uint
      /\ UNCHANGED <<pool, main, asks, accessDb, nonceDb, clock, restarts>> /\ UNCHANGED chain
  BY EventFacts, ApprovalTyped
     DEF ActorTypes, TasksTyped, EventOf, ServicePayloadAdded, ServiceAccessApproved,
     GatewayPayloadAdded, GatewayAccessApproved, service
<1>1. ASSUME NEW s \in Service, ServicePayloadAdded(s, t) PROVE ActorTypes'
  <2>1. CASE Look(t, isPayloadStored(s), serviceDb[s].known, serviceDb[s], NoEntry)
             /\ UNCHANGED <<serviceDb, request, tokenDb>>
    <3>1. PICK at \in TaskStage, entry \in Entry : Step(t, at, entry)
      BY <2>1, EntriesTyped DEF Look, TaskStage, ActorTypes
    <3> QED
      BY <1>a, <2>1, <3>1, StepTyped DEF ActorTypes
  <2>2. CASE t.at = "replace" /\ serviceDb' = [serviceDb EXCEPT ![s] = [t.entry EXCEPT !.isStored = TRUE]]
             /\ Step(t, "send", NoEntry) /\ UNCHANGED <<request, tokenDb>>
    <3>1. TasksTyped'
      BY <1>a, <2>2, StepTyped, EntriesTyped DEF ActorTypes, TaskStage
    <3> QED
      BY <1>a, <2>2, <3>1, EntriesTyped DEF ActorTypes
  <2>3. CASE Ask(s, "authorize") /\ Step(t, "done", NoEntry) /\ UNCHANGED <<serviceDb, tokenDb>>
    <3>1. TasksTyped' /\ request' \in [Service -> Requests]
      BY <1>a, <2>3, StepTyped, RequestTyped, EntriesTyped DEF ActorTypes, TaskStage
    <3> QED
      BY <1>a, <2>3, <3>1 DEF ActorTypes
  <2> QED
    BY <1>1, <2>1, <2>2, <2>3 DEF ServicePayloadAdded, WriteAndAsk
<1>2. ASSUME NEW s \in Service, ServiceAccessApproved(s, t) PROVE ActorTypes'
  <2>1. CASE Look(t, isPayloadApproved(s), serviceDb[s].known /\ EventOf(t).sender = gateway,
                  serviceDb[s], NoEntry)
             /\ UNCHANGED <<serviceDb, request, tokenDb>>
    <3>1. PICK at \in TaskStage, entry \in Entry : Step(t, at, entry)
      BY <2>1, EntriesTyped DEF Look, TaskStage, ActorTypes
    <3> QED
      BY <1>a, <2>1, <3>1, StepTyped DEF ActorTypes
  <2>2. CASE t.at = "replace" /\ serviceDb' = [serviceDb EXCEPT ![s] = Approved(t.entry, EventOf(t))]
             /\ Step(t, "send", NoEntry) /\ UNCHANGED <<request, tokenDb>>
    <3>1. TasksTyped' /\ Approved(t.entry, EventOf(t)) \in Entry
      BY <1>2, <1>a, <2>2, StepTyped, EntriesTyped DEF ActorTypes, TaskStage, ServiceAccessApproved
    <3> QED
      BY <1>a, <2>2, <3>1 DEF ActorTypes
  <2>3. CASE Ask(s, "handshake") /\ Step(t, "done", NoEntry) /\ UNCHANGED <<serviceDb, tokenDb>>
    <3>1. TasksTyped' /\ request' \in [Service -> Requests]
      BY <1>a, <2>3, StepTyped, RequestTyped, EntriesTyped DEF ActorTypes, TaskStage
    <3> QED
      BY <1>a, <2>3, <3>1 DEF ActorTypes
  <2> QED
    BY <1>2, <2>1, <2>2, <2>3 DEF ServiceAccessApproved, WriteAndAsk
<1>3. CASE GatewayPayloadAdded(t)
  <2>1. PICK at \in TaskStage : Step(t, at, NoEntry)
    BY <1>3 DEF GatewayPayloadAdded, TaskStage
  <2>2. TasksTyped'
    BY <1>a, <2>1, StepTyped, EntriesTyped DEF ActorTypes
  <2>3. tokenDb' \in [Hash -> Entry] /\ UNCHANGED <<serviceDb, request>>
    BY <1>a, <1>3, EntriesTyped DEF GatewayPayloadAdded, storeNewToken, ActorTypes, service
  <2> QED
    BY <1>a, <2>2, <2>3 DEF ActorTypes
<1>4. CASE GatewayAccessApproved(t)
  <2> DEFINE h == EventOf(t).payloadHash
  <2>1. CASE Look(t, isTokenApproved(h), tokenDb[h].known, tokenDb[h], NoEntry) /\ UNCHANGED tokenDb
    <3>1. PICK at \in TaskStage, entry \in Entry : Step(t, at, entry)
      BY <1>a, <2>1, EntriesTyped DEF Look, TaskStage, ActorTypes
    <3>2. UNCHANGED <<serviceDb, request>>
      BY <1>4 DEF GatewayAccessApproved, service
    <3> QED
      BY <1>a, <2>1, <3>1, <3>2, StepTyped DEF ActorTypes
  <2>2. CASE t.at = "replace" /\ updateTokenStateToApproved(h, t.entry, EventOf(t))
             /\ Step(t, "done", NoEntry)
    <3>1. TasksTyped' /\ Approved(t.entry, EventOf(t)) \in Entry
      BY <1>4, <1>a, <2>2, StepTyped, EntriesTyped DEF ActorTypes, TaskStage, GatewayAccessApproved
    <3>2. UNCHANGED <<serviceDb, request>>
      BY <1>4 DEF GatewayAccessApproved, service
    <3> QED
      BY <1>a, <2>2, <3>1, <3>2 DEF ActorTypes, updateTokenStateToApproved
  <2> QED
    BY <1>4, <2>1, <2>2 DEF GatewayAccessApproved
<1> QED
  BY <1>1, <1>2, <1>3, <1>4

LEMMA RequestTypes ==
    ASSUME ActorTypes, NEW s \in Service, GatewayHandles(s) PROVE ActorTypes'
<1>a. /\ UNCHANGED <<tasks, main, asks, serviceDb, accessDb, clock, restarts>> /\ UNCHANGED chain
      /\ UNCHANGED log /\ tokenOf[s] \in Hash
  BY ConstantsFit DEF GatewayHandles, AuthorizeReadsToken, SetAccesses, SendApproval, StoreNewNonce,
     CheckToken, HandshakeChecksToken, UpdateSecret, ServeResource, service, chain
<1>1. PICK at \in RequestStage, entry \in Entry : Goto(s, at, entry)
  BY EntriesTyped, <1>a DEF GatewayHandles, AuthorizeReadsToken, SetAccesses, SendApproval, StoreNewNonce,
     CheckToken, HandshakeChecksToken, UpdateSecret, ServeResource, RequestStage, ActorTypes
<1>2. request' \in [Service -> Requests]
  BY <1>1, RequestTyped DEF ActorTypes
<1>3. tokenDb' \in [Hash -> Entry]
  <2>1. CASE tokenDb' = tokenDb
    BY <2>1 DEF ActorTypes
  <2>2. CASE tokenDb' = [tokenDb EXCEPT ![tokenOf[s]] = [request[s].entry EXCEPT !.accesses = asks[s]]]
    <3>1. request[s].entry \in Entry /\ asks[s] \in SUBSET Resource
      BY DEF ActorTypes, Requests
    <3> QED
      BY <1>a, <2>2, <3>1, EntriesTyped DEF ActorTypes
  <2> QED
    BY <2>1, <2>2 DEF GatewayHandles, AuthorizeReadsToken, SetAccesses, SendApproval, StoreNewNonce,
       CheckToken, HandshakeChecksToken, UpdateSecret, ServeResource
<1>4. /\ nonceDb' \in [Service -> {"absent", "secret", "key"}]
      /\ pool' \subseteq {StoreTx(u) : u \in Service} \cup {ApproveTx(u) : u \in Service}
  BY DEF GatewayHandles, AuthorizeReadsToken, SetAccesses, SendApproval, StoreNewNonce, CheckToken,
     HandshakeChecksToken, UpdateSecret, ServeResource, storeNewNonce, updateSecret, Send, ActorTypes
<1> QED
  BY <1>a, <1>2, <1>3, <1>4 DEF ActorTypes, TasksTyped

LEMMA OtherTypes ==
    ASSUME LogInv, LogInv', ActorTypes, [NextAll]_allVars,
           \/ Mining \/ RestartGateway \/ Revoke \/ BlockTime \/ GatewayTime \/ UNCHANGED allVars
    PROVE  ActorTypes'
<1>a. DOMAIN log \subseteq DOMAIN log'
  BY ChainSteps, ChainGrows
<1>1. CASE RestartGateway
  <2>1. request' \in [Service -> Requests]
    <3> DEFINE lost(u) == [request[u] EXCEPT !.at = "lost", !.entry = NoEntry]
               next(u) == IF request[u].at \in {"tying", "writing", "numbering", "checking", "agreeing"}
                          THEN lost(u) ELSE request[u]
    <3>1. \A u \in Service : lost(u) \in Requests /\ request[u] \in Requests
      BY EntriesTyped DEF ActorTypes, Requests, RequestStage
    <3>2. request' = [u \in Service |-> next(u)]
      BY <1>1 DEF RestartGateway
    <3>3. ASSUME NEW u \in Service PROVE next(u) \in Requests
      <4>1. next(u) = lost(u) \/ next(u) = request[u]
        OBVIOUS
      <4> HIDE DEF next, lost
      <4> QED
        BY <3>1, <4>1
    <3> HIDE DEF next
    <3> QED
      BY <3>2, <3>3
  <2>2. TasksTyped'
    BY <1>1 DEF RestartGateway, ActorTypes, TasksTyped, chain
  <2>3. restarts' \in 0 .. MaxRestarts
    <3>1. restarts < MaxRestarts /\ restarts' = restarts + 1
      BY <1>1 DEF RestartGateway
    <3>2. restarts \in 0 .. MaxRestarts /\ MaxRestarts \in Nat
      BY ConstantsFit DEF ActorTypes
    <3> QED
      BY <3>1, <3>2
  <2>4. UNCHANGED <<pool, main, asks, serviceDb, accessDb, tokenDb, nonceDb, clock>>
    BY <1>1 DEF RestartGateway, service
  <2> QED
    BY <2>1, <2>2, <2>3, <2>4 DEF ActorTypes
<1>2. CASE GatewayTime
  BY <1>2, ConstantsFit DEF GatewayTime, service, ActorTypes, TasksTyped, chain
<1>3. CASE /\ UNCHANGED <<tasks, main, asks, serviceDb, request, accessDb, tokenDb, nonceDb, clock, restarts>>
           /\ pool' \subseteq pool
  BY <1>3, <1>a DEF ActorTypes, TasksTyped
<1> QED
  BY <1>1, <1>2, <1>3 DEF Mining, MineStore, MineApproval, Refuse, Mine, Take, Revoke, BlockTime,
     allVars, actors, service

LEMMA TypesStep == LogInv /\ LogInv' /\ ActorTypes /\ [NextAll]_allVars => ActorTypes'
<1> SUFFICES ASSUME LogInv, LogInv', ActorTypes, [NextAll]_allVars PROVE ActorTypes'
  OBVIOUS
<1> QED
  BY ServiceTypes, DeliveryTypes, HandlerTypes, RequestTypes, OtherTypes DEF NextAll, Events

-------------------------------------------------------------------------------
(* The invariant.                                                          *)

\* A payload of a service is the one it was made for.
PartiesKnown == \A h \in Hash : payloads[h].isValue /\ payloads[h].source \in Service =>
                                    h = tokenOf[payloads[h].source]

ChainFits == AccessLogged /\ PartiesKnown /\ now <= clock + Skew

TaskFits(t) == /\ t.actor \in Service => EventOf(t).payloadHash = tokenOf[t.actor]
               /\ t.at = "replace" => BehindChain(t.entry, EventOf(t).payloadHash)

TasksFit == /\ \A t \in tasks : TaskFits(t)
            /\ \A t, u \in tasks : t.actor = u.actor /\ t.event = u.event => t = u

About(t, s, event) == t.actor = s /\ EventOf(t).event = event

\* Each handler of a service asks the gateway once, and the handshake after the payload.
AsksInOrder(s) ==
    /\ \A t \in tasks : t.at # "done" =>
           /\ About(t, s, "PayloadAdded") => request[s].kind = "none"
           /\ About(t, s, "AccessApproved") => request[s].kind \notin {"handshake", "resource"}
    /\ request[s].kind # "none" => \E t \in tasks : About(t, s, "PayloadAdded") /\ t.at = "done"
    /\ request[s].kind \in {"handshake", "resource"} =>
           \E t \in tasks : About(t, s, "AccessApproved") /\ t.at = "done"

\* A token is approved for accesses on the list, and has a key once it is.
SessionFits(s) ==
    /\ accessDb[s] \in {{}, assigned}
    /\ request[s].kind = "authorize" /\ request[s].at \in {"tying", "writing", "numbering"} =>
           asks[s] \subseteq assigned
    /\ ApproveTx(s) \in pool => request[s].kind # "none" /\ asks[s] \subseteq assigned
    /\ payloads[tokenOf[s]].isApproved => request[s].kind # "none"
    /\ request[s].entry.known =>
           payloads[tokenOf[s]].isValue /\ BehindChain(request[s].entry, tokenOf[s])
    /\ nonceDb[s] = "key" <=> At(s, "handshake", "ok") \/ request[s].kind = "resource"
    /\ nonceDb[s] = "key" \/ At(s, "handshake", "agreeing") => payloads[tokenOf[s]].isApproved

ServicesFit == \A s \in Service : AsksInOrder(s) /\ SessionFits(s)

Fits == ChainFits /\ TasksFit /\ ServicesFit /\ DatabasesBehindChain

ActorInv == ActorTypes /\ Fits

-------------------------------------------------------------------------------
(* Tasks.                                                                  *)

\* What is known of the event a task handles.
LEMMA TaskEvent ==
    ASSUME LogInv, ActorTypes, AccessLogged, NEW t \in tasks
    PROVE  /\ t.event \in DOMAIN log /\ EventOf(t).payloadHash \in Hash
           /\ EventOf(t).event \in {"PayloadAdded", "AccessApproved"} =>
                  payloads[EventOf(t).payloadHash].isValue
           /\ EventOf(t).event = "AccessApproved" =>
                  /\ payloads[EventOf(t).payloadHash].isApproved
                  /\ EventOf(t).expiryTime = payloads[EventOf(t).payloadHash].expiryTime
<1>1. t.event \in DOMAIN log
  BY DEF ActorTypes, TasksTyped
<1>2. /\ EventOf(t).payloadHash \in Hash
      /\ EventOf(t).event = "PayloadAdded" => payloads[EventOf(t).payloadHash].isValue
      /\ EventOf(t).event = "AccessApproved" => payloads[EventOf(t).payloadHash].isApproved
  BY <1>1, EventFacts DEF EventOf, Approvals
<1>3. EventOf(t).event = "AccessApproved" =>
          EventOf(t).expiryTime = payloads[EventOf(t).payloadHash].expiryTime
  BY <1>1 DEF EventOf, AccessLogged, AccessEventFits
<1> QED
  BY <1>1, <1>2, <1>3 DEF LogInv, LogMatchesPayloads, FlagsInOrder

\* Two events of one kind about one payload are one.
LEMMA OneEvent ==
    ASSUME LogInv, NEW i \in DOMAIN log, NEW j \in DOMAIN log,
           log[i].payloadHash = log[j].payloadHash, log[i].event = log[j].event
    PROVE  i = j
<1>1. Rank(log[i]) = Rank(log[j]) /\ Rank(log[i]) \in Int /\ i \in Int /\ j \in Int
  BY DEF Rank, LogInv, TypeOK
<1> QED
  BY <1>1 DEF LogInv, LogMatchesPayloads, EventsInOrder

\* So are two tasks of a service about such events.
LEMMA OneTask ==
    ASSUME LogInv, ActorTypes, TasksFit, NEW s \in Service, NEW t \in tasks, NEW u \in tasks,
           NEW event, About(t, s, event), About(u, s, event)
    PROVE  t = u
<1>1. /\ t.event \in DOMAIN log /\ u.event \in DOMAIN log
      /\ log[t.event].payloadHash = log[u.event].payloadHash
      /\ log[t.event].event = log[u.event].event
  BY DEF ActorTypes, TasksTyped, TasksFit, TaskFits, About, EventOf
<1>2. t.event = u.event
  BY <1>1, OneEvent
<1> QED
  BY <1>2 DEF TasksFit, About

\* A step of a handler keeps what holds of the tasks.
LEMMA TasksStep ==
    ASSUME ActorTypes, TasksFit, UNCHANGED chain, NEW t \in tasks, NEW at, NEW entry,
           Step(t, at, entry),
           at = "replace" => BehindChain(entry, EventOf(t).payloadHash)
    PROVE  TasksFit'
<1> DEFINE new == Task(t.actor, t.event, at, entry)
<1>1. /\ tasks' = (tasks \ {t}) \cup {new}
      /\ new.actor = t.actor /\ new.event = t.event /\ new.at = at /\ new.entry = entry
      /\ EventOf(new) = EventOf(t)
      /\ \A u : EventOf(u)' = EventOf(u)
      /\ \A e, h : BehindChain(e, h)' = BehindChain(e, h)
  BY DEF Step, Task, EventOf, chain, BehindChain
<1>2. \A u \in tasks : TaskFits(u)'
  BY <1>1 DEF TasksFit, TaskFits
<1>3. TaskFits(new)'
  BY <1>1 DEF TasksFit, TaskFits
<1> HIDE DEF new
<1>4. \A u \in tasks' : TaskFits(u)'
  BY <1>1, <1>2, <1>3
<1>5. \A u, v \in tasks' : u.actor = v.actor /\ u.event = v.event => u = v
  BY <1>1 DEF TasksFit
<1> QED
  BY <1>4, <1>5 DEF TasksFit

\* A handler that asks nothing leaves the order of its service's requests alone.
LEMMA OrderStep ==
    ASSUME ActorTypes, UNCHANGED <<log, request>>, NEW t \in tasks, NEW at, NEW entry,
           t.at # "done", Step(t, at, entry), NEW s \in Service, AsksInOrder(s)
    PROVE  AsksInOrder(s)'
<1> DEFINE new == Task(t.actor, t.event, at, entry)
<1>1. /\ tasks' = (tasks \ {t}) \cup {new}
      /\ \A u, event : About(u, s, event)' = About(u, s, event)
      /\ \A event : About(new, s, event) = About(t, s, event)
  BY DEF Step, Task, EventOf, About
<1>2. \A u \in tasks : u.at = "done" => u \in tasks'
  BY <1>1
<1> HIDE DEF new
<1>3. \A u \in tasks' : u.at # "done" =>
          \E v \in tasks : v.at # "done" /\ \A event : About(u, s, event)' = About(v, s, event)
  BY <1>1
<1> QED
  BY <1>1, <1>2, <1>3 DEF AsksInOrder

-------------------------------------------------------------------------------
(* Frames: what a step that leaves a part of the state alone keeps.        *)

LEMMA ChainFrame ==
    ASSUME LogInv, ActorTypes, ChainFits, UNCHANGED chain, clock' = clock \/ clock' = clock + 1
    PROVE  ChainFits'
<1>1. now \in Int /\ clock \in Int /\ Skew \in Int
  <2>1. now \in 0 .. MaxTime /\ clock \in 0 .. MaxTime
    BY DEF ActorTypes, LogInv, TypeOK
  <2> QED
    BY <2>1, ConstantsFit
<1>2. UNCHANGED <<payloads, now, log>>
  BY DEF chain
<1>3. now' <= clock' + Skew
  BY <1>1, <1>2 DEF ChainFits
<1>4. AccessLogged' /\ PartiesKnown'
  BY <1>2 DEF ChainFits, AccessLogged, PartiesKnown
<1> QED
  BY <1>3, <1>4 DEF ChainFits

LEMMA TasksFrame ==
    ASSUME TasksFit, UNCHANGED chain, tasks' \subseteq tasks PROVE TasksFit'
  BY DEF TasksFit, TaskFits, EventOf, BehindChain, chain

LEMMA DatabasesFrame ==
    ASSUME DatabasesBehindChain, UNCHANGED <<chain, tokenDb, serviceDb>> PROVE DatabasesBehindChain'
  BY DEF DatabasesBehindChain, BehindChain, chain

LEMMA OrderFrame ==
    ASSUME NEW u \in Service, AsksInOrder(u), UNCHANGED <<tasks, log>>,
           request'[u].kind = request[u].kind
    PROVE  AsksInOrder(u)'
  BY DEF AsksInOrder, About, EventOf

LEMMA SessionFrame ==
    ASSUME NEW u \in Service, SessionFits(u), UNCHANGED <<payloads, asks>>,
           request'[u] = request[u], accessDb'[u] = accessDb[u], nonceDb'[u] = nonceDb[u],
           ApproveTx(u) \in pool' => ApproveTx(u) \in pool
    PROVE  SessionFits(u)'
  BY DEF SessionFits, At, BehindChain

\* A service's own program.
LEMMA ServiceMainStep ==
    ASSUME LogInv, ActorInv, NEW s \in Service, ServiceMain(s) PROVE Fits'
<1>a. /\ ActorTypes /\ ChainFits /\ TasksFit /\ ServicesFit /\ DatabasesBehindChain
      /\ UNCHANGED <<chain, tasks, clock>> /\ UNCHANGED <<log, payloads, asks>>
  BY DEF ActorInv, Fits, ServiceMain, GetAccessList, Publish, ServiceStoresPayload,
     RequestForResource, service, chain
<1>b. ChainFits' /\ TasksFit'
  BY <1>a, ChainFrame, TasksFrame
<1>1. CASE GetAccessList(s)
  <2>1. \A u \in Service : /\ request'[u] = request[u] /\ nonceDb'[u] = nonceDb[u]
                           /\ accessDb'[u] = IF u = s THEN assigned ELSE accessDb[u]
    BY <1>a, <1>1 DEF GetAccessList, storeNewAccess, ActorTypes
  <2>2. UNCHANGED <<pool, tokenDb, serviceDb>>
    BY <1>1 DEF GetAccessList
  <2>3. ASSUME NEW u \in Service PROVE AsksInOrder(u)' /\ SessionFits(u)'
    <3>1. AsksInOrder(u)'
      BY <1>a, <2>1, OrderFrame DEF ServicesFit
    <3>2. SessionFits(u)'
      BY <1>a, <2>1, <2>2 DEF ServicesFit, SessionFits, At, BehindChain
    <3> QED
      BY <3>1, <3>2
  <2> QED
    BY <1>a, <1>b, <2>2, <2>3, DatabasesFrame DEF Fits, ServicesFit
<1>2. CASE Publish(s)
  <2>1. /\ UNCHANGED <<request, nonceDb, accessDb, tokenDb, serviceDb>>
        /\ \A u \in Service : ApproveTx(u) \in pool' => ApproveTx(u) \in pool
    BY <1>2, Transactions DEF Publish, Send
  <2>2. ASSUME NEW u \in Service PROVE AsksInOrder(u)' /\ SessionFits(u)'
    BY <1>a, <2>1, OrderFrame, SessionFrame DEF ServicesFit
  <2> QED
    BY <1>a, <1>b, <2>1, <2>2, DatabasesFrame DEF Fits, ServicesFit
<1>3. CASE ServiceStoresPayload(s)
  <2>1. /\ UNCHANGED <<pool, request, nonceDb, accessDb, tokenDb>>
        /\ serviceDb' = [serviceDb EXCEPT ![s] = NewEntry(FALSE)]
    BY <1>3 DEF ServiceStoresPayload
  <2>2. ASSUME NEW u \in Service PROVE AsksInOrder(u)' /\ SessionFits(u)'
    BY <1>a, <2>1, OrderFrame, SessionFrame DEF ServicesFit
  <2>3. ASSUME NEW u \in Service PROVE BehindChain(serviceDb[u], tokenOf[u])'
    <3>1. ~NewEntry(FALSE).isStored /\ ~NewEntry(FALSE).isApproved
      BY DEF NewEntry, NoEntry
    <3> QED
      BY <1>a, <2>1, <3>1 DEF ActorTypes, DatabasesBehindChain, BehindChain
  <2>4. DatabasesBehindChain'
    BY <1>a, <2>1, <2>3 DEF DatabasesBehindChain, BehindChain
  <2> QED
    BY <1>a, <1>b, <2>2, <2>4 DEF Fits, ServicesFit
<1>4. CASE RequestForResource(s)
  <2> DEFINE asked == [NoRequest EXCEPT !.kind = "resource", !.at = "sent"]
  <2>1. /\ UNCHANGED <<pool, nonceDb, accessDb, tokenDb, serviceDb>> /\ At(s, "handshake", "ok")
        /\ \A u \in Service : request'[u] = IF u = s THEN asked ELSE request[u]
        /\ asked.kind = "resource" /\ asked.at = "sent" /\ ~asked.entry.known
    BY <1>a, <1>4 DEF RequestForResource, service, Ask, NoRequest, NoEntry, ActorTypes, At
  <2> HIDE DEF asked
  <2>2. ASSUME NEW u \in Service, u # s PROVE AsksInOrder(u)' /\ SessionFits(u)'
    BY <1>a, <2>1, <2>2, OrderFrame, SessionFrame DEF ServicesFit
  <2>3. AsksInOrder(s)'
    BY <1>a, <2>1 DEF ServicesFit, AsksInOrder, At, About, EventOf
  <2>4. SessionFits(s)'
    BY <1>a, <2>1 DEF ServicesFit, SessionFits, At
  <2> QED
    BY <1>a, <1>b, <2>1, <2>2, <2>3, <2>4, DatabasesFrame DEF Fits, ServicesFit
<1> QED
  BY <1>1, <1>2, <1>3, <1>4 DEF ServiceMain

\* The subscription of a service delivers an event about its own payload, for the first time.
LEMMA DeliveredToService ==
    ASSUME LogInv, ActorInv, NEW s \in Service, NEW i \in DOMAIN log, Deliver(s, i, NoEntry),
           \/ log[i].event = "PayloadAdded" /\ log[i].sender = s
           \/ log[i].event = "AccessApproved" /\ log[i].target = s
    PROVE  /\ log[i].payloadHash = tokenOf[s]
           /\ log[i].event = "PayloadAdded" => request[s].kind = "none"
           /\ log[i].event = "AccessApproved" => request[s].kind \notin {"handshake", "resource"}
<1> DEFINE h == log[i].payloadHash
<1>a. ActorTypes /\ AccessLogged /\ PartiesKnown /\ TasksFit /\ AsksInOrder(s)
  BY DEF ActorInv, Fits, ChainFits, ServicesFit
<1>1. h \in Hash /\ payloads[h].isValue
  BY EventFacts DEF Approvals, LogInv, LogMatchesPayloads, FlagsInOrder
<1>2. payloads[h].source = s
  BY <1>a DEF AccessLogged, AccessEventFits
<1>3. h = tokenOf[s]
  BY <1>a, <1>1, <1>2 DEF PartiesKnown
<1>4. ASSUME NEW t \in tasks, About(t, s, log[i].event) PROVE FALSE
  <2>1. /\ t.event \in DOMAIN log /\ log[t.event].payloadHash = log[i].payloadHash
        /\ log[t.event].event = log[i].event /\ t.actor = s
    BY <1>a, <1>3, <1>4 DEF ActorTypes, TasksTyped, TasksFit, TaskFits, About, EventOf
  <2>2. t.event = i
    BY <2>1, OneEvent
  <2> QED
    BY <2>1, <2>2 DEF Deliver
<1> QED
  BY <1>a, <1>3, <1>4 DEF AsksInOrder

LEMMA DeliveryStep ==
    ASSUME LogInv, ActorInv, (\E s \in Service : ServiceDelivers(s)) \/ GatewayDelivers PROVE Fits'
<1>a. /\ ActorTypes /\ ChainFits /\ TasksFit /\ ServicesFit /\ DatabasesBehindChain
      /\ UNCHANGED <<pool, asks, serviceDb, request, accessDb, tokenDb, nonceDb, clock>>
      /\ UNCHANGED <<chain, log, payloads>>
  BY DEF ActorInv, Fits, ServiceDelivers, GatewayDelivers, service, chain
<1>b. /\ ChainFits' /\ DatabasesBehindChain'
      /\ \A u \in Service : SessionFits(u)'
  BY <1>a, ChainFrame, DatabasesFrame, SessionFrame DEF ServicesFit
<1>1. PICK actor \in Service \cup {gateway}, i \in DOMAIN log :
          /\ Deliver(actor, i, NoEntry)
          /\ actor \in Service => \/ log[i].event = "PayloadAdded" /\ log[i].sender = actor
                                  \/ log[i].event = "AccessApproved" /\ log[i].target = actor
  BY ConstantsFit DEF ServiceDelivers, GatewayDelivers, ForService
<1> DEFINE new == Task(actor, i, "check", NoEntry)
<1>2. /\ tasks' = tasks \cup {new}
      /\ new.actor = actor /\ new.event = i /\ new.at = "check" /\ EventOf(new) = log[i]
      /\ \A t \in tasks : ~(t.actor = actor /\ t.event = i)
      /\ \A t, u, event : About(t, u, event)' = About(t, u, event)
      /\ \A u, event : About(new, u, event) <=> actor = u /\ log[i].event = event
      /\ \A t : TaskFits(t)' = TaskFits(t)
  BY <1>a, <1>1 DEF Deliver, Task, EventOf, About, TaskFits, BehindChain
<1> HIDE DEF new
<1>3. TasksFit'
  <2>1. TaskFits(new)
    BY <1>1, <1>2, DeliveredToService DEF TaskFits
  <2> QED
    BY <1>a, <1>2, <2>1 DEF TasksFit
<1>4. ASSUME NEW u \in Service PROVE AsksInOrder(u)'
  <2>1. AsksInOrder(u) /\ request'[u] = request[u]
    BY <1>a DEF ServicesFit
  <2>2. actor = u => /\ log[i].event = "PayloadAdded" => request[u].kind = "none"
                     /\ log[i].event = "AccessApproved" =>
                            request[u].kind \notin {"handshake", "resource"}
    BY <1>1, DeliveredToService
  <2> QED
    BY <1>2, <2>1, <2>2 DEF AsksInOrder
<1> QED
  BY <1>b, <1>3, <1>4 DEF Fits, ServicesFit

-------------------------------------------------------------------------------
(* Event handlers.                                                         *)

\* A handler that asks nothing.
LEMMA QuietStep ==
    ASSUME LogInv, ActorInv, NEW t \in tasks, NEW at, NEW entry, t.at # "done", Step(t, at, entry),
           at = "replace" => BehindChain(entry, EventOf(t).payloadHash),
           UNCHANGED <<chain, pool, asks, request, accessDb, nonceDb, clock>>
    PROVE  ChainFits' /\ TasksFit' /\ ServicesFit'
<1>a. ActorTypes /\ ChainFits /\ TasksFit /\ ServicesFit /\ UNCHANGED <<chain, log, payloads>>
  BY DEF ActorInv, Fits, chain
<1>1. ChainFits' /\ TasksFit'
  BY <1>a, ChainFrame, TasksStep
<1>2. ASSUME NEW u \in Service PROVE AsksInOrder(u)' /\ SessionFits(u)'
  BY <1>a, OrderStep, SessionFrame DEF ServicesFit
<1> QED
  BY <1>1, <1>2 DEF ServicesFit

\* A handler that asks the gateway, as its last step.
LEMMA AskStep ==
    ASSUME LogInv, ActorInv, NEW t \in tasks, NEW s \in Service, t.actor = s, t.at = "send",
           NEW kind, Ask(s, kind), Step(t, "done", NoEntry),
           \/ EventOf(t).event = "PayloadAdded" /\ kind = "authorize"
           \/ EventOf(t).event = "AccessApproved" /\ kind = "handshake",
           UNCHANGED <<chain, pool, asks, serviceDb, accessDb, tokenDb, nonceDb, clock>>
    PROVE  Fits'
<1> DEFINE new == Task(t.actor, t.event, "done", NoEntry)
           asked == [NoRequest EXCEPT !.kind = kind, !.at = "sent"]
<1>a. /\ ActorTypes /\ ChainFits /\ TasksFit /\ ServicesFit /\ DatabasesBehindChain
      /\ AccessLogged /\ UNCHANGED <<chain, log, payloads>>
  BY DEF ActorInv, Fits, ChainFits, chain
<1>b. ChainFits' /\ TasksFit' /\ DatabasesBehindChain'
  BY <1>a, ChainFrame, TasksStep, DatabasesFrame
<1>1. /\ tasks' = (tasks \ {t}) \cup {new} /\ new.at = "done" /\ new # t
      /\ \A u, event : About(new, u, event) <=> About(t, u, event)
      /\ \A v, u, event : About(v, u, event)' <=> About(v, u, event)
      /\ \A u, event : About(t, u, event) <=> u = s /\ EventOf(t).event = event
  BY <1>a DEF Step, Task, About, EventOf
<1>2. /\ \A u \in Service : request'[u] = IF u = s THEN asked ELSE request[u]
      /\ asked.kind = kind /\ asked.at = "sent" /\ ~asked.entry.known
  BY <1>a DEF Ask, NoRequest, NoEntry, ActorTypes
<1> HIDE DEF new, asked
<1>3. \A v \in tasks' : v.at # "done" => v \in tasks /\ v # t
  BY <1>1
<1>4. \A v \in tasks : v.at = "done" => v \in tasks'
  BY <1>1
<1>5. ASSUME NEW u \in Service, u # s PROVE AsksInOrder(u)' /\ SessionFits(u)'
  <2>1. AsksInOrder(u)'
    <3>1. \A v \in tasks' : v.at # "done" => v \in tasks
      BY <1>3
    <3> QED
      BY <1>a, <1>1, <1>2, <1>4, <1>5, <3>1 DEF ServicesFit, AsksInOrder
  <2>2. SessionFits(u)'
    BY <1>a, <1>2, <1>5, SessionFrame DEF ServicesFit
  <2> QED
    BY <2>1, <2>2
<1>6. AsksInOrder(s) /\ SessionFits(s)
  BY <1>a DEF ServicesFit
<1>7. \A v \in tasks' : v.at # "done" => ~About(v, s, EventOf(t).event)
  <2>1. ASSUME NEW v \in tasks, v # t PROVE ~About(v, s, EventOf(t).event)
    BY <1>a, <1>1, <2>1, OneTask
  <2> QED
    BY <1>3, <2>1
<1>8. AsksInOrder(s)' /\ SessionFits(s)'
  <2>1. CASE EventOf(t).event = "PayloadAdded" /\ kind = "authorize"
    <3>1. request[s].kind = "none"
      BY <1>1, <1>6, <2>1 DEF AsksInOrder
    <3>2. \E v \in tasks' : About(v, s, "PayloadAdded")' /\ v.at = "done"
      BY <1>1, <2>1
    <3>3. AsksInOrder(s)'
      BY <1>1, <1>2, <1>7, <2>1, <3>2 DEF AsksInOrder
    <3>4. SessionFits(s)'
      BY <1>a, <1>2, <1>6, <2>1, <3>1 DEF SessionFits, At
    <3> QED
      BY <3>3, <3>4
  <2>2. CASE EventOf(t).event = "AccessApproved" /\ kind = "handshake"
    <3>1. request[s].kind \notin {"handshake", "resource"}
      BY <1>1, <1>6, <2>2 DEF AsksInOrder
    <3>2. payloads[tokenOf[s]].isApproved
      BY <1>a, <2>2, TaskEvent DEF TasksFit, TaskFits
    <3>3. request[s].kind # "none"
      BY <1>6, <3>2 DEF SessionFits
    <3>4. /\ \E v \in tasks' : About(v, s, "AccessApproved")' /\ v.at = "done"
          /\ \E v \in tasks' : About(v, s, "PayloadAdded")' /\ v.at = "done"
      BY <1>1, <1>4, <1>6, <2>2, <3>3 DEF AsksInOrder
    <3>5. \A v \in tasks' : v.at # "done" =>
              ~About(v, s, "PayloadAdded")' /\ ~About(v, s, "AccessApproved")'
      BY <1>1, <1>3, <1>6, <1>7, <2>2, <3>3 DEF AsksInOrder
    <3>6. AsksInOrder(s)'
      BY <1>2, <2>2, <3>4, <3>5 DEF AsksInOrder
    <3>7. SessionFits(s)'
      BY <1>a, <1>2, <1>6, <2>2, <3>1, <3>2 DEF SessionFits, At
    <3> QED
      BY <3>6, <3>7
  <2> QED
    BY <2>1, <2>2
<1> QED
  BY <1>b, <1>5, <1>8 DEF Fits, ServicesFit

\* What a handler reads, it may write back.
LEMMA LookStep ==
    ASSUME LogInv, ActorInv, NEW t \in tasks, NEW processed, NEW updatable, NEW entry,
           Look(t, processed, updatable, entry, NoEntry),
           updatable => BehindChain(entry, EventOf(t).payloadHash),
           UNCHANGED <<chain, pool, asks, request, accessDb, nonceDb, clock, serviceDb, tokenDb>>
    PROVE  Fits'
<1>1. PICK at, e : /\ Step(t, at, e) /\ t.at # "done"
                   /\ at = "replace" => BehindChain(e, EventOf(t).payloadHash)
  BY DEF Look
<1>2. ChainFits' /\ TasksFit' /\ ServicesFit'
  BY <1>1, QuietStep
<1>3. DatabasesBehindChain'
  BY DatabasesFrame DEF ActorInv, Fits
<1> QED
  BY <1>2, <1>3 DEF Fits

\* The two handlers of a service.
LEMMA ServiceHandlerStep ==
    ASSUME LogInv, ActorInv, NEW s \in Service, NEW t \in tasks,
           ServicePayloadAdded(s, t) \/ ServiceAccessApproved(s, t)
    PROVE  Fits'
<1> DEFINE h == EventOf(t).payloadHash
<1>a. /\ ActorTypes /\ TasksFit /\ DatabasesBehindChain /\ AccessLogged /\ t.actor = s
      /\ UNCHANGED <<chain, payloads, pool, asks, accessDb, tokenDb, nonceDb, clock>>
  BY DEF ActorInv, Fits, ChainFits, ServicePayloadAdded, ServiceAccessApproved, chain
<1>b. /\ h = tokenOf[s] /\ h \in Hash /\ BehindChain(serviceDb[s], h)
      /\ EventOf(t).event \in {"PayloadAdded", "AccessApproved"}
      /\ payloads[h].isValue /\ t.entry \in Entry
      /\ EventOf(t).event = "AccessApproved" =>
             payloads[h].isApproved /\ EventOf(t).expiryTime = payloads[h].expiryTime
  BY <1>a, TaskEvent DEF TasksFit, TaskFits, DatabasesBehindChain, ActorTypes, TasksTyped,
     ServicePayloadAdded, ServiceAccessApproved
<1>1. ASSUME NEW processed, NEW updatable,
             Look(t, processed, updatable, serviceDb[s], NoEntry), UNCHANGED <<serviceDb, request>>
      PROVE  Fits'
  BY <1>a, <1>b, <1>1, LookStep
<1>2. ASSUME NEW entry, BehindChain(entry, h), t.at = "replace",
             serviceDb' = [serviceDb EXCEPT ![s] = entry], Step(t, "send", NoEntry),
             UNCHANGED request
      PROVE  Fits'
  <2>1. ChainFits' /\ TasksFit' /\ ServicesFit'
    BY <1>a, <1>2, QuietStep
  <2>2. \A u \in Service : serviceDb'[u] = IF u = s THEN entry ELSE serviceDb[u]
    BY <1>a, <1>2 DEF ActorTypes
  <2>3. DatabasesBehindChain'
    BY <1>a, <1>b, <1>2, <2>2 DEF DatabasesBehindChain, BehindChain
  <2> QED
    BY <2>1, <2>3 DEF Fits
<1>3. CASE ServicePayloadAdded(s, t)
  <2>1. t.at = "replace" => BehindChain([t.entry EXCEPT !.isStored = TRUE], h)
    BY <1>a, <1>b DEF TasksFit, TaskFits, BehindChain, Entry
  <2> QED
    BY <1>a, <1>1, <1>2, <1>3, <2>1, AskStep DEF ServicePayloadAdded, WriteAndAsk
<1>4. CASE ServiceAccessApproved(s, t)
  <2>1. BehindChain(Approved(t.entry, EventOf(t)), h)
    BY <1>b, <1>4 DEF ServiceAccessApproved, BehindChain, Approved, Entry
  <2> QED
    BY <1>a, <1>1, <1>2, <1>4, <2>1, AskStep DEF ServiceAccessApproved, WriteAndAsk
<1> QED
  BY <1>3, <1>4

\* The two handlers of the gateway.
LEMMA GatewayHandlerStep ==
    ASSUME LogInv, ActorInv, NEW t \in tasks, GatewayPayloadAdded(t) \/ GatewayAccessApproved(t)
    PROVE  Fits'
<1> DEFINE h == EventOf(t).payloadHash
<1>a. /\ ActorTypes /\ TasksFit /\ DatabasesBehindChain /\ AccessLogged /\ t.at # "done"
      /\ UNCHANGED <<chain, payloads, pool, asks, accessDb, request, serviceDb, nonceDb, clock>>
  BY DEF ActorInv, Fits, ChainFits, GatewayPayloadAdded, GatewayAccessApproved, Look, service, chain
<1>b. /\ h \in Hash /\ EventOf(t).event \in {"PayloadAdded", "AccessApproved"}
      /\ payloads[h].isValue /\ t.entry \in Entry
      /\ EventOf(t).event = "AccessApproved" =>
             payloads[h].isApproved /\ EventOf(t).expiryTime = payloads[h].expiryTime
  BY <1>a, TaskEvent DEF ActorTypes, TasksTyped, GatewayPayloadAdded, GatewayAccessApproved
<1>1. ASSUME NEW entry, BehindChain(entry, h), tokenDb' = [tokenDb EXCEPT ![h] = entry],
             Step(t, "done", NoEntry)
      PROVE  Fits'
  <2>1. ChainFits' /\ TasksFit' /\ ServicesFit'
    BY <1>a, <1>1, QuietStep
  <2>2. \A g \in Hash : tokenDb'[g] = IF g = h THEN entry ELSE tokenDb[g]
    BY <1>a, <1>1 DEF ActorTypes
  <2>3. DatabasesBehindChain'
    BY <1>a, <1>b, <1>1, <2>2 DEF DatabasesBehindChain, BehindChain
  <2> QED
    BY <2>1, <2>3 DEF Fits
<1>2. CASE GatewayPayloadAdded(t)
  <2>1. CASE UNCHANGED tokenDb /\ \E at \in {"done", "set"} : Step(t, at, NoEntry)
    <3>1. ChainFits' /\ TasksFit' /\ ServicesFit'
      BY <1>a, <2>1, QuietStep
    <3> QED
      BY <1>a, <2>1, <3>1, DatabasesFrame DEF Fits
  <2>2. BehindChain(NewEntry(TRUE), h)
    BY <1>b DEF BehindChain, NewEntry, NoEntry
  <2> QED
    BY <1>1, <1>2, <2>1, <2>2 DEF GatewayPayloadAdded, storeNewToken
<1>3. CASE GatewayAccessApproved(t)
  <2>1. tokenDb[h].known => BehindChain(tokenDb[h], h)
    BY <1>a, <1>b DEF DatabasesBehindChain
  <2>2. CASE Look(t, isTokenApproved(h), tokenDb[h].known, tokenDb[h], NoEntry) /\ UNCHANGED tokenDb
    BY <1>a, <2>1, <2>2, LookStep
  <2>3. BehindChain(Approved(t.entry, EventOf(t)), h)
    BY <1>b, <1>3 DEF GatewayAccessApproved, BehindChain, Approved, Entry
  <2> QED
    BY <1>1, <1>3, <2>2, <2>3 DEF GatewayAccessApproved, updateTokenStateToApproved
<1> QED
  BY <1>2, <1>3

-------------------------------------------------------------------------------
(* Requests at the gateway.                                                *)

\* A step of one request, of service s, to stage at.
LEMMA HttpStep ==
    ASSUME LogInv, ActorInv, NEW s \in Service, NEW at, NEW entry, Goto(s, at, entry),
           UNCHANGED <<chain, tasks, asks, accessDb, clock>>,
           \A u \in Service : u # s =>
               nonceDb'[u] = nonceDb[u] /\ (ApproveTx(u) \in pool' => ApproveTx(u) \in pool),
           SessionFits(s)'
    PROVE  ChainFits' /\ TasksFit' /\ ServicesFit'
<1>a. /\ ActorTypes /\ ChainFits /\ TasksFit /\ ServicesFit /\ UNCHANGED <<chain, log, payloads>>
  BY DEF ActorInv, Fits, chain
<1>1. ChainFits' /\ TasksFit'
  BY <1>a, ChainFrame, TasksFrame
<1>2. \A u \in Service : /\ u # s => request'[u] = request[u]
                         /\ request'[u].kind = request[u].kind
  BY <1>a DEF Goto, ActorTypes, Requests
<1>3. ASSUME NEW u \in Service PROVE AsksInOrder(u)' /\ SessionFits(u)'
  BY <1>a, <1>2, OrderFrame, SessionFrame DEF ServicesFit
<1> QED
  BY <1>1, <1>3 DEF ServicesFit

LEMMA RequestStep ==
    ASSUME LogInv, ActorInv, NEW s \in Service, GatewayHandles(s) PROVE Fits'
<1> DEFINE h == tokenOf[s]
<1>a. /\ ActorTypes /\ ServicesFit /\ DatabasesBehindChain /\ h \in Hash /\ SessionFits(s)
      /\ accessDb[s] \in {{}, assigned}
      /\ UNCHANGED <<chain, tasks, asks, accessDb, clock, serviceDb>> /\ UNCHANGED payloads
  BY ConstantsFit DEF ActorInv, Fits, ServicesFit, SessionFits, GatewayHandles, AuthorizeReadsToken,
     SetAccesses, SendApproval, StoreNewNonce, CheckToken, HandshakeChecksToken, UpdateSecret,
     ServeResource, service, chain
<1>b. tokenDb[h].known => payloads[h].isValue /\ BehindChain(tokenDb[h], h)
  BY <1>a DEF DatabasesBehindChain
<1>c. ASSUME NEW at, NEW entry, Goto(s, at, entry)
      PROVE  /\ request'[s].kind = request[s].kind /\ request'[s].at = at
             /\ request'[s].entry = entry
  BY <1>a, <1>c DEF Goto, ActorTypes, Requests
<1>d. ~NoEntry.known
  BY DEF NoEntry
<1>1. ASSUME UNCHANGED tokenDb, ChainFits' /\ TasksFit' /\ ServicesFit' PROVE Fits'
  BY <1>a, <1>1, DatabasesFrame DEF Fits
<1>2. CASE AuthorizeReadsToken(s)
  <2>1. PICK at \in {"hung", "denied", "tying"} :
            Goto(s, at, NoEntry) /\ (at = "tying" => AccessesAssigned(s))
    BY <1>2 DEF AuthorizeReadsToken
  <2>2. at = "tying" => asks[s] \subseteq assigned
    BY <1>a, <2>1 DEF AccessesAssigned, getAccess
  <2>3. UNCHANGED <<pool, nonceDb, tokenDb>> /\ At(s, "authorize", "sent")
    BY <1>2 DEF AuthorizeReadsToken
  <2>4. SessionFits(s)'
    BY <1>a, <1>c, <1>d, <2>1, <2>2, <2>3 DEF SessionFits, At, BehindChain
  <2> QED
    BY <1>1, <1>a, <2>1, <2>3, <2>4, HttpStep
<1>3. CASE SetAccesses(s)
  <2>1. UNCHANGED <<pool, nonceDb>> /\ request[s].kind = "authorize"
    BY <1>3 DEF SetAccesses, At
  <2>2. CASE At(s, "authorize", "tying") /\ Goto(s, "writing", tokenDb[h]) /\ UNCHANGED tokenDb
    <3>1. SessionFits(s)'
      BY <1>a, <1>b, <1>c, <2>1, <2>2 DEF SessionFits, At, BehindChain
    <3> QED
      BY <1>1, <1>a, <2>1, <2>2, <3>1, HttpStep
  <2>3. CASE /\ At(s, "authorize", "writing") /\ Goto(s, "numbering", NoEntry)
             /\ tokenDb' = [tokenDb EXCEPT ![h] = [request[s].entry EXCEPT !.accesses = asks[s]]]
    <3>1. SessionFits(s)'
      BY <1>a, <1>c, <1>d, <2>1, <2>3 DEF SessionFits, At, BehindChain
    <3>2. ChainFits' /\ TasksFit' /\ ServicesFit'
      BY <1>a, <2>1, <2>3, <3>1, HttpStep
    <3>3. request[s].entry \in Entry
      BY <1>a DEF ActorTypes, Requests
    <3>4. /\ tokenDb'[h].known => payloads[h].isValue /\ BehindChain(tokenDb'[h], h)
          /\ \A g \in Hash : g # h => tokenDb'[g] = tokenDb[g]
      BY <1>a, <2>3, <3>3 DEF ActorTypes, Entry, SessionFits, BehindChain
    <3>5. DatabasesBehindChain'
      BY <1>a, <3>4 DEF DatabasesBehindChain, BehindChain
    <3> QED
      BY <3>2, <3>5 DEF Fits
  <2> QED
    BY <1>3, <2>2, <2>3 DEF SetAccesses
<1>4. CASE SendApproval(s)
  <2>1. /\ At(s, "authorize", "numbering") /\ Goto(s, "ok", NoEntry) /\ UNCHANGED <<nonceDb, tokenDb>>
        /\ \A u \in Service : u # s => (ApproveTx(u) \in pool' => ApproveTx(u) \in pool)
    BY <1>4, Transactions DEF SendApproval, Send
  <2>2. SessionFits(s)'
    BY <1>a, <1>c, <1>d, <2>1 DEF SessionFits, At, BehindChain
  <2> QED
    BY <1>1, <1>a, <2>1, <2>2, HttpStep
<1>5. CASE StoreNewNonce(s)
  <2>1. /\ At(s, "handshake", "sent") /\ Goto(s, "checking", NoEntry) /\ UNCHANGED <<pool, tokenDb>>
        /\ \A u \in Service : nonceDb'[u] = IF u = s THEN "secret" ELSE nonceDb[u]
    BY <1>a, <1>5 DEF StoreNewNonce, storeNewNonce, ActorTypes
  <2>2. SessionFits(s)'
    BY <1>a, <1>c, <1>d, <2>1 DEF SessionFits, At, BehindChain
  <2> QED
    BY <1>1, <1>a, <2>1, <2>2, HttpStep
<1>6. CASE HandshakeChecksToken(s)
  <2>1. PICK at \in {"hung", "denied", "agreeing"} :
            Goto(s, at, NoEntry) /\ (at = "agreeing" => tokenDb[h].known /\ tokenDb[h].isApproved)
    BY <1>6 DEF HandshakeChecksToken, CheckToken, getTokenObject, validToken
  <2>2. UNCHANGED <<pool, nonceDb, tokenDb>> /\ At(s, "handshake", "checking")
    BY <1>6 DEF HandshakeChecksToken, CheckToken
  <2>3. at = "agreeing" => payloads[h].isApproved
    BY <1>b, <2>1 DEF BehindChain
  <2>4. SessionFits(s)'
    BY <1>a, <1>c, <1>d, <2>1, <2>2, <2>3 DEF SessionFits, At, BehindChain
  <2> QED
    BY <1>1, <1>a, <2>1, <2>2, <2>4, HttpStep
<1>7. CASE UpdateSecret(s)
  <2>1. /\ At(s, "handshake", "agreeing") /\ Goto(s, "ok", NoEntry) /\ UNCHANGED <<pool, tokenDb>>
        /\ \A u \in Service : nonceDb'[u] = IF u = s THEN "key" ELSE nonceDb[u]
    BY <1>a, <1>7 DEF UpdateSecret, updateSecret, ActorTypes
  <2>2. SessionFits(s)'
    BY <1>a, <1>c, <1>d, <2>1 DEF SessionFits, At, BehindChain
  <2> QED
    BY <1>1, <1>a, <2>1, <2>2, HttpStep
<1>8. CASE ServeResource(s)
  <2>1. PICK at \in {"hung", "denied", "ok"} : Goto(s, at, NoEntry)
    BY <1>8 DEF ServeResource, CheckToken
  <2>2. UNCHANGED <<pool, nonceDb, tokenDb>> /\ At(s, "resource", "sent")
    BY <1>8 DEF ServeResource, CheckToken
  <2>3. SessionFits(s)'
    BY <1>a, <1>c, <1>d, <2>1, <2>2 DEF SessionFits, At, BehindChain
  <2> QED
    BY <1>1, <1>a, <2>1, <2>2, <2>3, HttpStep
<1> QED
  BY <1>2, <1>3, <1>4, <1>5, <1>6, <1>7, <1>8 DEF GatewayHandles

-------------------------------------------------------------------------------
(* Restarts, the chain and the clocks.                                     *)

LEMMA RestartStep == ASSUME LogInv, ActorInv, RestartGateway PROVE Fits'
<1>a. /\ ActorTypes /\ ChainFits /\ TasksFit /\ ServicesFit /\ DatabasesBehindChain
      /\ UNCHANGED <<chain, pool, asks, serviceDb, accessDb, tokenDb, nonceDb, clock>>
      /\ UNCHANGED <<log, payloads>>
  BY DEF ActorInv, Fits, RestartGateway, service, chain
<1>1. tasks' = {t \in tasks : t.actor # gateway}
  BY DEF RestartGateway
<1>2. ChainFits' /\ TasksFit' /\ DatabasesBehindChain'
  <2>1. tasks' \subseteq tasks
    BY <1>1
  <2> QED
    BY <1>a, <2>1, ChainFrame, TasksFrame, DatabasesFrame
<1>3. ASSUME NEW s \in Service
      PROVE  \/ request'[s] = request[s]
             \/ /\ request'[s].kind = request[s].kind /\ request'[s].at = "lost"
                /\ ~request'[s].entry.known /\ request[s].at # "ok"
  <2> DEFINE lost == [request[s] EXCEPT !.at = "lost", !.entry = NoEntry]
  <2>1. \/ request'[s] = request[s]
        \/ request'[s] = lost /\ request[s].at # "ok"
    BY DEF RestartGateway
  <2>2. lost.kind = request[s].kind /\ lost.at = "lost" /\ ~lost.entry.known
    BY <1>a DEF ActorTypes, Requests, NoEntry
  <2> HIDE DEF lost
  <2> QED
    BY <2>1, <2>2
<1>4. ASSUME NEW s \in Service PROVE AsksInOrder(s)' /\ SessionFits(s)'
  <2>1. AsksInOrder(s) /\ SessionFits(s) /\ request'[s].kind = request[s].kind
    BY <1>a, <1>3 DEF ServicesFit
  <2>2. \A t \in tasks : t.actor = s => t \in tasks'
    BY <1>1, ConstantsFit
  <2>3. AsksInOrder(s)'
    BY <1>a, <1>1, <2>1, <2>2 DEF AsksInOrder, About, EventOf
  <2>4. SessionFits(s)'
    <3>1. CASE request'[s] = request[s]
      BY <1>a, <2>1, <3>1, SessionFrame
    <3>2. CASE /\ request'[s].at = "lost" /\ ~request'[s].entry.known /\ request[s].at # "ok"
      BY <1>a, <2>1, <3>2 DEF SessionFits, At
    <3> QED
      BY <1>3, <3>1, <3>2
  <2> QED
    BY <2>3, <2>4
<1> QED
  BY <1>2, <1>4 DEF Fits, ServicesFit

\* What an entry says of a payload stays true of it.
LEMMA EntryStays ==
    ASSUME LogInv, LogInv', [Next]_vars, NEW h \in Hash, NEW entry, BehindChain(entry, h)
    PROVE  /\ entry.isStored => payloads'[h].isValue
           /\ entry.isApproved =>
                  payloads'[h].isApproved /\ entry.expiryTime = payloads'[h].expiryTime
<1>1. payloads[h].isValue => payloads'[h].isValue
  BY ChainGrows
<1>2. payloads[h].isApproved =>
          payloads'[h].isApproved /\ payloads'[h].expiryTime = payloads[h].expiryTime
  BY ApprovedStays DEF vars
<1> QED
  BY <1>1, <1>2 DEF BehindChain

\* A step of the chain that approves what the pool asks for, and nothing else.
LEMMA ChainStepFits ==
    ASSUME LogInv, LogInv', ActorInv, [Next]_vars, pool' \subseteq pool,
           UNCHANGED <<tasks, asks, serviceDb, request, accessDb, tokenDb, nonceDb>>,
           PartiesKnown', now' <= clock' + Skew,
           \A u \in Service : payloads'[tokenOf[u]].isApproved =>
               payloads[tokenOf[u]].isApproved \/ ApproveTx(u) \in pool
    PROVE  Fits'
<1>a. /\ ActorTypes /\ TasksFit /\ ServicesFit /\ DatabasesBehindChain /\ AccessLogged
      /\ DOMAIN log \subseteq DOMAIN log' /\ \A i \in DOMAIN log : log'[i] = log[i]
      /\ \A h \in Hash : payloads[h].isValue => payloads'[h].isValue
      /\ \A h \in Hash : payloads[h].isApproved => payloads'[h].isApproved
  BY ChainGrows DEF ActorInv, Fits, ChainFits
<1>1. ChainFits'
  BY <1>a, AccessLoggedStep DEF ChainFits
<1>2. \A t \in tasks : EventOf(t)' = EventOf(t) /\ EventOf(t).payloadHash \in Hash
  BY <1>a, EventFacts DEF ActorTypes, TasksTyped, EventOf
<1>3. TasksFit'
  <2> SUFFICES ASSUME NEW t \in tasks PROVE TaskFits(t)'
    BY <1>a DEF TasksFit
  <2> QED
    BY <1>a, <1>2, EntryStays DEF TasksFit, TaskFits, BehindChain
<1>4. DatabasesBehindChain'
  <2>1. ASSUME NEW h \in Hash, tokenDb[h].known
        PROVE  payloads'[h].isValue /\ BehindChain(tokenDb[h], h)'
    BY <1>a, <2>1, EntryStays DEF DatabasesBehindChain, BehindChain
  <2>2. ASSUME NEW s \in Service PROVE BehindChain(serviceDb[s], tokenOf[s])'
    <3>1. tokenOf[s] \in Hash
      BY ConstantsFit
    <3> QED
      BY <1>a, <3>1, EntryStays DEF DatabasesBehindChain, BehindChain
  <2> QED
    BY <2>1, <2>2 DEF DatabasesBehindChain
<1>5. ASSUME NEW s \in Service PROVE AsksInOrder(s)' /\ SessionFits(s)'
  <2>1. AsksInOrder(s) /\ SessionFits(s) /\ tokenOf[s] \in Hash
    BY <1>a, ConstantsFit DEF ServicesFit
  <2>2. \A t \in tasks : \A event : About(t, s, event)' = About(t, s, event)
    BY <1>2 DEF About
  <2>3. AsksInOrder(s)'
    BY <2>1, <2>2 DEF AsksInOrder
  <2>4. request[s].entry.known =>
            payloads'[tokenOf[s]].isValue /\ BehindChain(request[s].entry, tokenOf[s])'
    BY <1>a, <2>1, EntryStays DEF SessionFits, BehindChain
  <2>5. SessionFits(s)'
    BY <1>a, <2>1, <2>4 DEF SessionFits, At
  <2> QED
    BY <2>3, <2>5
<1> QED
  BY <1>1, <1>3, <1>4, <1>5 DEF Fits, ServicesFit

LEMMA MiningStep ==
    ASSUME LogInv, LogInv', ActorInv, [Next]_vars, NEW s \in Service, MineStore(s) \/ MineApproval(s)
    PROVE  Fits'
<1> DEFINE h == tokenOf[s]
<1>a. /\ PartiesKnown /\ now <= clock + Skew /\ payloads \in [Hash -> Payload]
      /\ h \in Hash /\ \A u \in Service : tokenOf[u] \in Hash /\ (u # s => tokenOf[u] # h)
      /\ pool' \subseteq pool
      /\ UNCHANGED <<tasks, asks, serviceDb, request, accessDb, tokenDb, nonceDb, clock>>
  BY ConstantsFit DEF ActorInv, Fits, ChainFits, LogInv, TypeOK, MineStore, MineApproval, Mine, Take,
     service
<1>1. CASE MineStore(s)
  <2>1. /\ payloads' = [payloads EXCEPT ![h] = [payloads[h] EXCEPT !.source = s, !.target = s,
                                                     !.approver = gateway, !.isValue = TRUE]]
        /\ now' = now
    BY <1>1 DEF MineStore, storePayload
  <2>2. payloads'[h].source = s /\ payloads'[h].isApproved = payloads[h].isApproved
    BY <1>a, <2>1 DEF Payload
  <2>3. \A g \in Hash : g # h => payloads'[g] = payloads[g]
    BY <1>a, <2>1
  <2>4. PartiesKnown'
    BY <1>a, <2>2, <2>3 DEF PartiesKnown
  <2> QED
    BY <1>a, <2>1, <2>2, <2>3, <2>4, ChainStepFits
<1>2. CASE MineApproval(s)
  <2>1. ApproveTx(s) \in pool /\ (UNCHANGED chain \/ approveAccess(gateway, h, expiredIn))
    BY <1>2 DEF MineApproval, Mine, Take
  <2>2. /\ now' = now /\ \A g \in Hash : g # h => payloads'[g] = payloads[g]
        /\ payloads'[h].source = payloads[h].source /\ payloads'[h].isValue = payloads[h].isValue
    BY <1>a, <2>1 DEF approveAccess, chain, Payload
  <2>3. PartiesKnown'
    BY <1>a, <2>2 DEF PartiesKnown
  <2> QED
    BY <1>a, <2>1, <2>2, <2>3, ChainStepFits
<1> QED
  BY <1>1, <1>2

LEMMA OtherStep ==
    ASSUME LogInv, LogInv', ActorInv, [Next]_vars,
           \/ \E tx \in pool : Refuse(tx)
           \/ Revoke \/ BlockTime \/ GatewayTime \/ UNCHANGED allVars
    PROVE  Fits'
<1>a. /\ PartiesKnown /\ now <= clock + Skew /\ payloads \in [Hash -> Payload]
      /\ \A u \in Service : tokenOf[u] \in Hash
      /\ now \in 0 .. MaxTime /\ clock \in 0 .. MaxTime
  BY ConstantsFit DEF ActorInv, ActorTypes, Fits, ChainFits, LogInv, TypeOK
<1>b. /\ pool' \subseteq pool
      /\ UNCHANGED <<tasks, asks, serviceDb, request, accessDb, tokenDb, nonceDb>>
  BY DEF Refuse, Mine, Take, Revoke, BlockTime, GatewayTime, allVars, actors, service
<1>c. now \in Int /\ clock \in Int /\ Skew \in Int
  BY <1>a, ConstantsFit
<1>1. now' <= clock' + Skew
  <2>1. CASE UNCHANGED <<now, clock>>
    BY <1>a, <2>1
  <2>2. CASE BlockTime
    <3>1. now + 1 <= clock + Skew /\ now' = now + 1 /\ clock' = clock
      BY <2>2 DEF BlockTime, Tick, actors
    <3> QED
      BY <3>1
  <2>3. CASE GatewayTime
    <3>1. clock' = clock + 1 /\ now' = now
      BY <2>3 DEF GatewayTime, chain
    <3> QED
      BY <1>a, <1>c, <3>1
  <2> QED
    BY <2>1, <2>2, <2>3 DEF Refuse, Mine, Revoke, revokeGateway, revokeAccess, allVars, actors, chain
<1>2. \A h \in Hash : /\ payloads'[h].source = payloads[h].source
                      /\ payloads'[h].isValue = payloads[h].isValue
                      /\ payloads'[h].isApproved = payloads[h].isApproved
  <2>1. CASE UNCHANGED payloads
    BY <2>1
  <2>2. ASSUME NEW g \in Hash, payloads' = [payloads EXCEPT ![g].isRevoked = TRUE]
        PROVE  \A h \in Hash : /\ payloads'[h].source = payloads[h].source
                               /\ payloads'[h].isValue = payloads[h].isValue
                               /\ payloads'[h].isApproved = payloads[h].isApproved
    BY <1>a, <2>2 DEF Payload
  <2>3. CASE Revoke
    BY <1>a, <2>2, <2>3, ConstantsFit DEF Revoke, revokeGateway, revokeAccess
  <2> QED
    BY <2>1, <2>3 DEF Refuse, BlockTime, Tick, GatewayTime, allVars, chain
<1>3. PartiesKnown'
  BY <1>a, <1>2 DEF PartiesKnown
<1> QED
  BY <1>a, <1>b, <1>1, <1>2, <1>3, ChainStepFits

LEMMA ActorInvStep == LogInv /\ LogInv' /\ ActorInv /\ [NextAll]_allVars => ActorInv'
<1> SUFFICES ASSUME LogInv, LogInv', ActorInv, [NextAll]_allVars PROVE ActorInv'
  OBVIOUS
<1>a. ActorTypes' /\ [Next]_vars
  BY TypesStep, ChainSteps DEF ActorInv
<1> SUFFICES Fits'
  BY <1>a DEF ActorInv
<1>1. ASSUME NEW s \in Service, ServiceMain(s) \/ GatewayHandles(s) PROVE Fits'
  BY <1>1, ServiceMainStep, RequestStep
<1>2. CASE Events
  BY <1>2, DeliveryStep, ServiceHandlerStep, GatewayHandlerStep DEF Events
<1>3. CASE Mining
  BY <1>a, <1>3, MiningStep, OtherStep DEF Mining
<1>4. CASE RestartGateway
  BY <1>4, RestartStep
<1>5. CASE Revoke \/ BlockTime \/ GatewayTime \/ UNCHANGED allVars
  BY <1>a, <1>5, OtherStep
<1> QED
  BY <1>1, <1>2, <1>3, <1>4, <1>5 DEF NextAll

\* The contract's state after GatewayAuthentication is one that its log tells.
LEMMA LogInvInitAll == InitAll => LogInv
<1> SUFFICES ASSUME InitAll PROVE LogInv
  OBVIOUS
<1> DEFINE p == [NoPayload EXCEPT !.source = owner, !.target = gateway, !.approver = isp,
                                  !.isValue = TRUE, !.isApproved = TRUE]
           added == PayloadAdded(gatewayHash, owner, gateway, isp)
           approved == GatewayApproved(gatewayHash, isp, gateway)
<1>1. /\ log = <<added, approved>> /\ DOMAIN log = {1, 2}
      /\ log[1] = added /\ log[2] = approved
  BY DEF InitAll
<1>2. /\ p \in Payload /\ NoPayload \in Payload /\ 0 \in Uint
      /\ p.source = owner /\ p.target = gateway /\ p.approver = isp
      /\ p.isValue /\ p.isApproved /\ ~p.isRevoked
      /\ ~NoPayload.isValue /\ ~NoPayload.isApproved /\ ~NoPayload.isRevoked
  <2>1. 0 \in Uint
    BY RegistryAssumption DEF Uint
  <2>2. NoPayload \in Payload
    BY <2>1 DEF NoPayload, Payload, AnyAddress
  <2>3. /\ p.source = owner /\ p.target = gateway /\ p.approver = isp
        /\ p.isValue /\ p.isApproved /\ ~p.isRevoked
        /\ ~NoPayload.isValue /\ ~NoPayload.isApproved /\ ~NoPayload.isRevoked
    BY DEF NoPayload
  <2>4. p \in Payload
    BY <2>2, ConstantsFit DEF Payload
  <2> QED
    BY <2>1, <2>2, <2>3, <2>4
<1>3. payloads = [h \in Hash |-> IF h = gatewayHash THEN p ELSE NoPayload]
  BY DEF InitAll
<1>4. TypeOK
  <2>1. added \in Event /\ approved \in Event
    BY ConstantsFit, EventsTyped, <1>2
  <2>2. log \in Seq(Event)
    BY <1>1, <2>1
  <2>3. now \in 0 .. MaxTime
    BY RegistryAssumption DEF InitAll, Uint
  <2>4. /\ trustedGateways \in [AnyAddress -> RouterIp]
        /\ trustedDevices \in [AnyAddress -> AnyAddress]
    BY ConstantsFit DEF InitAll, RouterIp, AnyAddress
  <2>5. payloads \in [Hash -> Payload]
    BY <1>2, <1>3
  <2> QED
    BY <2>2, <2>3, <2>4, <2>5 DEF TypeOK
<1>5. /\ Rank(log[1]) = 1 /\ Rank(log[2]) = 2
      /\ \A i \in DOMAIN log : log[i].payloadHash = gatewayHash
      /\ log[1].sender = owner /\ log[1].target = gateway /\ log[1].approver = isp
      /\ log[1].event = "PayloadAdded" /\ log[2].event = "GatewayApproved"
      /\ log[2].sender = isp /\ log[2].target = gateway
  BY <1>1 DEF Rank, PayloadAdded, GatewayApproved, Approvals
<1>6. EventsInOrder
  BY <1>1, <1>5 DEF EventsInOrder
<1>7. FlagsAreLogged
  <2>1. \A h \in Hash : /\ Logged(log, h, 1) <=> h = gatewayHash
                        /\ Logged(log, h, 2) <=> h = gatewayHash
                        /\ ~Logged(log, h, 3)
    BY <1>1, <1>5 DEF Logged
  <2> QED
    BY <1>2, <1>3, <2>1 DEF FlagsAreLogged
<1>8. FlagsInOrder
  BY <1>2, <1>3 DEF FlagsInOrder
<1>9. PartiesAreLogged
  <2>1. /\ payloads[gatewayHash].source = owner /\ payloads[gatewayHash].target = gateway
        /\ payloads[gatewayHash].approver = isp
    BY <1>2, <1>3, ConstantsFit
  <2> QED
    BY <1>1, <1>5, <2>1 DEF PartiesAreLogged, Announces, Approvals
<1> QED
  BY <1>4, <1>6, <1>7, <1>8, <1>9 DEF LogInv, LogMatchesPayloads

LEMMA ActorInvInit == InitAll => ActorInv
<1> SUFFICES ASSUME InitAll PROVE ActorInv
  OBVIOUS
<1>1. ActorTypes
  <2>1. NoRequest \in Requests
    BY EntriesTyped DEF NoRequest, Requests, RequestStage
  <2>2. clock \in 0 .. MaxTime /\ restarts \in 0 .. MaxRestarts
    BY ConstantsFit DEF InitAll
  <2>3. asks \in [Service -> SUBSET Resource]
    BY ConstantsFit DEF InitAll
  <2> QED
    BY <2>1, <2>2, <2>3, EntriesTyped DEF InitAll, ActorTypes, TasksTyped
<1>2. ChainFits
  <2>1. AccessLogged
    <3> DEFINE added == PayloadAdded(gatewayHash, owner, gateway, isp)
               approved == GatewayApproved(gatewayHash, isp, gateway)
    <3>a. log = <<added, approved>>
      BY DEF InitAll
    <3>b. payloads[gatewayHash].source = owner
      BY ConstantsFit DEF InitAll, NoPayload
    <3> HIDE DEF added, approved
    <3>1. DOMAIN log = {1, 2} /\ log[1] = added /\ log[2] = approved
      BY <3>a
    <3>2. /\ log[1].event = "PayloadAdded" /\ log[1].payloadHash = gatewayHash /\ log[1].sender = owner
          /\ log[2].event = "GatewayApproved"
      BY <3>1 DEF added, approved, PayloadAdded, GatewayApproved
    <3> QED
      BY <3>b, <3>1, <3>2 DEF AccessLogged, AccessEventFits
  <2>2. PartiesKnown
    BY ConstantsFit DEF InitAll, PartiesKnown, NoPayload
  <2>3. now <= clock + Skew
    BY ConstantsFit DEF InitAll
  <2> QED
    BY <2>1, <2>2, <2>3 DEF ChainFits
<1>3. TasksFit
  BY DEF InitAll, TasksFit
<1>4. ASSUME NEW s \in Service PROVE AsksInOrder(s) /\ SessionFits(s)
  <2>1. /\ tasks = {} /\ pool = {} /\ accessDb[s] = {} /\ nonceDb[s] = "absent"
        /\ request[s].kind = "none" /\ request[s].at = "none" /\ ~request[s].entry.known
    BY DEF InitAll, NoRequest, NoEntry
  <2>2. ~payloads[tokenOf[s]].isApproved
    BY ConstantsFit DEF InitAll, NoPayload
  <2> QED
    BY <2>1, <2>2 DEF AsksInOrder, SessionFits, At
<1>5. DatabasesBehindChain
  BY DEF InitAll, DatabasesBehindChain, BehindChain, NoEntry
<1> QED
  BY <1>1, <1>2, <1>3, <1>4, <1>5 DEF ActorInv, Fits, ServicesFit

LEMMA SystemInvariant == SpecAll => [](LogInv /\ ActorInv)
<1>1. InitAll => LogInv /\ ActorInv
  BY LogInvInitAll, ActorInvInit
<1>2. LogInv /\ ActorInv /\ [NextAll]_allVars => LogInv' /\ ActorInv'
  BY ChainSteps, LogInvStep, ActorInvStep
<1> QED
  BY <1>1, <1>2, PTL DEF SpecAll

-------------------------------------------------------------------------------
(* The theorems.                                                           *)

\* Every variable keeps its type, the contract's included.
THEOREM SystemTypeCorrect == SpecAll => []TypeOKAll
<1>1. LogInv /\ ActorInv => TypeOKAll
  BY DEF LogInv, ActorInv, ActorTypes, TypeOKAll, TasksTyped, TaskStage, Requests, RequestStage
<1> QED
  BY <1>1, SystemInvariant, PTL

\* Neither the gateway's nor a service's database says of a token what the contract
\* does not, whatever is restarted, replayed, refused or revoked in between.
THEOREM DatabasesFollowChain == SpecAll => []DatabasesBehindChain
<1>1. LogInv /\ ActorInv => DatabasesBehindChain
  BY DEF ActorInv, Fits
<1> QED
  BY <1>1, SystemInvariant, PTL

-------------------------------------------------------------------------------
(* How far a token has come, as AccessGrant sees it.                       *)

Expiry(s) == payloads[tokenOf[s]].expiryTime

\* Only the gateway's HTTP handlers serve, and nothing takes back what was served.
LEMMA ServedOnly ==
    ASSUME LogInv, ActorInv, NEW s \in Service,
           \/ \E u \in Service : ServiceMain(u)
           \/ Events \/ Mining \/ RestartGateway \/ Revoke \/ BlockTime \/ GatewayTime
           \/ UNCHANGED allVars
    PROVE  Served(s)' <=> Served(s)
<1>a. ActorTypes /\ AsksInOrder(s)
  BY DEF ActorInv, Fits, ServicesFit
<1>1. CASE UNCHANGED request
  BY <1>1 DEF Served, At
<1>2. ASSUME NEW u \in Service, NEW kind, Ask(u, kind), u = s => ~Served(s)
      PROVE  Served(s)' <=> Served(s)
  BY <1>a, <1>2 DEF Ask, NoRequest, Served, At, ActorTypes
<1>3. ASSUME NEW u \in Service, ServiceMain(u) PROVE Served(s)' <=> Served(s)
  <2>1. CASE RequestForResource(u)
    BY <1>2, <2>1 DEF RequestForResource, Served, At
  <2> QED
    BY <1>1, <1>3, <2>1 DEF ServiceMain, GetAccessList, Publish, ServiceStoresPayload
<1>4. ASSUME NEW u \in Service, NEW t \in tasks, ServicePayloadAdded(u, t) \/ ServiceAccessApproved(u, t)
      PROVE  Served(s)' <=> Served(s)
  <2>1. CASE UNCHANGED request
    BY <1>1, <2>1
  <2>2. CASE t.at = "send" /\ \E kind : Ask(u, kind)
    <3>1. u = s => ~Served(s)
      BY <1>a, <1>4, <2>2 DEF AsksInOrder, About, ServicePayloadAdded, ServiceAccessApproved, Served, At
    <3> QED
      BY <1>2, <2>2, <3>1
  <2> QED
    BY <1>4, <2>1, <2>2 DEF ServicePayloadAdded, ServiceAccessApproved, WriteAndAsk
<1>5. CASE RestartGateway
  <2> DEFINE lost == [request[s] EXCEPT !.at = "lost", !.entry = NoEntry]
  <2>1. \/ request'[s] = request[s]
        \/ request'[s] = lost /\ request[s].at # "ok"
    BY <1>5 DEF RestartGateway
  <2>2. lost.at = "lost"
    BY <1>a DEF ActorTypes, Requests
  <2> HIDE DEF lost
  <2> QED
    BY <2>1, <2>2 DEF Served, At
<1>6. CASE \/ \E u \in Service : ServiceDelivers(u)
           \/ GatewayDelivers \/ Mining \/ Revoke \/ BlockTime \/ GatewayTime \/ UNCHANGED allVars
           \/ \E t \in tasks : GatewayPayloadAdded(t) \/ GatewayAccessApproved(t)
  BY <1>1, <1>6 DEF ServiceDelivers, GatewayDelivers, Mining, MineStore, MineApproval, Refuse, Mine,
     Revoke, BlockTime, GatewayTime, GatewayPayloadAdded, GatewayAccessApproved, allVars, actors
<1> QED
  BY <1>3, <1>4, <1>5, <1>6 DEF Events

\* Of those, only ServeResource does.
LEMMA ServedStep ==
    ASSUME LogInv, ActorInv, [NextAll]_allVars, NEW s \in Service, ~ServeResource(s)
    PROVE  Served(s)' <=> Served(s)
<1>a. ActorTypes
  BY DEF ActorInv
<1>1. ASSUME NEW u \in Service, NEW at, NEW entry, Goto(u, at, entry),
             request[u].kind # "resource" \/ u # s
      PROVE  Served(s)' <=> Served(s)
  BY <1>a, <1>1 DEF Goto, Served, At, ActorTypes, Requests
<1>2. ASSUME NEW u \in Service, GatewayHandles(u) PROVE Served(s)' <=> Served(s)
  <2>1. CASE ServeResource(u)
    <3>1. u # s
      BY <2>1
    <3> QED
      BY <1>1, <2>1, <3>1 DEF ServeResource, CheckToken
  <2>2. CASE ~ServeResource(u)
    <3>1. request[u].kind # "resource" /\ \E at, entry : Goto(u, at, entry)
      BY <1>2, <2>2 DEF GatewayHandles, AuthorizeReadsToken, SetAccesses, SendApproval,
         StoreNewNonce, HandshakeChecksToken, CheckToken, UpdateSecret, At
    <3> QED
      BY <1>1, <3>1
  <2> QED
    BY <2>1, <2>2
<1> QED
  BY <1>2, ServedOnly DEF NextAll

\* What is served was approved, and has not expired by the gateway's clock.
LEMMA ServeStep ==
    ASSUME LogInv, ActorInv, NEW s \in Service, ServeResource(s), Served(s)'
    PROVE  /\ payloads[tokenOf[s]].isApproved /\ nonceDb[s] = "key"
           /\ clock <= Expiry(s) /\ now <= Expiry(s) + Skew
           /\ UNCHANGED <<payloads, asks, nonceDb, clock>>
<1> DEFINE h == tokenOf[s]
<1>a. ActorTypes /\ ChainFits /\ DatabasesBehindChain /\ h \in Hash
  BY ConstantsFit DEF ActorInv, Fits
<1>1. /\ tokenDb[h].known /\ validToken(tokenDb[h]) /\ nonceDb[s] = "key"
      /\ UNCHANGED <<payloads, asks, nonceDb, clock>>
  <2>1. PICK at : /\ request' = [request EXCEPT ![s] = [@ EXCEPT !.at = at, !.entry = NoEntry]]
                  /\ at = IF ~tokenDb[h].known THEN "hung"
                          ELSE IF ~validToken(tokenDb[h]) THEN "denied" ELSE "ok"
    BY DEF ServeResource, CheckToken, Goto, getTokenObject
  <2>2. at = "ok"
    BY <1>a, <2>1 DEF Served, At, ActorTypes, Requests
  <2>3. nonceDb[s] = "key" /\ UNCHANGED <<payloads, asks, nonceDb, clock>>
    BY DEF ServeResource, CheckToken, getSecret, service, chain
  <2> QED
    BY <2>1, <2>2, <2>3
<1>2. payloads[h].isApproved /\ Expiry(s) = tokenDb[h].expiryTime /\ ~(tokenDb[h].expiryTime < clock)
  BY <1>a, <1>1 DEF DatabasesBehindChain, BehindChain, validToken, Expiry
<1>3. Expiry(s) \in Int /\ clock \in Int /\ now \in Int /\ Skew \in Int
  <2>1. /\ tokenDb[h].expiryTime \in 0 .. (UintSize - 1) /\ clock \in 0 .. MaxTime
        /\ now \in 0 .. MaxTime
    BY <1>a DEF ActorTypes, Entry, Uint, LogInv, TypeOK
  <2> QED
    BY <1>2, <2>1, ConstantsFit
<1>4. now <= clock + Skew
  BY <1>a DEF ChainFits
<1> QED
  BY <1>1, <1>2, <1>3, <1>4

\* A resource is served for an access that the chain approved, and no later than the
\* clocks differ after it expired there, however stale the gateway's database is.
THEOREM ServedInTime == SpecAll => ServedUntilExpiry
<1> DEFINE InTime == \A s \in Service : ~Served(s) /\ Served(s)' =>
                         /\ payloads[tokenOf[s]].isApproved
                         /\ now <= payloads[tokenOf[s]].expiryTime + Skew
<1>1. LogInv /\ ActorInv /\ [NextAll]_allVars => [InTime]_allVars
  BY ServedStep, ServeStep DEF Expiry
<1> QED
  BY <1>1, SystemInvariant, PTL DEF SpecAll, ServedUntilExpiry

-------------------------------------------------------------------------------
(* Services and gateway implement AccessGrant.                             *)

\* Nothing that AccessGrant speaks of changes.
LEMMA GrantStays ==
    ASSUME UNCHANGED <<asks, clock>>,
           \A s \in Service : GrantStage(s)' = GrantStage(s) /\ Expiry(s)' = Expiry(s)
    PROVE  UNCHANGED Grant!vars
  BY DEF Grant!vars, Expiry

LEMMA GrantUses ==
    ASSUME NEW s \in Service, NEW from, NEW to, GrantStage(s) = from,
           UNCHANGED <<payloads, asks, clock>>,
           \A u \in Service : GrantStage(u)' = IF u = s THEN to ELSE GrantStage(u)
    PROVE  Grant!Use(s, from, to)
  BY DEF Grant!Use

LEMMA GrantRequestStep ==
    ASSUME LogInv, ActorInv, [NextAll]_allVars, NEW s \in Service, GatewayHandles(s)
    PROVE  [Grant!Next]_(Grant!vars)
<1>a. /\ ActorTypes /\ SessionFits(s)
      /\ UNCHANGED <<chain, payloads, asks, clock>>
      /\ \A u \in Service : Expiry(u)' = Expiry(u)
  BY DEF ActorInv, Fits, ServicesFit, GatewayHandles, AuthorizeReadsToken, SetAccesses, SendApproval,
     StoreNewNonce, HandshakeChecksToken, CheckToken, UpdateSecret, ServeResource, service, chain, Expiry
<1>1. CASE ServeResource(s) /\ Served(s)'
  <2>1. /\ nonceDb[s] = "key" /\ clock <= Expiry(s) /\ UNCHANGED nonceDb /\ ~Served(s)
        /\ \A u \in Service : u # s => request'[u] = request[u]
    BY <1>a, <1>1, ServeStep DEF ServeResource, CheckToken, Goto, Served, At, ActorTypes
  <2>2. Grant!Use(s, "open", "served")
    BY <1>a, <1>1, <2>1, GrantUses DEF GrantStage, Served, At
  <2> QED
    BY <2>1, <2>2 DEF Grant!Next, Grant!Serve, Expiry
<1>2. CASE ServeResource(s) /\ ~Served(s)'
  <2>1. UNCHANGED nonceDb /\ ~Served(s) /\ \A u \in Service : u # s => request'[u] = request[u]
    BY <1>a, <1>2 DEF ServeResource, CheckToken, Goto, Served, At, ActorTypes
  <2>2. \A u \in Service : GrantStage(u)' = GrantStage(u)
    BY <1>a, <1>2, <2>1 DEF GrantStage, Served, At
  <2> QED
    BY <1>a, <2>2, GrantStays
<1>3. CASE UpdateSecret(s)
  <2>1. /\ At(s, "handshake", "agreeing")
        /\ \A u \in Service : u # s => request'[u] = request[u]
        /\ request'[s].kind = "handshake"
        /\ \A u \in Service : nonceDb'[u] = IF u = s THEN "key" ELSE nonceDb[u]
    BY <1>a, <1>3 DEF UpdateSecret, updateSecret, Goto, At, ActorTypes, Requests
  <2>2. payloads[tokenOf[s]].isApproved /\ nonceDb[s] # "key"
    BY <1>a, <2>1 DEF SessionFits, At
  <2>3. Grant!Use(s, "approved", "open")
    BY <1>a, <2>1, <2>2, GrantUses DEF GrantStage, Served, At
  <2> QED
    BY <2>3 DEF Grant!Next, Grant!Open
<1>4. CASE ~ServeResource(s) /\ ~UpdateSecret(s)
  <2>1. \A u \in Service : nonceDb'[u] = "key" <=> nonceDb[u] = "key"
    <3>1. CASE StoreNewNonce(s)
      <4>1. nonceDb[s] # "key"
        BY <1>a, <3>1 DEF SessionFits, StoreNewNonce, At
      <4> QED
        BY <1>a, <3>1, <4>1 DEF StoreNewNonce, storeNewNonce, ActorTypes
    <3> QED
      BY <1>4, <3>1 DEF GatewayHandles, AuthorizeReadsToken, SetAccesses, SendApproval,
         HandshakeChecksToken
  <2>2. \A u \in Service : Served(u)' <=> Served(u)
    <3>1. ASSUME NEW u \in Service, u # s PROVE ~ServeResource(u) \/ request'[u] = request[u]
      BY <1>a, <3>1 DEF GatewayHandles, AuthorizeReadsToken, SetAccesses, SendApproval, StoreNewNonce,
         HandshakeChecksToken, CheckToken, UpdateSecret, ServeResource, Goto, ActorTypes
    <3> QED
      BY <1>4, <3>1, ServedStep DEF Served, At
  <2>3. \A u \in Service : GrantStage(u)' = GrantStage(u)
    BY <1>a, <2>1, <2>2 DEF GrantStage
  <2> QED
    BY <1>a, <2>3, GrantStays
<1> QED
  BY <1>1, <1>2, <1>3, <1>4

LEMMA GrantMiningStep ==
    ASSUME LogInv, LogInv', ActorInv, [NextAll]_allVars, NEW s \in Service,
           MineStore(s) \/ MineApproval(s)
    PROVE  [Grant!Next]_(Grant!vars)
<1> DEFINE h == tokenOf[s]
<1>a. /\ SessionFits(s) /\ payloads \in [Hash -> Payload] /\ payloads' \in [Hash -> Payload]
      /\ h \in Hash /\ \A u \in Service : tokenOf[u] \in Hash /\ (u # s => tokenOf[u] # h)
      /\ UNCHANGED <<asks, request, nonceDb, clock>>
  BY ConstantsFit DEF ActorInv, Fits, ServicesFit, LogInv, TypeOK, MineStore, MineApproval, Mine,
     service
<1>b. \A u \in Service : ~ServeResource(u) \/ UNCHANGED request
  BY <1>a
<1>1. \A u \in Service : Served(u)' <=> Served(u)
  BY <1>a DEF Served, At
<1>2. \A g \in Hash : g # h => payloads'[g] = payloads[g]
  BY <1>a DEF MineStore, storePayload, MineApproval, approveAccess, chain
<1>3. CASE /\ payloads'[h].isApproved = payloads[h].isApproved
           /\ payloads'[h].expiryTime = payloads[h].expiryTime
  <2>1. \A u \in Service : /\ payloads'[tokenOf[u]].isApproved = payloads[tokenOf[u]].isApproved
                           /\ Expiry(u)' = Expiry(u)
    BY <1>a, <1>2, <1>3 DEF Expiry
  <2>2. \A u \in Service : GrantStage(u)' = GrantStage(u)
    BY <1>a, <1>1, <2>1 DEF GrantStage
  <2> QED
    BY <1>a, <2>1, <2>2, GrantStays
<1>4. CASE MineStore(s)
  <2>1. payloads' = [payloads EXCEPT ![h] = [payloads[h] EXCEPT !.source = s, !.target = s,
                                                   !.approver = gateway, !.isValue = TRUE]]
    BY <1>4 DEF MineStore, storePayload
  <2> QED
    BY <1>3, <1>a, <2>1 DEF Payload
<1>5. CASE MineApproval(s)
  <2>1. CASE UNCHANGED chain
    BY <1>3, <2>1 DEF chain
  <2>2. CASE approveAccess(gateway, h, expiredIn)
    <3>1. ~payloads[h].isApproved /\ payloads'[h].isApproved
      BY <1>a, <2>2 DEF approveAccess, payloadMustBeNotApproved, Payload
    <3>2. asks[s] \subseteq assigned
      BY <1>a, <1>5 DEF MineApproval, Mine, Take, SessionFits
    <3>3. nonceDb[s] # "key" /\ ~Served(s)
      BY <1>a, <3>1 DEF SessionFits, Served, At
    <3>4. GrantStage(s) = "none"
      BY <3>1, <3>3 DEF GrantStage
    <3>5. \A u \in Service : GrantStage(u)' = IF u = s THEN "approved" ELSE GrantStage(u)
      BY <1>a, <1>1, <1>2, <3>1, <3>3 DEF GrantStage
    <3>6. PICK time \in Uint : payloads'[h].expiryTime = time
      BY <1>a DEF Payload
    <3>7. \A u \in Service : Expiry(u)' = IF u = s THEN time ELSE Expiry(u)
      BY <1>a, <1>2, <3>6 DEF Expiry
    <3>8. Grant!Approve(s, time)
      BY <1>a, <3>2, <3>4, <3>5, <3>7 DEF Grant!Approve, Expiry
    <3> QED
      BY <3>8 DEF Grant!Next
  <2> QED
    BY <1>5, <2>1, <2>2 DEF MineApproval
<1> QED
  BY <1>4, <1>5

LEMMA GrantStep ==
    ASSUME LogInv, LogInv', ActorInv, [NextAll]_allVars PROVE [Grant!Next]_(Grant!vars)
<1>1. ASSUME NEW s \in Service, GatewayHandles(s) PROVE [Grant!Next]_(Grant!vars)
  BY <1>1, GrantRequestStep
<1>2. ASSUME NEW s \in Service, MineStore(s) \/ MineApproval(s) PROVE [Grant!Next]_(Grant!vars)
  BY <1>2, GrantMiningStep
<1>3. ASSUME UNCHANGED <<asks, clock, nonceDb>>, \A s \in Service : Served(s)' <=> Served(s),
             \A h \in Hash : /\ payloads'[h].isApproved = payloads[h].isApproved
                             /\ payloads'[h].expiryTime = payloads[h].expiryTime
      PROVE  [Grant!Next]_(Grant!vars)
  <2>1. \A s \in Service : GrantStage(s)' = GrantStage(s) /\ Expiry(s)' = Expiry(s)
    BY <1>3, ConstantsFit DEF GrantStage, Expiry
  <2> QED
    BY <1>3, <2>1, GrantStays
<1>4. CASE GatewayTime
  <2>1. /\ clock \in 0 .. MaxTime /\ clock' = clock + 1
        /\ UNCHANGED <<payloads, asks, request, nonceDb>>
    BY <1>4 DEF ActorInv, ActorTypes, GatewayTime, service, chain
  <2>2. clock' > clock
    BY <2>1, ConstantsFit
  <2>3. \A s \in Service : GrantStage(s)' = GrantStage(s) /\ Expiry(s)' = Expiry(s)
    BY <2>1 DEF GrantStage, Served, At, Expiry
  <2>4. Grant!Tick
    BY <2>1, <2>2, <2>3 DEF Grant!Tick, Expiry
  <2> QED
    BY <2>4 DEF Grant!Next
<1>5. CASE \/ \E s \in Service : ServiceMain(s)
           \/ Events \/ RestartGateway \/ BlockTime \/ UNCHANGED allVars
           \/ \E tx \in pool : Refuse(tx)
  <2>1. UNCHANGED <<payloads, asks, clock, nonceDb>>
    BY <1>5 DEF ServiceMain, GetAccessList, Publish, ServiceStoresPayload, RequestForResource, Events,
       ServiceDelivers, GatewayDelivers, ServicePayloadAdded, ServiceAccessApproved, GatewayPayloadAdded,
       GatewayAccessApproved, RestartGateway, BlockTime, Tick, Refuse, Mine, service, actors, chain, allVars
  <2>2. ASSUME NEW s \in Service PROVE Served(s)' <=> Served(s)
    BY <1>5, ServedOnly DEF Mining
  <2> QED
    BY <1>3, <2>1, <2>2
<1>6. CASE Revoke
  <2>1. UNCHANGED <<asks, clock, nonceDb, request>>
    BY <1>6 DEF Revoke, actors, service
  <2>2. PICK g \in Hash : payloads' = [payloads EXCEPT ![g].isRevoked = TRUE]
    BY <1>6, ConstantsFit DEF Revoke, revokeGateway, revokeAccess
  <2>3. payloads \in [Hash -> Payload]
    BY DEF LogInv, TypeOK
  <2>4. \A h \in Hash : /\ payloads'[h].isApproved = payloads[h].isApproved
                        /\ payloads'[h].expiryTime = payloads[h].expiryTime
    BY <2>2, <2>3 DEF Payload
  <2> QED
    BY <1>3, <2>1, <2>4 DEF Served, At
<1> QED
  BY <1>1, <1>2, <1>4, <1>5, <1>6 DEF NextAll, Mining

\* Services and gateway keep the promise of AccessGrant: a token is approved for
\* accesses on the list only, and leads to one session and one resource, in time.
THEOREM ImplementsGrant == SpecAll => GrantSpec
<1>1. InitAll => Grant!Init
  <2> SUFFICES ASSUME InitAll PROVE Grant!Init
    OBVIOUS
  <2>1. ASSUME NEW s \in Service PROVE GrantStage(s) = "none" /\ Expiry(s) = 0
    BY ConstantsFit DEF InitAll, NoPayload, NoRequest, GrantStage, Served, At, Expiry
  <2>2. asks \in [Service -> SUBSET Resource] /\ clock = 0
    BY ConstantsFit DEF InitAll
  <2> QED
    BY <2>1, <2>2 DEF Grant!Init, Expiry
<1>2. LogInv /\ LogInv' /\ ActorInv /\ [NextAll]_allVars => [Grant!Next]_(Grant!vars)
  BY GrantStep
<1> QED
  BY <1>1, <1>2, SystemInvariant, PTL DEF SpecAll, GrantSpec, Grant!Spec

-------------------------------------------------------------------------------
(* What the gateway's database keeps of a token.                           *)

\* The gateway's handler of PayloadAdded made the entry of token h, and is done.
StoredByHandler(h) ==
    \E t \in tasks : /\ t.actor = gateway /\ t.at = "done"
                     /\ EventOf(t).event = "PayloadAdded" /\ EventOf(t).payloadHash = h

\* A handler of the gateway writes back an entry that has the accesses that were asked
\* for, as long as its first processes run.
TaskTied(t) ==
    /\ EventOf(t).event = "PayloadAdded" => EventOf(t).approver = gateway
    /\ t.at = "replace" =>
           /\ t.entry.known
           /\ restarts = 0 /\ EventOf(t).event = "AccessApproved" =>
                  /\ StoredByHandler(EventOf(t).payloadHash)
                  /\ \A s \in Service :
                         EventOf(t).payloadHash = tokenOf[s] => t.entry.accesses = asks[s]

TasksTied == \A t \in tasks : t.actor = gateway => TaskTied(t)

TokensKnown ==
    \A h \in Hash : /\ tokenDb[h].isApproved => tokenDb[h].known
                    /\ restarts = 0 /\ tokenDb[h].known => StoredByHandler(h)

HasAccesses(s) == tokenDb[tokenOf[s]].known /\ tokenDb[tokenOf[s]].accesses = asks[s]

\* The approval of a token is asked for at the end of its one request, after the
\* accesses are tied to it.
RequestTied(s) ==
    /\ request[s].entry.isApproved => request[s].entry.known
    /\ request[s].kind = "authorize" /\ request[s].at # "ok" =>
           ~payloads[tokenOf[s]].isApproved /\ ApproveTx(s) \notin pool
    /\ restarts = 0 =>
           /\ At(s, "authorize", "tying") \/ At(s, "authorize", "writing") =>
                  tokenDb[tokenOf[s]].known
           /\ At(s, "authorize", "writing") => request[s].entry.known
           /\ (\/ At(s, "authorize", "numbering")
               \/ ApproveTx(s) \in pool
               \/ payloads[tokenOf[s]].isApproved) => HasAccesses(s)

TokenInv == TasksTied /\ TokensKnown /\ \A s \in Service : RequestTied(s)

\* Steps that leave the tokens alone.
LEMMA StayTied ==
    ASSUME ActorInv, TokenInv, UNCHANGED <<tokenDb, asks, restarts>>,
           \A t \in tasks : EventOf(t)' = EventOf(t),
           \A t \in tasks' : t.actor = gateway => t \in tasks \/ TaskTied(t)',
           \A t \in tasks : t.actor = gateway /\ t.at = "done" => t \in tasks',
           \A s \in Service :
               /\ ApproveTx(s) \in pool' => ApproveTx(s) \in pool
               /\ payloads'[tokenOf[s]].isApproved =>
                      payloads[tokenOf[s]].isApproved \/ ApproveTx(s) \in pool
               /\ \/ request'[s] = request[s]
                  \/ /\ request'[s].at = "sent" /\ ~request'[s].entry.isApproved
                     /\ request'[s].kind = "authorize" => request[s].kind = "none"
    PROVE  TokenInv'
<1>a. TasksTied /\ TokensKnown /\ \A s \in Service : RequestTied(s) /\ SessionFits(s)
  BY DEF TokenInv, ActorInv, Fits, ServicesFit
<1>b. \A h : StoredByHandler(h) => StoredByHandler(h)'
  BY DEF StoredByHandler
<1>1. TasksTied'
  <2> SUFFICES ASSUME NEW t \in tasks', t.actor = gateway, t \in tasks PROVE TaskTied(t)'
    BY DEF TasksTied
  <2> QED
    BY <1>a, <1>b DEF TasksTied, TaskTied
<1>2. TokensKnown'
  BY <1>a, <1>b DEF TokensKnown
<1>3. ASSUME NEW s \in Service PROVE RequestTied(s)'
  <2>1. HasAccesses(s)' <=> HasAccesses(s)
    BY DEF HasAccesses
  <2>2. CASE request'[s] = request[s]
    BY <1>a, <2>1, <2>2 DEF RequestTied, At
  <2>3. CASE /\ request'[s].at = "sent" /\ ~request'[s].entry.isApproved
             /\ request'[s].kind = "authorize" => request[s].kind = "none"
    BY <1>a, <2>1, <2>3 DEF RequestTied, SessionFits, At
  <2> QED
    BY <2>2, <2>3
<1> QED
  BY <1>1, <1>2, <1>3 DEF TokenInv

\* A service's program, its deliveries and its handlers.
LEMMA ServiceTied ==
    ASSUME LogInv, ActorInv, TokenInv, NEW s \in Service,
           \/ ServiceMain(s) \/ ServiceDelivers(s)
           \/ \E t \in tasks : ServicePayloadAdded(s, t) \/ ServiceAccessApproved(s, t)
    PROVE  TokenInv'
<1>a. ActorTypes /\ s # gateway /\ AsksInOrder(s)
  BY ConstantsFit DEF ActorInv, Fits, ServicesFit
<1>b. /\ UNCHANGED <<log, payloads, tokenDb, asks, restarts>>
      /\ \A u \in Service : ApproveTx(u) \in pool' => ApproveTx(u) \in pool
  BY Transactions DEF ServiceMain, GetAccessList, Publish, ServiceStoresPayload, RequestForResource,
     ServiceDelivers, ServicePayloadAdded, ServiceAccessApproved, service, chain, Send
<1>c. \A t : EventOf(t)' = EventOf(t)
  BY <1>b DEF EventOf
<1>1. \/ UNCHANGED tasks
      \/ \E i : Deliver(s, i, NoEntry)
      \/ \E t \in tasks : t.actor = s /\ \E at, entry : Step(t, at, entry)
  BY DEF ServiceMain, GetAccessList, Publish, ServiceStoresPayload, RequestForResource,
     ServiceDelivers, ServicePayloadAdded, ServiceAccessApproved, Look, WriteAndAsk
<1>2. \A t : t.actor = gateway => (t \in tasks <=> t \in tasks')
  <2>1. CASE \E i : Deliver(s, i, NoEntry)
    BY <1>a, <2>1 DEF Deliver, Task
  <2>2. CASE \E t \in tasks : t.actor = s /\ \E at, entry : Step(t, at, entry)
    BY <1>a, <2>2 DEF Step, Task
  <2> QED
    BY <1>1, <2>1, <2>2
<1>3. \/ UNCHANGED request
      \/ \E kind : Ask(s, kind) /\ (kind = "authorize" => request[s].kind = "none")
  <2>1. CASE ServiceMain(s)
    <3>1. CASE RequestForResource(s)
      <4>1. Ask(s, "resource")
        BY <3>1 DEF RequestForResource
      <4> QED
        BY <4>1
    <3> QED
      BY <2>1, <3>1 DEF ServiceMain, GetAccessList, Publish, ServiceStoresPayload
  <2>2. CASE ServiceDelivers(s)
    BY <2>2 DEF ServiceDelivers
  <2>3. ASSUME NEW t \in tasks, ServicePayloadAdded(s, t), ~UNCHANGED request
        PROVE  Ask(s, "authorize") /\ request[s].kind = "none"
    BY <1>a, <2>3 DEF ServicePayloadAdded, WriteAndAsk, AsksInOrder, About
  <2>4. ASSUME NEW t \in tasks, ServiceAccessApproved(s, t), ~UNCHANGED request
        PROVE  Ask(s, "handshake")
    BY <2>4 DEF ServiceAccessApproved, WriteAndAsk
  <2> QED
    BY <2>1, <2>2, <2>3, <2>4
<1>4. \A u \in Service : \/ request'[u] = request[u]
                         \/ /\ request'[u].at = "sent" /\ ~request'[u].entry.isApproved
                            /\ request'[u].kind = "authorize" => request[u].kind = "none"
  <2>1. CASE UNCHANGED request
    BY <2>1
  <2>2. ASSUME NEW kind, Ask(s, kind), kind = "authorize" => request[s].kind = "none", NEW u \in Service
        PROVE  \/ request'[u] = request[u]
               \/ /\ request'[u].at = "sent" /\ ~request'[u].entry.isApproved
                  /\ request'[u].kind = "authorize" => request[u].kind = "none"
    BY <1>a, <2>2 DEF Ask, NoRequest, NoEntry, ActorTypes
  <2> QED
    BY <1>3, <2>1, <2>2
<1> QED
  BY <1>b, <1>c, <1>2, <1>4, StayTied

LEMMA GatewayDeliveryTied == ASSUME LogInv, ActorInv, TokenInv, GatewayDelivers PROVE TokenInv'
<1>1. PICK i \in DOMAIN log : /\ Deliver(gateway, i, NoEntry)
                              /\ log[i].event = "PayloadAdded" => log[i].approver = gateway
  BY DEF GatewayDelivers
<1>2. UNCHANGED <<log, payloads, pool, request, tokenDb, asks, restarts>>
  BY DEF GatewayDelivers, service, chain
<1> DEFINE new == Task(gateway, i, "check", NoEntry)
<1>3. /\ tasks' = tasks \cup {new} /\ TaskTied(new)'
      /\ \A t : EventOf(t)' = EventOf(t)
  BY <1>1, <1>2 DEF Deliver, Task, TaskTied, EventOf
<1> HIDE DEF new
<1> QED
  BY <1>2, <1>3, StayTied

\* A handler of the gateway that only looks.
LEMMA GatewayLookTied ==
    ASSUME LogInv, ActorInv, TokenInv, NEW t \in tasks, t.actor = gateway, t.at # "done",
           NEW at, NEW entry, Step(t, at, entry),
           at = "replace" => /\ tokenDb[EventOf(t).payloadHash].known
                             /\ entry = tokenDb[EventOf(t).payloadHash],
           UNCHANGED <<chain, pool, request, tokenDb, asks, restarts>>
    PROVE  TokenInv'
<1> DEFINE new == Task(t.actor, t.event, at, entry)
           h == EventOf(t).payloadHash
<1>a. /\ ActorTypes /\ AccessLogged /\ TasksTied /\ TokensKnown /\ \A s \in Service : RequestTied(s)
      /\ UNCHANGED <<log, payloads>>
  BY DEF ActorInv, Fits, ChainFits, TokenInv, chain
<1>1. /\ tasks' = (tasks \ {t}) \cup {new} /\ new.at = at /\ new.entry = entry
      /\ new.actor = gateway /\ EventOf(new) = EventOf(t) /\ \A u : EventOf(u)' = EventOf(u)
  BY <1>a DEF Step, Task, EventOf
<1> HIDE DEF new
<1>2. \A u \in tasks : u.at = "done" => u \in tasks'
  BY <1>1
<1>3. TaskTied(new)'
  <2>1. EventOf(t).event = "PayloadAdded" => EventOf(t).approver = gateway
    BY <1>a DEF TasksTied, TaskTied
  <2>2. ASSUME at = "replace", restarts = 0, EventOf(t).event = "AccessApproved"
        PROVE  /\ StoredByHandler(h)'
               /\ \A s \in Service : h = tokenOf[s] => entry.accesses = asks[s]
    <3>1. h \in Hash /\ payloads[h].isApproved
      BY <1>a, <2>2, TaskEvent
    <3>2. StoredByHandler(h)
      BY <1>a, <2>2, <3>1 DEF TokensKnown
    <3>3. StoredByHandler(h)'
      BY <1>1, <1>2, <3>2 DEF StoredByHandler
    <3> QED
      BY <1>a, <2>2, <3>1, <3>3 DEF RequestTied, HasAccesses
  <2>3. restarts' = restarts /\ asks' = asks
    OBVIOUS
  <2> HIDE DEF h
  <2>4. EventOf(new)' = EventOf(t) /\ EventOf(t).payloadHash = h
    BY <1>1 DEF h
  <2> QED
    BY <1>1, <2>1, <2>2, <2>3, <2>4 DEF TaskTied, h
<1> QED
  BY <1>a, <1>1, <1>2, <1>3, StayTied

\* A handler of the gateway that writes an entry, as its last step.
LEMMA GatewayWriteTied ==
    ASSUME LogInv, ActorInv, TokenInv, NEW t \in tasks, t.actor = gateway, t.at # "done",
           NEW entry, entry.known, Step(t, "done", NoEntry),
           tokenDb' = [tokenDb EXCEPT ![EventOf(t).payloadHash] = entry],
           UNCHANGED <<chain, pool, request, asks, restarts>>,
           restarts = 0 =>
               /\ EventOf(t).event # "PayloadAdded" => StoredByHandler(EventOf(t).payloadHash)
               /\ \A s \in Service : tokenOf[s] = EventOf(t).payloadHash /\ HasAccesses(s) =>
                                         entry.accesses = asks[s]
    PROVE  TokenInv'
<1> DEFINE new == Task(t.actor, t.event, "done", NoEntry)
<1>a. /\ ActorTypes /\ AccessLogged /\ TasksTied /\ TokensKnown /\ \A s \in Service : RequestTied(s)
      /\ UNCHANGED <<log, payloads>>
  BY DEF ActorInv, Fits, ChainFits, TokenInv, chain
<1>b. PICK h \in Hash : h = EventOf(t).payloadHash
  BY <1>a, TaskEvent
<1>1. /\ tasks' = (tasks \ {t}) \cup {new} /\ new.at = "done"
      /\ new.actor = gateway /\ EventOf(new) = EventOf(t) /\ \A u : EventOf(u)' = EventOf(u)
  BY <1>a DEF Step, Task, EventOf
<1>2. \A g \in Hash : tokenDb'[g] = IF g = h THEN entry ELSE tokenDb[g]
  BY <1>a, <1>b DEF ActorTypes
<1> HIDE DEF new
<1>3. \A g : StoredByHandler(g) => StoredByHandler(g)'
  BY <1>1 DEF StoredByHandler
<1>4. TasksTied'
  <2>1. TaskTied(new)'
    BY <1>a, <1>1 DEF TasksTied, TaskTied
  <2>2. ASSUME NEW u \in tasks, u.actor = gateway PROVE TaskTied(u)'
    <3>1. TaskTied(u) /\ EventOf(u)' = EventOf(u) /\ restarts' = restarts /\ asks' = asks
      BY <1>a, <1>1, <2>2 DEF TasksTied
    <3> QED
      BY <1>3, <3>1 DEF TaskTied
  <2> QED
    BY <1>1, <2>1, <2>2 DEF TasksTied
<1>5. restarts = 0 => StoredByHandler(h)'
  <2>1. CASE EventOf(t).event = "PayloadAdded"
    BY <1>b, <1>1, <2>1 DEF StoredByHandler
  <2>2. CASE EventOf(t).event # "PayloadAdded"
    BY <1>b, <1>3, <2>2
  <2> QED
    BY <2>1, <2>2
<1>6. TokensKnown'
  BY <1>a, <1>2, <1>3, <1>5 DEF TokensKnown
<1>7. ASSUME NEW s \in Service PROVE RequestTied(s)'
  <2>1. tokenOf[s] \in Hash
    BY ConstantsFit
  <2>2. tokenDb[tokenOf[s]].known => tokenDb'[tokenOf[s]].known
    BY <1>2, <2>1
  <2>3. restarts = 0 /\ HasAccesses(s) => HasAccesses(s)'
    BY <1>b, <1>2, <2>1 DEF HasAccesses
  <2> QED
    BY <1>a, <2>2, <2>3 DEF RequestTied, At
<1> QED
  BY <1>4, <1>6, <1>7 DEF TokenInv

\* The handler of PayloadAdded that is about to write finds no entry, if it is the first.
LEMMA FirstToStore ==
    ASSUME LogInv, ActorInv, TokenInv, NEW t \in tasks, t.actor = gateway, t.at = "set",
           EventOf(t).event = "PayloadAdded", restarts = 0
    PROVE  ~tokenDb[EventOf(t).payloadHash].known
<1> DEFINE h == EventOf(t).payloadHash
<1>a. ActorTypes /\ AccessLogged /\ TasksFit /\ TokensKnown
  BY DEF ActorInv, Fits, ChainFits, TokenInv
<1>1. SUFFICES ASSUME tokenDb[h].known PROVE FALSE
  OBVIOUS
<1>2. h \in Hash /\ t.event \in DOMAIN log
  BY <1>a, TaskEvent
<1>3. PICK u \in tasks : /\ u.actor = gateway /\ u.at = "done"
                         /\ EventOf(u).event = "PayloadAdded" /\ EventOf(u).payloadHash = h
  BY <1>a, <1>1, <1>2 DEF TokensKnown, StoredByHandler
<1>4. u.event \in DOMAIN log
  BY <1>a, TaskEvent
<1>5. u.event = t.event
  BY <1>2, <1>3, <1>4, OneEvent DEF EventOf
<1> QED
  BY <1>a, <1>3, <1>5 DEF TasksFit

LEMMA GatewayHandlerTied ==
    ASSUME LogInv, ActorInv, TokenInv, NEW t \in tasks,
           GatewayPayloadAdded(t) \/ GatewayAccessApproved(t)
    PROVE  TokenInv'
<1> DEFINE h == EventOf(t).payloadHash
<1>a. /\ t.actor = gateway /\ t.at # "done" /\ TasksTied
      /\ UNCHANGED <<chain, pool, request, asks, restarts>>
  BY DEF TokenInv, GatewayPayloadAdded, GatewayAccessApproved, Look, service
<1>1. CASE GatewayPayloadAdded(t)
  <2>1. ASSUME NEW at, at # "replace", Step(t, at, NoEntry), UNCHANGED tokenDb PROVE TokenInv'
    BY <1>a, <2>1, GatewayLookTied
  <2>2. CASE t.at = "check"
    BY <1>1, <2>1, <2>2 DEF GatewayPayloadAdded
  <2>3. CASE t.at # "check"
    <3>1. /\ t.at = "set" /\ tokenDb' = [tokenDb EXCEPT ![h] = NewEntry(TRUE)]
          /\ Step(t, "done", NoEntry) /\ EventOf(t).event = "PayloadAdded"
      BY <1>1, <2>3 DEF GatewayPayloadAdded, storeNewToken
    <3>2. restarts = 0 => ~tokenDb[h].known
      BY <1>a, <3>1, FirstToStore
    <3>3. \A s \in Service : restarts = 0 /\ tokenOf[s] = h => ~HasAccesses(s)
      BY <3>2 DEF HasAccesses
    <3>4. NewEntry(TRUE).known
      BY DEF NewEntry, NoEntry
    <3> QED
      BY <1>a, <3>1, <3>3, <3>4, GatewayWriteTied
  <2> QED
    BY <2>2, <2>3
<1>2. CASE GatewayAccessApproved(t)
  <2>1. CASE Look(t, isTokenApproved(h), tokenDb[h].known, tokenDb[h], NoEntry) /\ UNCHANGED tokenDb
    <3>1. PICK at, entry : /\ Step(t, at, entry)
                           /\ at = "replace" => tokenDb[h].known /\ entry = tokenDb[h]
      BY <2>1 DEF Look
    <3> QED
      BY <1>a, <2>1, <3>1, GatewayLookTied
  <2>2. CASE /\ t.at = "replace" /\ updateTokenStateToApproved(h, t.entry, EventOf(t))
             /\ Step(t, "done", NoEntry)
    <3> DEFINE entry == Approved(t.entry, EventOf(t))
    <3>1. entry.known /\ entry.accesses = t.entry.accesses
      <4>1. t.entry.known /\ t.entry \in Entry
        BY <1>a, <2>2 DEF TasksTied, TaskTied, ActorInv, ActorTypes, TasksTyped
      <4> QED
        BY <4>1 DEF Approved, Entry
    <3>2. tokenDb' = [tokenDb EXCEPT ![h] = entry]
      BY <2>2 DEF updateTokenStateToApproved
    <3>3. restarts = 0 => /\ StoredByHandler(h)
                          /\ \A s \in Service : tokenOf[s] = h => t.entry.accesses = asks[s]
      BY <1>2, <1>a, <2>2 DEF TasksTied, TaskTied, GatewayAccessApproved
    <3> HIDE DEF entry
    <3> QED
      BY <1>a, <2>2, <3>1, <3>2, <3>3, GatewayWriteTied
  <2> QED
    BY <1>2, <2>1, <2>2 DEF GatewayAccessApproved
<1> QED
  BY <1>1, <1>2

\* A step of one request, of service s, that may write the entry of its token.
LEMMA HttpTied ==
    ASSUME LogInv, ActorInv, TokenInv, NEW s \in Service, NEW at, NEW entry, Goto(s, at, entry),
           UNCHANGED <<chain, tasks, asks, restarts>>,
           \A u \in Service : u # s => (ApproveTx(u) \in pool' => ApproveTx(u) \in pool),
           \A h \in Hash : h # tokenOf[s] => tokenDb'[h] = tokenDb[h],
           tokenDb'[tokenOf[s]].isApproved => tokenDb'[tokenOf[s]].known,
           restarts = 0 /\ tokenDb'[tokenOf[s]].known => tokenDb[tokenOf[s]].known,
           RequestTied(s)'
    PROVE  TokenInv'
<1>a. /\ ActorTypes /\ TasksTied /\ TokensKnown /\ \A u \in Service : RequestTied(u)
      /\ UNCHANGED <<log, payloads>>
      /\ \A u \in Service : tokenOf[u] \in Hash /\ (u # s => tokenOf[u] # tokenOf[s])
  BY ConstantsFit DEF ActorInv, TokenInv, chain
<1>1. \A h : StoredByHandler(h)' <=> StoredByHandler(h)
  BY <1>a DEF StoredByHandler, EventOf
<1>2. TasksTied'
  <2> SUFFICES ASSUME NEW t \in tasks, t.actor = gateway PROVE TaskTied(t)'
    BY DEF TasksTied
  <2>1. TaskTied(t) /\ EventOf(t)' = EventOf(t) /\ restarts' = restarts /\ asks' = asks
    BY <1>a DEF TasksTied, EventOf
  <2> QED
    BY <1>1, <2>1 DEF TaskTied
<1>3. TokensKnown'
  BY <1>a, <1>1 DEF TokensKnown
<1>4. ASSUME NEW u \in Service, u # s PROVE RequestTied(u)'
  <2>1. request'[u] = request[u] /\ tokenDb'[tokenOf[u]] = tokenDb[tokenOf[u]]
    BY <1>a, <1>4 DEF Goto, ActorTypes
  <2> QED
    BY <1>a, <1>4, <2>1 DEF RequestTied, HasAccesses, At
<1> QED
  BY <1>2, <1>3, <1>4 DEF TokenInv

LEMMA RequestTiedStep ==
    ASSUME LogInv, ActorInv, TokenInv, NEW s \in Service, GatewayHandles(s) PROVE TokenInv'
<1> DEFINE h == tokenOf[s]
<1>a. /\ ActorTypes /\ TokensKnown /\ h \in Hash /\ RequestTied(s) /\ DatabasesBehindChain
      /\ UNCHANGED <<chain, tasks, asks, restarts>> /\ UNCHANGED payloads
  BY ConstantsFit DEF ActorInv, Fits, TokenInv, GatewayHandles, AuthorizeReadsToken,
     SetAccesses, SendApproval, StoreNewNonce, CheckToken, HandshakeChecksToken, UpdateSecret,
     ServeResource, service, chain
<1>b. ASSUME NEW at, NEW entry, Goto(s, at, entry)
      PROVE  /\ request'[s].kind = request[s].kind /\ request'[s].at = at
             /\ request'[s].entry = entry
  BY <1>a, <1>b DEF Goto, ActorTypes, Requests
<1>c. ~NoEntry.known /\ ~NoEntry.isApproved
  BY DEF NoEntry
<1>1. ASSUME NEW at, NEW entry, Goto(s, at, entry), UNCHANGED tokenDb, RequestTied(s)',
             \A u \in Service : u # s => (ApproveTx(u) \in pool' => ApproveTx(u) \in pool)
      PROVE  TokenInv'
  <2>1. /\ \A g \in Hash : tokenDb'[g] = tokenDb[g]
        /\ tokenDb'[h].isApproved => tokenDb'[h].known
    BY <1>a, <1>1 DEF TokensKnown
  <2> QED
    BY <1>a, <1>1, <2>1, HttpTied
<1>2. CASE AuthorizeReadsToken(s)
  <2>1. PICK at \in {"hung", "denied", "tying"} :
            Goto(s, at, NoEntry) /\ (at = "tying" => tokenDb[h].known)
    BY <1>2 DEF AuthorizeReadsToken, getTokenObject
  <2>2. UNCHANGED <<pool, tokenDb>> /\ At(s, "authorize", "sent")
    BY <1>2 DEF AuthorizeReadsToken
  <2>3. RequestTied(s)'
    BY <1>a, <1>b, <1>c, <2>1, <2>2 DEF RequestTied, HasAccesses, At
  <2> QED
    BY <1>1, <2>1, <2>2, <2>3
<1>3. CASE SetAccesses(s)
  <2>1. CASE At(s, "authorize", "tying") /\ Goto(s, "writing", tokenDb[h]) /\ UNCHANGED <<pool, tokenDb>>
    <3>1. RequestTied(s)'
      BY <1>a, <1>b, <2>1 DEF RequestTied, HasAccesses, At, TokensKnown
    <3> QED
      BY <1>1, <2>1, <3>1
  <2>2. CASE /\ At(s, "authorize", "writing") /\ Goto(s, "numbering", NoEntry) /\ UNCHANGED pool
             /\ tokenDb' = [tokenDb EXCEPT ![h] = [request[s].entry EXCEPT !.accesses = asks[s]]]
    <3> DEFINE entry == request[s].entry
    <3>1. entry \in Entry
      BY <1>a DEF ActorTypes, Requests
    <3>2. /\ \A g \in Hash : g # h => tokenDb'[g] = tokenDb[g]
          /\ tokenDb'[h].known = entry.known /\ tokenDb'[h].isApproved = entry.isApproved
          /\ tokenDb'[h].accesses = asks[s]
      BY <1>a, <2>2, <3>1 DEF ActorTypes, Entry
    <3>3. /\ entry.isApproved => entry.known
          /\ restarts = 0 => entry.known /\ tokenDb[h].known
      BY <1>a, <2>2 DEF RequestTied
    <3>4. RequestTied(s)'
      BY <1>a, <1>b, <1>c, <2>2, <3>2, <3>3 DEF RequestTied, HasAccesses, At
    <3> QED
      BY <1>a, <2>2, <3>2, <3>3, <3>4, HttpTied
  <2> QED
    BY <1>3, <2>1, <2>2 DEF SetAccesses
<1>4. CASE SendApproval(s)
  <2>1. /\ At(s, "authorize", "numbering") /\ Goto(s, "ok", NoEntry) /\ UNCHANGED tokenDb
        /\ \A u \in Service : u # s => (ApproveTx(u) \in pool' => ApproveTx(u) \in pool)
    BY <1>4, Transactions DEF SendApproval, Send
  <2>2. RequestTied(s)'
    BY <1>a, <1>b, <1>c, <2>1 DEF RequestTied, HasAccesses, At
  <2> QED
    BY <1>1, <2>1, <2>2
<1>5. CASE StoreNewNonce(s) \/ HandshakeChecksToken(s) \/ UpdateSecret(s) \/ ServeResource(s)
  <2>1. PICK at : Goto(s, at, NoEntry)
    BY <1>5 DEF StoreNewNonce, HandshakeChecksToken, CheckToken, UpdateSecret, ServeResource
  <2>2. UNCHANGED <<pool, tokenDb>> /\ request[s].kind # "authorize"
    BY <1>5 DEF StoreNewNonce, HandshakeChecksToken, CheckToken, UpdateSecret, ServeResource, At
  <2>3. RequestTied(s)'
    BY <1>a, <1>b, <1>c, <2>1, <2>2 DEF RequestTied, HasAccesses, At
  <2> QED
    BY <1>1, <2>1, <2>2, <2>3
<1> QED
  BY <1>2, <1>3, <1>4, <1>5 DEF GatewayHandles

LEMMA RestartTied == ASSUME LogInv, ActorInv, TokenInv, RestartGateway PROVE TokenInv'
<1>a. /\ ActorTypes /\ TokensKnown /\ \A u \in Service : RequestTied(u)
      /\ UNCHANGED <<payloads, pool, tokenDb>>
  BY DEF ActorInv, TokenInv, RestartGateway, chain
<1>1. restarts' # 0
  <2>1. restarts \in 0 .. MaxRestarts /\ restarts' = restarts + 1
    BY <1>a DEF ActorTypes, RestartGateway
  <2> QED
    BY <2>1, ConstantsFit
<1>2. TasksTied'
  BY DEF RestartGateway, TasksTied
<1>3. TokensKnown'
  BY <1>a, <1>1 DEF TokensKnown
<1>4. ASSUME NEW s \in Service PROVE RequestTied(s)'
  <2> DEFINE lost == [request[s] EXCEPT !.at = "lost", !.entry = NoEntry]
  <2>1. \/ request'[s] = request[s]
        \/ request'[s] = lost /\ request[s].at # "ok"
    BY DEF RestartGateway
  <2>2. lost.at = "lost" /\ lost.kind = request[s].kind /\ ~lost.entry.isApproved
    BY <1>a DEF ActorTypes, Requests, NoEntry
  <2> HIDE DEF lost
  <2> QED
    BY <1>a, <1>1, <2>1, <2>2 DEF RequestTied
<1> QED
  BY <1>2, <1>3, <1>4 DEF TokenInv

LEMMA ChainTied ==
    ASSUME LogInv, LogInv', ActorInv, TokenInv, [NextAll]_allVars,
           Mining \/ Revoke \/ BlockTime \/ GatewayTime \/ UNCHANGED allVars
    PROVE  TokenInv'
<1>a. /\ ActorTypes /\ payloads \in [Hash -> Payload]
      /\ UNCHANGED <<tasks, request, tokenDb, asks, restarts>>
      /\ \A u \in Service : ApproveTx(u) \in pool' => ApproveTx(u) \in pool
  BY DEF ActorInv, LogInv, TypeOK, Mining, MineStore, MineApproval, Refuse, Mine, Take, Revoke,
     BlockTime, GatewayTime, allVars, actors, service
<1>1. \A t \in tasks : EventOf(t)' = EventOf(t)
  BY <1>a, ChainSteps, ChainGrows DEF ActorTypes, TasksTyped, EventOf
<1>2. ASSUME NEW u \in Service, payloads'[tokenOf[u]].isApproved
      PROVE  payloads[tokenOf[u]].isApproved \/ ApproveTx(u) \in pool
  <2>1. CASE UNCHANGED payloads
    BY <1>2, <2>1
  <2>2. ASSUME NEW s \in Service, MineStore(s) PROVE payloads[tokenOf[u]].isApproved
    BY <1>a, <1>2, <2>2, ConstantsFit DEF MineStore, storePayload, Payload
  <2>3. ASSUME NEW s \in Service, MineApproval(s)
        PROVE  payloads[tokenOf[u]].isApproved \/ ApproveTx(u) \in pool
    <3>1. CASE s = u
      BY <2>3, <3>1 DEF MineApproval, Mine, Take
    <3>2. CASE s # u
      <4>1. tokenOf[s] # tokenOf[u] /\ tokenOf[u] \in Hash
        BY <3>2, ConstantsFit
      <4> QED
        BY <1>a, <1>2, <2>3, <4>1 DEF MineApproval, approveAccess, chain
    <3> QED
      BY <3>1, <3>2
  <2>4. CASE Revoke
    <3>1. tokenOf[u] \in Hash /\ gatewayHash \in Hash /\ \A s \in Service : tokenOf[s] \in Hash
      BY ConstantsFit
    <3>2. PICK g \in Hash : payloads' = [payloads EXCEPT ![g].isRevoked = TRUE]
      BY <2>4, <3>1 DEF Revoke, revokeGateway, revokeAccess
    <3>3. payloads'[tokenOf[u]].isApproved = payloads[tokenOf[u]].isApproved
      BY <1>a, <3>1, <3>2 DEF Payload
    <3> QED
      BY <1>2, <3>3
  <2> QED
    BY <2>1, <2>2, <2>3, <2>4 DEF Mining, Refuse, BlockTime, Tick, GatewayTime, allVars, chain
<1> QED
  BY <1>a, <1>1, <1>2, StayTied

LEMMA TokenInvStep ==
    LogInv /\ LogInv' /\ ActorInv /\ TokenInv /\ [NextAll]_allVars => TokenInv'
<1> SUFFICES ASSUME LogInv, LogInv', ActorInv, TokenInv, [NextAll]_allVars PROVE TokenInv'
  OBVIOUS
<1> QED
  BY ServiceTied, GatewayDeliveryTied, GatewayHandlerTied, RequestTiedStep, RestartTied, ChainTied
     DEF NextAll, Events

LEMMA TokenInvInit == InitAll => TokenInv
<1> SUFFICES ASSUME InitAll PROVE TokenInv
  OBVIOUS
<1>1. ~NoEntry.known /\ ~NoEntry.isApproved
  BY DEF NoEntry
<1>2. TasksTied /\ TokensKnown
  BY <1>1 DEF InitAll, TasksTied, TokensKnown
<1>3. ASSUME NEW s \in Service PROVE RequestTied(s)
  <2>1. request[s].kind = "none" /\ request[s].at = "none" /\ request[s].entry = NoEntry /\ pool = {}
    BY DEF InitAll, NoRequest
  <2>2. ~payloads[tokenOf[s]].isApproved
    BY ConstantsFit DEF InitAll, NoPayload
  <2> QED
    BY <1>1, <2>1, <2>2 DEF RequestTied, At
<1> QED
  BY <1>2, <1>3 DEF TokenInv

LEMMA TokenInvariant == SpecAll => [](LogInv /\ ActorInv /\ TokenInv)
<1>1. InitAll => TokenInv
  BY TokenInvInit
<1>2. LogInv /\ ActorInv /\ (LogInv /\ ActorInv)' /\ TokenInv /\ [NextAll]_allVars => TokenInv'
  BY TokenInvStep
<1> QED
  BY <1>1, <1>2, SystemInvariant, PTL DEF SpecAll

\* Until the gateway restarts, tying the accesses and recording the approval, each a
\* read and a write of one entry, do not undo each other.
THEOREM TokensKeepAccesses == SpecAll => []TokenKeepsAccesses
<1>1. LogInv /\ ActorInv /\ TokenInv => TokenKeepsAccesses
  <2> SUFFICES ASSUME LogInv, ActorInv, TokenInv, NEW s \in Service, restarts = 0,
                      tokenDb[tokenOf[s]].isApproved
               PROVE  tokenDb[tokenOf[s]].accesses = asks[s]
    BY DEF TokenKeepsAccesses
  <2>1. tokenOf[s] \in Hash
    BY ConstantsFit
  <2>2. payloads[tokenOf[s]].isApproved
    BY <2>1 DEF TokenInv, TokensKnown, ActorInv, Fits, DatabasesBehindChain, BehindChain
  <2> QED
    BY <2>2 DEF TokenInv, RequestTied, HasAccesses
<1> QED
  BY <1>1, TokenInvariant, PTL

-------------------------------------------------------------------------------
(* Approvals that the gateway loses.                                       *)

LossIsReplay(h) ==
    /\ restarts > 0
    /\ \E t \in tasks : /\ t.actor = gateway /\ t.at = "set"
                        /\ EventOf(t) = PayloadAdded(h, EventOf(t).sender, EventOf(t).target, gateway)

\* The gateway's event handlers: only the one that stores a token afresh takes an
\* approval away, and the first to do so finds none.
LEMMA HandlerKeeps ==
    ASSUME LogInv, ActorInv, TokenInv, NEW t \in tasks,
           GatewayPayloadAdded(t) \/ GatewayAccessApproved(t),
           NEW h \in Hash, tokenDb[h].isApproved, ~tokenDb'[h].isApproved
    PROVE  LossIsReplay(h)
<1> DEFINE g == EventOf(t).payloadHash
           e == EventOf(t)
<1>a. /\ ActorTypes /\ TokensKnown /\ TasksTied /\ AccessLogged /\ log \in Seq(Event)
      /\ tokenDb \in [Hash -> Entry] /\ restarts \in Nat /\ t.entry \in Entry /\ t.event \in DOMAIN log
  BY ConstantsFit DEF ActorInv, ActorTypes, TasksTyped, Fits, ChainFits, TokenInv, LogInv, TypeOK
<1>1. CASE GatewayPayloadAdded(t)
  <2>1. /\ t.actor = gateway /\ t.at = "set" /\ e.event = "PayloadAdded"
        /\ tokenDb' = [tokenDb EXCEPT ![g] = NewEntry(TRUE)]
    BY <1>1 DEF GatewayPayloadAdded, storeNewToken
  <2>2. h = g
    BY <1>a, <2>1
  <2>3. restarts > 0
    <3>1. tokenDb[h].known
      BY <1>a DEF TokensKnown
    <3>2. restarts # 0
      BY <2>1, <2>2, <3>1, FirstToStore
    <3> QED
      BY <1>a, <3>2
  <2>4. e = PayloadAdded(h, e.sender, e.target, gateway)
    <3>1. e \in Event /\ e.approver = gateway
      BY <1>a, <2>1 DEF EventOf, TasksTied, TaskTied
    <3>2. e \in [event : {"PayloadAdded"}, payloadHash : Hash, sender : Address,
                 target : AnyAddress, approver : AnyAddress]
      BY <2>1, <3>1 DEF Event
    <3> QED
      BY <2>1, <2>2, <3>1, <3>2 DEF PayloadAdded
  <2> QED
    BY <2>1, <2>3, <2>4 DEF LossIsReplay
<1>2. CASE GatewayAccessApproved(t)
  <2>1. tokenDb' = [tokenDb EXCEPT ![g] = Approved(t.entry, e)]
    BY <1>2 DEF GatewayAccessApproved, updateTokenStateToApproved
  <2>2. Approved(t.entry, e).isApproved
    BY <1>a DEF Approved, Entry
  <2> QED
    BY <1>a, <2>1, <2>2
<1> QED
  BY <1>1, <1>2

\* Tying the accesses writes an entry whose approval nobody has asked for yet.
LEMMA TyingKeeps ==
    ASSUME ActorInv, TokenInv, NEW s \in Service, SetAccesses(s),
           NEW h \in Hash, tokenDb[h].isApproved, ~tokenDb'[h].isApproved
    PROVE  FALSE
<1>1. /\ At(s, "authorize", "writing")
      /\ tokenDb' = [tokenDb EXCEPT ![tokenOf[s]] = [request[s].entry EXCEPT !.accesses = asks[s]]]
  BY DEF SetAccesses
<1> DEFINE entry == [request[s].entry EXCEPT !.accesses = asks[s]]
<1>2. tokenDb' = [tokenDb EXCEPT ![tokenOf[s]] = entry]
  BY <1>1
<1> HIDE DEF entry
<1>3. h = tokenOf[s]
  BY <1>2 DEF ActorInv, ActorTypes
<1>4. payloads[h].isApproved
  BY DEF ActorInv, Fits, DatabasesBehindChain, BehindChain, TokenInv, TokensKnown
<1>5. ~payloads[tokenOf[s]].isApproved
  BY <1>1 DEF TokenInv, RequestTied, At
<1> QED
  BY <1>3, <1>4, <1>5

LEMMA ApprovalStep ==
    LogInv /\ ActorInv /\ TokenInv /\ [NextAll]_allVars =>
        \A h \in Hash : tokenDb[h].isApproved /\ ~tokenDb'[h].isApproved => LossIsReplay(h)
<1> SUFFICES ASSUME LogInv, ActorInv, TokenInv, [NextAll]_allVars,
                    NEW h \in Hash, tokenDb[h].isApproved, ~tokenDb'[h].isApproved
             PROVE  LossIsReplay(h)
  OBVIOUS
<1>1. ASSUME NEW s \in Service, ServiceMain(s) \/ GatewayHandles(s) PROVE LossIsReplay(h)
  BY <1>1, TyingKeeps
     DEF ServiceMain, GetAccessList, Publish, ServiceStoresPayload, RequestForResource,
         GatewayHandles, AuthorizeReadsToken, SendApproval, StoreNewNonce, HandshakeChecksToken,
         UpdateSecret, ServeResource, CheckToken
<1>2. CASE Events
  BY <1>2, HandlerKeeps
     DEF Events, ServiceDelivers, GatewayDelivers, ServicePayloadAdded, ServiceAccessApproved
<1>3. CASE Mining \/ RestartGateway \/ Revoke \/ BlockTime \/ GatewayTime \/ UNCHANGED allVars
  BY <1>3 DEF Mining, MineStore, MineApproval, Refuse, Mine, RestartGateway, Revoke, BlockTime,
              GatewayTime, actors, allVars
<1> QED
  BY <1>1, <1>2, <1>3 DEF NextAll

\* The gateway loses an approval it has recorded only after a restart, to the handler
\* of a PayloadAdded event that is delivered again.
THEOREM ApprovalLostOnReplay == SpecAll => ApprovalLostToReplayOnly
<1>1. LogInv /\ ActorInv /\ TokenInv /\ [NextAll]_allVars =>
          [\A h \in Hash : tokenDb[h].isApproved /\ ~tokenDb'[h].isApproved =>
              /\ restarts > 0
              /\ \E t \in tasks :
                    /\ t.actor = gateway /\ t.at = "set"
                    /\ EventOf(t) = PayloadAdded(h, EventOf(t).sender, EventOf(t).target, gateway)]_allVars
  BY ApprovalStep DEF LossIsReplay
<1> QED
  BY <1>1, TokenInvariant, PTL DEF SpecAll, ApprovalLostToReplayOnly
-------------------------------------------------------------------------------
(* Where nothing is left to do, the authorization has ended.               *)

\* The kinds of the payloads of this system.
Kind == [h \in Hash |-> IF h = gatewayHash THEN "gateway" ELSE "access"]

\* What service s has recorded, one of its handlers has done; one that has ended has
\* asked the gateway, and the one of AccessApproved does not throw.
OnTrack(s) ==
    LET h == tokenOf[s]
    IN /\ main[s] = "done" => serviceDb[s].known
       /\ payloads[h].isValue => payloads[h].source = s /\ payloads[h].approver = gateway
       /\ request[s].kind # "none" => request[s].at # "none" /\ serviceDb[s].known
       /\ serviceDb[s].isStored =>
              \E t \in tasks : About(t, s, "PayloadAdded") /\ t.at \in {"send", "done"}
       /\ serviceDb[s].isApproved =>
              \E t \in tasks : About(t, s, "AccessApproved") /\ t.at \in {"send", "done"}
       /\ \A t \in tasks : About(t, s, "PayloadAdded") =>
              /\ t.at = "replace" => t.entry.known
              /\ t.at = "send" => serviceDb[s].known
              /\ t.at = "done" => request[s].kind # "none"
       /\ \A t \in tasks : About(t, s, "AccessApproved") =>
              /\ t.at # "failed" /\ (t.at = "replace" => t.entry.known)
              /\ t.at = "done" => request[s].kind \in {"handshake", "resource"}

TrackInv == MethodsMatch(Kind) /\ \A s \in Service : OnTrack(s)

\* The events of the tasks stay what they are.
LEMMA EventsStay ==
    ASSUME LogInv, LogInv', [Next]_vars, ActorTypes
    PROVE  \A t \in tasks : EventOf(t)' = EventOf(t)
  BY ChainGrows DEF ActorTypes, TasksTyped, EventOf

\* A step that is not of service s, or moves its request on.
LEMMA TrackFrame ==
    ASSUME NEW s \in Service, OnTrack(s), main'[s] = main[s], serviceDb'[s] = serviceDb[s],
           payloads'[tokenOf[s]].isValue =>
               payloads'[tokenOf[s]].source = s /\ payloads'[tokenOf[s]].approver = gateway,
           \A t : t.actor = s => (t \in tasks <=> t \in tasks'),
           \A t \in tasks : EventOf(t)' = EventOf(t),
           \/ request'[s] = request[s]
           \/ request'[s].kind = request[s].kind /\ request'[s].at # "none"
           \/ At(s, "handshake", "ok") /\ request'[s].kind = "resource" /\ request'[s].at # "none"
    PROVE  OnTrack(s)'
<1>1. /\ \A t, event : t \in tasks /\ About(t, s, event) => t \in tasks' /\ About(t, s, event)'
      /\ \A t, event : t \in tasks' /\ About(t, s, event)' => t \in tasks /\ About(t, s, event)
  BY DEF About
<1>2. /\ request'[s].kind # "none" => request'[s].at # "none" /\ request[s].kind # "none"
      /\ request[s].kind # "none" => request'[s].kind # "none"
      /\ request[s].kind \in {"handshake", "resource"} => request'[s].kind \in {"handshake", "resource"}
  BY DEF OnTrack, At
<1> QED
  BY <1>1, <1>2 DEF OnTrack

\* Service s delivers an event to itself, or stores its payload.
LEMMA TrackStarts ==
    ASSUME LogInv, ActorInv, TrackInv, NEW s \in Service, ServiceDelivers(s) \/ ServiceStoresPayload(s)
    PROVE  OnTrack(s)'
<1>a. /\ OnTrack(s) /\ ActorTypes /\ UNCHANGED <<request, log, payloads>>
      /\ \A t, event : About(t, s, event)' <=> About(t, s, event)
  BY DEF TrackInv, ActorInv, ServiceDelivers, ServiceStoresPayload, service, chain, About, EventOf
<1>1. CASE ServiceDelivers(s)
  <2>1. PICK i : Deliver(s, i, NoEntry)
    BY <1>1 DEF ServiceDelivers
  <2> DEFINE new == Task(s, i, "check", NoEntry)
  <2>2. tasks' = tasks \cup {new} /\ new.at = "check" /\ UNCHANGED <<main, serviceDb>>
    BY <1>1, <2>1 DEF Deliver, Task, ServiceDelivers, service
  <2> HIDE DEF new
  <2> QED
    BY <1>a, <2>2 DEF OnTrack
<1>2. CASE ServiceStoresPayload(s)
  <2>1. NewEntry(FALSE).known /\ ~NewEntry(FALSE).isStored /\ ~NewEntry(FALSE).isApproved
    BY DEF NewEntry, NoEntry
  <2>2. serviceDb'[s] = NewEntry(FALSE) /\ UNCHANGED tasks
    BY <1>2, <1>a DEF ServiceStoresPayload, ActorTypes
  <2> QED
    BY <1>a, <2>1, <2>2 DEF OnTrack
<1> QED
  BY <1>1, <1>2

\* When a handler of a service goes on, it is the only one of its event.
LEMMA HandlerGoesOn ==
    ASSUME LogInv, ActorInv, NEW s \in Service, NEW t \in tasks, NEW event, About(t, s, event),
           UNCHANGED log, NEW at, NEW entry, Step(t, at, entry)
    PROVE  \E new \in tasks' :
               /\ new.at = at /\ new.entry = entry /\ About(new, s, event)'
               /\ \A u \in tasks' : About(u, s, event)' => u = new
               /\ \A other : other # event =>
                      \A u : /\ u \in tasks' /\ About(u, s, other)' => u \in tasks /\ About(u, s, other)
                             /\ u \in tasks /\ About(u, s, other) => u \in tasks' /\ About(u, s, other)'
<1> DEFINE new == Task(t.actor, t.event, at, entry)
<1>1. /\ tasks' = (tasks \ {t}) \cup {new} /\ new.at = at /\ new.entry = entry
      /\ \A u, e : About(u, s, e)' <=> About(u, s, e)
      /\ \A e : About(new, s, e) <=> About(t, s, e)
  BY DEF Step, Task, About, EventOf
<1>2. \A u \in tasks : About(u, s, event) => u = t
  BY OneTask DEF ActorInv, Fits
<1>3. \A e : About(t, s, e) => e = event
  BY DEF About
<1> HIDE DEF new
<1>4. new \in tasks'
  BY <1>1
<1> QED
  BY <1>1, <1>2, <1>3, <1>4

LEMMA TrackPayloadAdded ==
    ASSUME LogInv, ActorInv, TrackInv, NEW s \in Service, NEW t \in tasks, ServicePayloadAdded(s, t)
    PROVE  OnTrack(s)'
<1>a. /\ OnTrack(s) /\ AsksInOrder(s) /\ SessionFits(s) /\ About(t, s, "PayloadAdded")
      /\ ActorTypes /\ TasksFit /\ UNCHANGED <<log, payloads, main>>
  BY DEF TrackInv, ActorInv, Fits, ServicesFit, ServicePayloadAdded, About, chain
<1>1. PICK at, entry :
          /\ Step(t, at, entry)
          /\ \/ t.at = "check" /\ at = "get" /\ UNCHANGED <<serviceDb, request>>
             \/ t.at = "get" /\ at = "failed" /\ UNCHANGED <<serviceDb, request>>
             \/ /\ t.at = "get" /\ at = "replace" /\ UNCHANGED <<serviceDb, request>>
                /\ entry = serviceDb[s] /\ serviceDb[s].known
             \/ /\ t.at = "replace" /\ at = "send" /\ UNCHANGED request
                /\ serviceDb' = [serviceDb EXCEPT ![s] = [t.entry EXCEPT !.isStored = TRUE]]
             \/ t.at = "send" /\ at = "done" /\ Ask(s, "authorize") /\ UNCHANGED serviceDb
  <2>1. ~(t.at = "check" /\ isPayloadStored(s))
    BY <1>a, OneTask DEF OnTrack, isPayloadStored
  <2> QED
    BY <2>1 DEF ServicePayloadAdded, Look, WriteAndAsk
<1>2. PICK new \in tasks' :
          /\ new.at = at /\ new.entry = entry /\ About(new, s, "PayloadAdded")'
          /\ \A u \in tasks' : About(u, s, "PayloadAdded")' => u = new
          /\ \A u : /\ u \in tasks' /\ About(u, s, "AccessApproved")' =>
                           u \in tasks /\ About(u, s, "AccessApproved")
                    /\ u \in tasks /\ About(u, s, "AccessApproved") =>
                           u \in tasks' /\ About(u, s, "AccessApproved")'
  BY <1>a, <1>1, HandlerGoesOn
<1>3. t.at # "done" /\ request[s].kind = "none"
  BY <1>a, <1>1 DEF AsksInOrder
<1>4. CASE t.at \in {"check", "get"}
  <2>1. ~serviceDb[s].isStored
    BY <1>4, <1>a, OneTask DEF OnTrack
  <2> QED
    BY <1>a, <1>1, <1>2, <1>4, <2>1 DEF OnTrack
<1>5. CASE t.at = "replace"
  <2> DEFINE e == [t.entry EXCEPT !.isStored = TRUE]
  <2>1. t.entry.known /\ ~t.entry.isApproved /\ t.entry \in Entry
    BY <1>a, <1>3, <1>5 DEF OnTrack, TasksFit, TaskFits, BehindChain, SessionFits, ActorTypes,
       TasksTyped, About
  <2>2. e.known /\ ~e.isApproved
    BY <2>1 DEF Entry
  <2>3. serviceDb'[s] = e /\ at = "send" /\ UNCHANGED request
    BY <1>a, <1>1, <1>5 DEF ActorTypes
  <2> HIDE DEF e
  <2> QED
    BY <1>a, <1>2, <2>2, <2>3 DEF OnTrack
<1>6. CASE t.at = "send"
  <2>1. request'[s].kind = "authorize" /\ request'[s].at = "sent"
    BY <1>a, <1>1, <1>6 DEF Ask, NoRequest, ActorTypes
  <2>2. at = "done" /\ UNCHANGED serviceDb
    BY <1>1, <1>6
  <2>3. \A u \in tasks : About(u, s, "AccessApproved") => u.at # "done"
    BY <1>a, <1>3 DEF OnTrack
  <2> QED
    BY <1>a, <1>2, <1>6, <2>1, <2>2, <2>3 DEF OnTrack
<1> QED
  BY <1>1, <1>4, <1>5, <1>6

LEMMA TrackAccessApproved ==
    ASSUME LogInv, ActorInv, TrackInv, NEW s \in Service, NEW t \in tasks, ServiceAccessApproved(s, t)
    PROVE  OnTrack(s)'
<1>a. /\ OnTrack(s) /\ AsksInOrder(s) /\ SessionFits(s) /\ About(t, s, "AccessApproved")
      /\ ActorTypes /\ TasksFit /\ AccessLogged /\ UNCHANGED <<log, payloads, main>>
      /\ EventOf(t).event = "AccessApproved" /\ EventOf(t).payloadHash = tokenOf[s]
  BY DEF TrackInv, ActorInv, Fits, ChainFits, ServicesFit, ServiceAccessApproved, About, chain,
     TasksFit, TaskFits
<1>b. payloads[tokenOf[s]].isApproved /\ payloads[tokenOf[s]].isValue /\ t.event \in DOMAIN log
  BY <1>a, TaskEvent
<1>c. request[s].kind # "none" /\ serviceDb[s].known
  BY <1>a, <1>b DEF SessionFits, OnTrack
<1>d. EventOf(t).sender = gateway
  BY <1>a, <1>b DEF AccessLogged, AccessEventFits, EventOf, OnTrack
<1>1. PICK at, entry :
          /\ Step(t, at, entry)
          /\ \/ t.at = "check" /\ at = "get" /\ UNCHANGED <<serviceDb, request>>
             \/ /\ t.at = "get" /\ at = "replace" /\ UNCHANGED <<serviceDb, request>>
                /\ entry = serviceDb[s]
             \/ /\ t.at = "replace" /\ at = "send" /\ UNCHANGED request
                /\ serviceDb' = [serviceDb EXCEPT ![s] = Approved(t.entry, EventOf(t))]
             \/ t.at = "send" /\ at = "done" /\ Ask(s, "handshake") /\ UNCHANGED serviceDb
  <2>1. ~(t.at = "check" /\ isPayloadApproved(s))
    BY <1>a, OneTask DEF OnTrack, isPayloadApproved
  <2> QED
    BY <1>c, <1>d, <2>1 DEF ServiceAccessApproved, Look, WriteAndAsk
<1>2. PICK new \in tasks' :
          /\ new.at = at /\ new.entry = entry /\ About(new, s, "AccessApproved")'
          /\ \A u \in tasks' : About(u, s, "AccessApproved")' => u = new
          /\ \A u : /\ u \in tasks' /\ About(u, s, "PayloadAdded")' =>
                           u \in tasks /\ About(u, s, "PayloadAdded")
                    /\ u \in tasks /\ About(u, s, "PayloadAdded") =>
                           u \in tasks' /\ About(u, s, "PayloadAdded")'
  BY <1>a, <1>1, HandlerGoesOn
<1>3. \E u \in tasks' : About(u, s, "PayloadAdded")' /\ u.at \in {"send", "done"}
  <2>1. \E u \in tasks : About(u, s, "PayloadAdded") /\ u.at = "done"
    BY <1>a, <1>c DEF AsksInOrder
  <2> QED
    BY <1>2, <2>1
<1>4. CASE t.at \in {"check", "get"}
  <2>1. ~serviceDb[s].isApproved
    BY <1>4, <1>a, OneTask DEF OnTrack
  <2>2. UNCHANGED <<serviceDb, request>> /\ at \in {"get", "replace"} /\ (at = "replace" => entry = serviceDb[s])
    BY <1>1, <1>4
  <2> QED
    BY <1>a, <1>c, <1>2, <1>3, <2>1, <2>2 DEF OnTrack
<1>5. CASE t.at = "replace"
  <2> DEFINE e == Approved(t.entry, EventOf(t))
  <2>1. t.entry.known /\ t.entry \in Entry
    BY <1>a, <1>5 DEF OnTrack, ActorTypes, TasksTyped
  <2>2. e.known
    BY <2>1 DEF Entry, Approved
  <2>3. serviceDb'[s] = e /\ at = "send" /\ UNCHANGED request
    BY <1>a, <1>1, <1>5 DEF ActorTypes
  <2> HIDE DEF e
  <2> QED
    BY <1>a, <1>2, <1>3, <2>2, <2>3 DEF OnTrack
<1>6. CASE t.at = "send"
  <2>1. request'[s].kind = "handshake" /\ request'[s].at = "sent"
    BY <1>a, <1>1, <1>6 DEF Ask, NoRequest, ActorTypes
  <2>2. at = "done" /\ UNCHANGED serviceDb
    BY <1>1, <1>6
  <2> QED
    BY <1>a, <1>c, <1>2, <1>3, <2>1, <2>2 DEF OnTrack
<1> QED
  BY <1>1, <1>4, <1>5, <1>6

\* The gateway's steps and the chain's say nothing new of a service, nor do the other
\* services'.
LEMMA TrackPrograms ==
    ASSUME LogInv, LogInv', [Next]_vars, ActorInv, TrackInv,
           \/ \E u \in Service : ServiceMain(u) \/ GatewayHandles(u) \/ ServiceDelivers(u)
           \/ \E t \in tasks : \/ \E u \in Service : ServicePayloadAdded(u, t) \/ ServiceAccessApproved(u, t)
                               \/ GatewayPayloadAdded(t) \/ GatewayAccessApproved(t)
           \/ GatewayDelivers \/ RestartGateway
    PROVE  \A s \in Service : OnTrack(s)'
<1>a. /\ ActorTypes /\ UNCHANGED <<log, payloads>> /\ gateway \notin Service
      /\ \A t : EventOf(t)' = EventOf(t)
      /\ \A s \in Service : OnTrack(s) /\ tokenOf[s] \in Hash
  BY ConstantsFit
     DEF ActorInv, TrackInv, ServiceMain, GetAccessList, Publish, ServiceStoresPayload,
         RequestForResource, GatewayHandles, AuthorizeReadsToken, SetAccesses, SendApproval,
         StoreNewNonce, HandshakeChecksToken, CheckToken, UpdateSecret, ServeResource, ServiceDelivers,
         ServicePayloadAdded, ServiceAccessApproved, GatewayPayloadAdded, GatewayAccessApproved,
         GatewayDelivers, RestartGateway, EventOf, chain
<1>b. \A s \in Service : payloads'[tokenOf[s]].isValue =>
          payloads'[tokenOf[s]].source = s /\ payloads'[tokenOf[s]].approver = gateway
  BY <1>a DEF OnTrack
<1>c. ASSUME NEW s \in Service, main'[s] = main[s], serviceDb'[s] = serviceDb[s],
             \A t : t.actor = s => (t \in tasks <=> t \in tasks'),
             \/ request'[s] = request[s]
             \/ request'[s].kind = request[s].kind /\ request'[s].at # "none"
             \/ At(s, "handshake", "ok") /\ request'[s].kind = "resource" /\ request'[s].at # "none"
      PROVE  OnTrack(s)'
  BY <1>a, <1>b, <1>c, TrackFrame
<1>1. ASSUME NEW u \in Service, ServiceMain(u) PROVE \A s \in Service : OnTrack(s)'
  <2>1. CASE ServiceStoresPayload(u)
    <3>1. \A s \in Service : s # u =>
              main'[s] = main[s] /\ serviceDb'[s] = serviceDb[s] /\ request'[s] = request[s]
      BY <1>a, <2>1 DEF ServiceStoresPayload, ActorTypes
    <3>2. tasks' = tasks
      BY <2>1 DEF ServiceStoresPayload
    <3>3. OnTrack(u)'
      BY <2>1, TrackStarts
    <3> QED
      BY <1>c, <3>1, <3>2, <3>3
  <2>2. CASE GetAccessList(u) \/ Publish(u)
    <3>1. \A s \in Service : (main'[s] = main[s] \/ main'[s] # "done") /\ serviceDb'[s] = serviceDb[s]
      BY <1>a, <2>2 DEF GetAccessList, Publish, ActorTypes
    <3>2. UNCHANGED <<tasks, request>>
      BY <2>2 DEF GetAccessList, Publish
    <3> QED
      BY <1>a, <3>1, <3>2 DEF OnTrack, About, EventOf
  <2>3. CASE RequestForResource(u)
    <3>1. /\ UNCHANGED <<tasks, main, serviceDb>> /\ At(u, "handshake", "ok")
          /\ \A s \in Service : s # u => request'[s] = request[s]
          /\ request'[u].kind = "resource" /\ request'[u].at = "sent"
      BY <1>a, <2>3 DEF RequestForResource, service, At, Ask, NoRequest, ActorTypes
    <3> QED
      BY <1>c, <3>1
  <2> QED
    BY <1>1, <2>1, <2>2, <2>3 DEF ServiceMain
<1>2. ASSUME NEW u \in Service, GatewayHandles(u) PROVE \A s \in Service : OnTrack(s)'
  <2>1. UNCHANGED <<tasks, main, serviceDb>>
    BY <1>2 DEF GatewayHandles, AuthorizeReadsToken, SetAccesses, SendApproval, StoreNewNonce,
       HandshakeChecksToken, CheckToken, UpdateSecret, ServeResource, service
  <2>2. \E at, entry : Goto(u, at, entry) /\ at # "none"
    BY <1>2 DEF GatewayHandles, AuthorizeReadsToken, SetAccesses, SendApproval, StoreNewNonce,
       HandshakeChecksToken, CheckToken, UpdateSecret, ServeResource
  <2>3. \A s \in Service : \/ request'[s] = request[s]
                           \/ request'[s].kind = request[s].kind /\ request'[s].at # "none"
    BY <1>a, <2>2 DEF Goto, ActorTypes, Requests
  <2> QED
    BY <1>c, <2>1, <2>3
<1>3. ASSUME NEW u \in Service,
             \/ ServiceDelivers(u)
             \/ \E t \in tasks : ServicePayloadAdded(u, t) \/ ServiceAccessApproved(u, t)
      PROVE  \A s \in Service : OnTrack(s)'
  <2>1. OnTrack(u)'
    BY <1>3, TrackStarts, TrackPayloadAdded, TrackAccessApproved
  <2>2. \A t : t.actor \in Service /\ t.actor # u => (t \in tasks <=> t \in tasks')
    <3>1. CASE ServiceDelivers(u)
      BY <3>1 DEF ServiceDelivers, Deliver, Task
    <3>2. ASSUME NEW t \in tasks, ServicePayloadAdded(u, t) \/ ServiceAccessApproved(u, t)
          PROVE  \A v : v.actor \in Service /\ v.actor # u => (v \in tasks <=> v \in tasks')
      <4>1. t.actor = u /\ \E at, entry : Step(t, at, entry)
        BY <3>2 DEF ServicePayloadAdded, ServiceAccessApproved, Look, WriteAndAsk
      <4> QED
        BY <4>1 DEF Step, Task
    <3> QED
      BY <1>3, <3>1, <3>2
  <2>3. \A s \in Service : s # u =>
            main'[s] = main[s] /\ serviceDb'[s] = serviceDb[s] /\ request'[s] = request[s]
    BY <1>a, <1>3 DEF ServiceDelivers, ServicePayloadAdded, ServiceAccessApproved, WriteAndAsk, Ask,
       service, ActorTypes
  <2> QED
    BY <1>c, <2>1, <2>2, <2>3
<1>4. ASSUME \/ GatewayDelivers
             \/ \E t \in tasks : GatewayPayloadAdded(t) \/ GatewayAccessApproved(t)
      PROVE  \A s \in Service : OnTrack(s)'
  <2>1. UNCHANGED <<main, serviceDb, request>>
    BY <1>4 DEF GatewayDelivers, GatewayPayloadAdded, GatewayAccessApproved, service
  <2>2. \A t : t.actor \in Service => (t \in tasks <=> t \in tasks')
    <3>1. CASE GatewayDelivers
      BY <1>a, <3>1 DEF GatewayDelivers, Deliver, Task
    <3>2. ASSUME NEW t \in tasks, GatewayPayloadAdded(t) \/ GatewayAccessApproved(t)
          PROVE  \A v : v.actor \in Service => (v \in tasks <=> v \in tasks')
      <4>1. t.actor = gateway /\ \E at, entry : Step(t, at, entry)
        BY <3>2 DEF GatewayPayloadAdded, GatewayAccessApproved, Look
      <4> QED
        BY <1>a, <4>1 DEF Step, Task
    <3> QED
      BY <1>4, <3>1, <3>2
  <2> QED
    BY <1>c, <2>1, <2>2
<1>5. CASE RestartGateway
  <2>1. UNCHANGED <<main, serviceDb>> /\ tasks' = {t \in tasks : t.actor # gateway}
    BY <1>5 DEF RestartGateway, service
  <2>2. \A s \in Service : \/ request'[s] = request[s]
                           \/ request'[s].kind = request[s].kind /\ request'[s].at # "none"
    <3> SUFFICES ASSUME NEW s \in Service, request'[s] # request[s]
                 PROVE  request'[s].kind = request[s].kind /\ request'[s].at # "none"
      OBVIOUS
    <3> DEFINE lost == [request[s] EXCEPT !.at = "lost", !.entry = NoEntry]
    <3>1. request'[s] = lost
      BY <1>5 DEF RestartGateway
    <3>2. lost.kind = request[s].kind /\ lost.at = "lost"
      BY <1>a DEF ActorTypes, Requests
    <3> HIDE DEF lost
    <3> QED
      BY <3>1, <3>2
  <2> QED
    BY <1>a, <1>c, <2>1, <2>2
<1> QED
  BY <1>1, <1>2, <1>3, <1>4, <1>5

LEMMA TrackChain ==
    ASSUME LogInv, LogInv', [Next]_vars, ActorInv, TrackInv,
           Mining \/ Revoke \/ BlockTime \/ GatewayTime \/ UNCHANGED allVars
    PROVE  \A s \in Service : OnTrack(s)'
<1>a. /\ UNCHANGED <<tasks, main, serviceDb, request>> /\ payloads \in [Hash -> Payload]
      /\ \A s \in Service : OnTrack(s) /\ tokenOf[s] \in Hash /\ \A t \in tasks : EventOf(t)' = EventOf(t)
  BY EventsStay, ConstantsFit
     DEF ActorInv, TrackInv, LogInv, TypeOK, Mining, MineStore, MineApproval, Refuse, Mine, Revoke,
         BlockTime, GatewayTime, allVars, actors, service
<1>b. ASSUME NEW s \in Service, payloads'[tokenOf[s]].isValue
      PROVE  payloads'[tokenOf[s]].source = s /\ payloads'[tokenOf[s]].approver = gateway
  <2>1. CASE payloads[tokenOf[s]].isValue
    BY <1>a, <2>1, ChainGrows DEF OnTrack, SameParties
  <2>2. CASE ~payloads[tokenOf[s]].isValue
    <3>1. ASSUME NEW u \in Service, MineStore(u)
          PROVE  payloads'[tokenOf[s]].source = s /\ payloads'[tokenOf[s]].approver = gateway
      <4>1. s = u
        BY <1>a, <1>b, <2>2, <3>1, ConstantsFit DEF MineStore, storePayload
      <4> QED
        BY <1>a, <3>1, <4>1 DEF MineStore, storePayload, Payload
    <3>2. ASSUME NEW u \in Service, MineApproval(u) PROVE FALSE
      <4>1. UNCHANGED chain \/ approveAccess(gateway, tokenOf[u], expiredIn)
        BY <3>2 DEF MineApproval
      <4>2. payloads'[tokenOf[s]].isValue = payloads[tokenOf[s]].isValue
        BY <1>a, <4>1 DEF approveAccess, chain, Payload
      <4> QED
        BY <1>b, <2>2, <4>2
    <3>3. CASE Revoke
      <4>1. \E h \in Hash : payloads' = [payloads EXCEPT ![h].isRevoked = TRUE]
        BY <3>3, ConstantsFit DEF Revoke, revokeGateway, revokeAccess
      <4>2. payloads'[tokenOf[s]].isValue = payloads[tokenOf[s]].isValue
        BY <1>a, <4>1 DEF Payload
      <4> QED
        BY <1>b, <2>2, <4>2
    <3>4. CASE (\E tx \in pool : Refuse(tx)) \/ BlockTime \/ GatewayTime \/ UNCHANGED allVars
      <4>1. UNCHANGED payloads
        BY <3>4 DEF Refuse, BlockTime, Tick, GatewayTime, allVars, chain
      <4> QED
        BY <1>b, <2>2, <4>1
    <3> QED
      BY <3>1, <3>2, <3>3, <3>4 DEF Mining
  <2> QED
    BY <2>1, <2>2
<1> QED
  BY <1>a, <1>b, TrackFrame

\* The system uses the contract's methods for accesses with the services' payloads, and
\* revokeGateway with the gateway's.
LEMMA MethodsStep ==
    ASSUME LogInv, MethodsMatch(Kind), [NextAll]_allVars PROVE MethodsMatch(Kind)'
<1> DEFINE OfItsKind(e) == e.event \in EventsOf(Kind[e.payloadHash])
<1>a. /\ \A s \in Service : Kind[tokenOf[s]] = "access"
      /\ Kind[gatewayHash] = "gateway"
  BY ConstantsFit DEF Kind
<1>1. CASE UNCHANGED log
  BY <1>1 DEF MethodsMatch, Kind
<1>2. ASSUME NEW e, OfItsKind(e), Emit(e) PROVE MethodsMatch(Kind)'
  <2>1. log \in Seq(Event) /\ log' = Append(log, e)
    BY <1>2 DEF Emit, LogInv, TypeOK
  <2>2. \A i \in DOMAIN log' : log'[i] = e \/ (i \in DOMAIN log /\ log'[i] = log[i])
    BY <2>1
  <2> HIDE DEF Kind
  <2>3. Kind' = Kind
    BY DEF Kind
  <2> QED
    BY <1>2, <2>2, <2>3 DEF MethodsMatch
<1>3. ASSUME UNCHANGED log \/ \E e : OfItsKind(e) /\ Emit(e) PROVE MethodsMatch(Kind)'
  BY <1>1, <1>2, <1>3
<1>4. ASSUME NEW s \in Service, MineStore(s) PROVE \E e : OfItsKind(e) /\ Emit(e)
  <2>1. OfItsKind(PayloadAdded(tokenOf[s], s, s, gateway))
    BY <1>a DEF PayloadAdded, EventsOf
  <2> QED
    BY <1>4, <2>1 DEF MineStore, storePayload
<1>5. ASSUME NEW s \in Service, MineApproval(s)
      PROVE  UNCHANGED log \/ \E e : OfItsKind(e) /\ Emit(e)
  <2>1. OfItsKind(AccessApproved(tokenOf[s], gateway, payloads[tokenOf[s]].source, ExpiryTime(expiredIn)))
    BY <1>a DEF AccessApproved, EventsOf
  <2> QED
    BY <1>5, <2>1 DEF MineApproval, approveAccess, chain
<1>6. ASSUME Revoke PROVE \E e : OfItsKind(e) /\ Emit(e)
  <2>1. OfItsKind(GatewayRevoked(gatewayHash, owner, gateway))
    BY <1>a DEF GatewayRevoked, EventsOf
  <2>2. \A s \in Service : \A sender : OfItsKind(AccessRevoked(tokenOf[s], sender, payloads[tokenOf[s]].target))
    BY <1>a DEF AccessRevoked, EventsOf
  <2> QED
    BY <1>6, <2>1, <2>2 DEF Revoke, revokeGateway, revokeAccess
<1>7. ASSUME NEW s \in Service, ServiceMain(s) \/ GatewayHandles(s) PROVE UNCHANGED log
  BY <1>7 DEF ServiceMain, GetAccessList, Publish, ServiceStoresPayload, RequestForResource,
     GatewayHandles, AuthorizeReadsToken, SetAccesses, SendApproval, StoreNewNonce,
     HandshakeChecksToken, CheckToken, UpdateSecret, ServeResource, chain
<1>8. CASE \/ Events \/ RestartGateway \/ BlockTime \/ GatewayTime \/ UNCHANGED allVars
           \/ \E tx \in pool : Refuse(tx)
  <2>1. UNCHANGED log
    BY <1>8 DEF Events, ServiceDelivers, GatewayDelivers, ServicePayloadAdded, ServiceAccessApproved,
       GatewayPayloadAdded, GatewayAccessApproved, RestartGateway, BlockTime, Tick, GatewayTime,
       Refuse, allVars, chain
  <2> QED
    BY <1>1, <2>1
<1> QED
  BY <1>1, <1>3, <1>4, <1>5, <1>6, <1>7, <1>8 DEF NextAll, Mining

LEMMA MethodsInit == InitAll => MethodsMatch(Kind)
<1> SUFFICES ASSUME InitAll PROVE MethodsMatch(Kind)
  OBVIOUS
<1>1. /\ DOMAIN log = {1, 2}
      /\ log[1] = PayloadAdded(gatewayHash, owner, gateway, isp)
      /\ log[2] = GatewayApproved(gatewayHash, isp, gateway)
  BY DEF InitAll
<1>2. Kind[gatewayHash] = "gateway"
  BY ConstantsFit DEF Kind
<1> QED
  BY <1>1, <1>2 DEF MethodsMatch, EventsOf, PayloadAdded, GatewayApproved

LEMMA TrackInit == InitAll => TrackInv
<1> SUFFICES ASSUME InitAll, NEW s \in Service PROVE OnTrack(s)
  BY MethodsInit DEF TrackInv
<1>1. tokenOf[s] \in Hash \ {gatewayHash}
  BY ConstantsFit
<1>2. serviceDb[s] = NoEntry /\ request[s] = NoRequest /\ tasks = {} /\ main[s] = "start"
  BY DEF InitAll
<1>3. payloads[tokenOf[s]] = NoPayload
  BY <1>1 DEF InitAll
<1>4. ~NoPayload.isValue
  BY ConstantsFit DEF NoPayload
<1>5. ~NoEntry.isStored /\ ~NoEntry.isApproved /\ NoRequest.kind = "none"
  BY DEF NoEntry, NoRequest
<1> QED
  BY <1>2, <1>3, <1>4, <1>5 DEF OnTrack

LEMMA TrackStep == LogInv /\ LogInv' /\ ActorInv /\ TrackInv /\ [NextAll]_allVars => TrackInv'
<1> SUFFICES ASSUME LogInv, LogInv', ActorInv, TrackInv, [NextAll]_allVars
             PROVE  \A s \in Service : OnTrack(s)'
  BY MethodsStep DEF TrackInv
<1>a. [Next]_vars
  BY ChainSteps DEF ActorInv
<1>1. CASE Mining \/ Revoke \/ BlockTime \/ GatewayTime \/ UNCHANGED allVars
  BY <1>a, <1>1, TrackChain
<1>2. CASE \/ \E s \in Service : ServiceMain(s) \/ GatewayHandles(s)
           \/ Events \/ RestartGateway
  BY <1>a, <1>2, TrackPrograms DEF Events
<1> QED
  BY <1>1, <1>2 DEF NextAll

\* Where nothing is left to do for a service, its authorization has ended.
LEMMA SettledEnds ==
    ASSUME LogInv, ActorInv, TrackInv, NEW s \in Service, Settled(s)
    PROVE  Ended(s)
<1> DEFINE h == tokenOf[s]
<1>a. /\ h \in Hash /\ Kind[h] = "access" /\ OnTrack(s) /\ AsksInOrder(s)
      /\ request[s].kind \in {"none", "authorize", "handshake", "resource"}
      /\ StoreTx(s) \notin pool /\ ApproveTx(s) \notin pool /\ main[s] = "done"
  BY ConstantsFit
     DEF ActorInv, ActorTypes, Requests, Fits, ServicesFit, TrackInv, Kind, Settled
<1>1. CASE ~payloads[h].isValue
  BY <1>a, <1>1 DEF Ended, Refused
<1>2. CASE payloads[h].isValue
  <2>1. PICK i \in DOMAIN log : log[i].payloadHash = h /\ Rank(log[i]) = 1
    BY <1>2, <1>a DEF LogInv, LogMatchesPayloads, FlagsAreLogged, Logged
  <2>2. log[i].event = "PayloadAdded" /\ log[i].sender = s
    BY <1>a, <1>2, <2>1
       DEF Rank, LogInv, LogMatchesPayloads, PartiesAreLogged, Announces, OnTrack
  <2>3. PICK t \in tasks : t.actor = s /\ t.event = i /\ t.at \in {"done", "failed"}
    BY <2>2 DEF Settled, ForService
  <2>4. About(t, s, "PayloadAdded")
    BY <2>2, <2>3 DEF About, EventOf
  <2>5. CASE t.at = "failed"
    BY <2>3, <2>4, <2>5 DEF Ended, AnnouncementFailed, About
  <2>6. CASE t.at = "done"
    <3>1. request[s].kind # "none" /\ request[s].at \in {"ok", "denied", "hung", "lost"}
      BY <1>a, <2>4, <2>6 DEF OnTrack, Settled
    <3>2. CASE At(s, "authorize", "ok") /\ payloads[h].isApproved
      <4>1. PICK j \in DOMAIN log : log[j].payloadHash = h /\ Rank(log[j]) = 2
        BY <3>2, <1>a DEF LogInv, LogMatchesPayloads, FlagsAreLogged, Logged
      <4>2. log[j].event = "AccessApproved"
        BY <1>a, <4>1 DEF TrackInv, MethodsMatch, EventsOf, Rank, Approvals
      <4>3. log[j].target = s
        BY <1>a, <1>2, <4>1, <4>2
           DEF LogInv, LogMatchesPayloads, PartiesAreLogged, Announces, OnTrack
      <4>4. PICK u \in tasks : u.actor = s /\ u.event = j /\ u.at \in {"done", "failed"}
        BY <4>2, <4>3 DEF Settled, ForService
      <4>5. About(u, s, "AccessApproved")
        BY <4>2, <4>4 DEF About, EventOf
      <4>6. request[s].kind \in {"handshake", "resource"}
        BY <1>a, <4>4, <4>5 DEF OnTrack
      <4> QED
        BY <3>2, <4>6 DEF At
    <3> QED
      BY <1>a, <3>1, <3>2 DEF Ended, Served, Refused, Settled, At
  <2> QED
    BY <2>3, <2>5, <2>6
<1> QED
  BY <1>1, <1>2

\* A service for which nothing is left to do has its resource, or its announcement came
\* too early, or its request was denied, lost or never answered, or a transaction was
\* refused or reverted.
THEOREM SettledServiceHasEnded == SpecAll => []SettledHasEnded
<1>1. InitAll => LogInv /\ ActorInv /\ TrackInv
  BY LogInvInitAll, ActorInvInit, TrackInit
<1>2. LogInv /\ ActorInv /\ TrackInv /\ [NextAll]_allVars => LogInv' /\ ActorInv' /\ TrackInv'
  BY ChainSteps, LogInvStep, ActorInvStep, TrackStep DEF ActorInv
<1>3. LogInv /\ ActorInv /\ TrackInv => SettledHasEnded
  BY SettledEnds DEF SettledHasEnded
<1> QED
  BY <1>1, <1>2, <1>3, PTL DEF SpecAll
===============================================================================
