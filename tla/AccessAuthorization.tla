-------------------------- MODULE AccessAuthorization --------------------------
(***************************************************************************)
(* Access authorization: IoT services, the gateway whose resource they     *)
(* want, and the registry contract (src/actors/iot-service, gateway).      *)
(*                                                                         *)
(* A service gets the gateway's list of accesses, stores the hash of a     *)
(* payload that asks for some of them in the contract, and sends the       *)
(* payload to the gateway when it sees PayloadAdded.  The gateway sees the *)
(* event on its own subscription and keeps the hash as an access token; it *)
(* ties the accesses to the token and sends approveAccess.  When the       *)
(* service sees AccessApproved it opens a session with the token (a        *)
(* handshake with a fresh nonce) and asks for the resource; the gateway    *)
(* checks the token against what its own database says, both times.        *)
(*                                                                         *)
(* The gateway's processes may be restarted: its handlers and requests are *)
(* lost, its memcached is not, and its subscriptions start again from      *)
(* block 0.  The clocks of the gateway and of the chain differ.            *)
(***************************************************************************)
EXTENDS ActorEvents

CONSTANTS Service,      \* the addresses of the services
          gateway, owner, isp, mockIp,
          gatewayHash,  \* the gateway's own authentication payload
          tokenOf,      \* tokenOf[s]: the hash of s's authorization payload, its token
          Resource,     \* what can be asked for
          assigned,     \* the list the gateway assigns to every service
          Choice,       \* what a payload asks for
          expiredIn,    \* 3600 in the code
          Skew,         \* how far the gateway's clock and the chain's are apart
          MaxRestarts,  \* bound: restarts of the gateway
          Troubled      \* TRUE: transactions may be refused (see TxNonce), gateway and
                        \* accesses may be revoked

ASSUME AccessAuthorizationAssumption ==
    /\ Service \subseteq Address /\ {gateway, owner, isp} \subseteq Address \ Service
    /\ gatewayHash \in Hash /\ mockIp \in Ip
    /\ tokenOf \in [Service -> Hash \ {gatewayHash}]
    /\ \A s, u \in Service : tokenOf[s] = tokenOf[u] => s = u
    /\ assigned \in (SUBSET Resource) \ {{}} /\ Choice \subseteq SUBSET Resource
    /\ expiredIn \in Duration /\ MaxTime + expiredIn < UintSize
    /\ Skew \in Nat /\ MaxRestarts \in Nat /\ Troubled \in BOOLEAN

VARIABLES main,       \* main[s]: how far the service's main() has come
          asks,       \* asks[s]: the accesses its payload asks for
          serviceDb,  \* serviceDb[s]: s's entry for its payload, in s's memcached
          request,    \* request[s]: the latest HTTP request of s, at the gateway
          accessDb,   \* accessDb[s]: the accesses the gateway assigned to s
          tokenDb,    \* tokenDb[h]: the gateway's entry for token h
          nonceDb,    \* nonceDb[s]: the secret kept for the nonce of s's handshake
          clock,      \* Date.now() at the gateway, in seconds
          restarts    \* restarts of the gateway so far

service == <<main, asks, serviceDb>>

actors == <<tasks, pool, service, request, accessDb, tokenDb, nonceDb, clock, restarts>>

allVars == <<actors, chain>>

NoEntry == [known |-> FALSE, isStored |-> FALSE, isApproved |-> FALSE,
            isRevoked |-> FALSE, expiryTime |-> 0, accesses |-> {}]

\* Fault: an entry without the fields that are set later.
BareEntry(isStored) == [known |-> TRUE, isStored |-> isStored, isApproved |-> FALSE]

\* Fault: a fresh entry is approved already.
ApprovedEntry(isStored) == [NoEntry EXCEPT !.known = TRUE, !.isStored = isStored, !.isApproved = TRUE]

\* A fresh entry: what storeNewPayload writes, and storeNewToken with isStored.
NewEntry(isStored) == [NoEntry EXCEPT !.known = TRUE, !.isStored = isStored]

\* Fault: the approval is recorded and the expiry is not.
ApprovedForEver(entry, e) == [entry EXCEPT !.isApproved = TRUE, !.expiryTime = MaxTime]

\* What both databases make of an entry when the access is approved.
Approved(entry, e) == [entry EXCEPT !.isApproved = TRUE, !.expiryTime = e.expiryTime]

\* Fault: a payload counts as stored as soon as the database has an entry for it.
HasEntry(s) == serviceDb[s].known

isPayloadStored(s) == serviceDb[s].known /\ serviceDb[s].isStored

isPayloadApproved(s) == serviceDb[s].known /\ serviceDb[s].isApproved

isTokenApproved(h) == tokenDb[h].known /\ tokenDb[h].isApproved

\* The databases of the gateway.
storeNewToken(h) == tokenDb' = [tokenDb EXCEPT ![h] = NewEntry(TRUE)]

updateTokenStateToApproved(h, entry, e) ==
    tokenDb' = [tokenDb EXCEPT ![h] = Approved(entry, e)]

getTokenObject(s) == tokenDb[tokenOf[s]]

storeNewAccess(s) == accessDb' = [accessDb EXCEPT ![s] = assigned]

getAccess(s) == accessDb[s]

storeNewNonce(s) == nonceDb' = [nonceDb EXCEPT ![s] = "secret"]

updateSecret(s) == nonceDb' = [nonceDb EXCEPT ![s] = "key"]

getSecret(s) == nonceDb[s]

\* Fault: the expiry is not looked at.
NeverExpires(token) == token.isApproved /\ ~token.isRevoked

\* The check of processHandshake and of processResource.
validToken(token) == token.isApproved /\ ~token.isRevoked /\ ~(token.expiryTime < clock)

NoRequest == [kind |-> "none", at |-> "none", entry |-> NoEntry]

\* The gateway has been put through GatewayAuthentication.
InitAll ==
    /\ payloads = [h \in Hash |->
           IF h = gatewayHash
           THEN [NoPayload EXCEPT !.source = owner, !.target = gateway, !.approver = isp,
                                  !.isValue = TRUE, !.isApproved = TRUE]
           ELSE NoPayload]
    /\ trustedGateways = [a \in AnyAddress |-> IF a = gateway THEN mockIp ELSE NoIp]
    /\ trustedDevices = [a \in AnyAddress |-> NoAddress]
    /\ now = 0
    /\ log = <<PayloadAdded(gatewayHash, owner, gateway, isp),
               GatewayApproved(gatewayHash, isp, gateway)>>
    /\ tasks = {} /\ pool = {}
    /\ main = [s \in Service |-> "start"]
    /\ asks \in [Service -> Choice]
    /\ serviceDb = [s \in Service |-> NoEntry]
    /\ request = [s \in Service |-> NoRequest]
    /\ accessDb = [s \in Service |-> {}]
    /\ tokenDb = [h \in Hash |-> NoEntry]
    /\ nonceDb = [s \in Service |-> "absent"]
    /\ clock = 0 /\ restarts = 0

StoreTx(s) == [method |-> "storePayload", service |-> s]

ApproveTx(s) == [method |-> "approveAccess", service |-> s]

-------------------------------------------------------------------------------
(* The service.                                                            *)

\* POST /accesses at the gateway: assignAccess.
GetAccessList(s) == /\ main[s] = "start"
                    /\ main' = [main EXCEPT ![s] = "listed"]
                    /\ storeNewAccess(s)
                    /\ UNCHANGED <<tasks, pool, asks, serviceDb, request, tokenDb, nonceDb,
                                   clock, restarts, chain>>

\* The listeners are attached, transaction and database write are under way; main()
\* waits for neither.
Publish(s) == /\ main[s] = "listed"
              /\ main' = [main EXCEPT ![s] = "published"]
              /\ Send(StoreTx(s))
              /\ UNCHANGED <<tasks, asks, serviceDb, request, accessDb, tokenDb, nonceDb,
                             clock, restarts, chain>>

\* The database write arrives.
ServiceStoresPayload(s) == /\ main[s] = "published"
                           /\ main' = [main EXCEPT ![s] = "done"]
                           /\ serviceDb' = [serviceDb EXCEPT ![s] = NewEntry(FALSE)]
                           /\ UNCHANGED <<tasks, pool, asks, request, accessDb, tokenDb, nonceDb,
                                          clock, restarts, chain>>

\* The events the service's listeners pass on: its own payload's.
ForService(s, e) == \/ e.event = "PayloadAdded" /\ e.sender = s
                    \/ e.event = "AccessApproved" /\ e.target = s

ServiceDelivers(s) ==
    /\ main[s] \in {"published", "done"}
    /\ \E i \in DOMAIN log : ForService(s, log[i]) /\ Deliver(s, i, NoEntry)
    /\ UNCHANGED <<pool, service, request, accessDb, tokenDb, nonceDb, clock, restarts, chain>>

Ask(s, kind) == request' = [request EXCEPT ![s] = [NoRequest EXCEPT !.kind = kind, !.at = "sent"]]

\* The end of a service's event handler: the entry is written back, then the
\* gateway is asked.
WriteAndAsk(s, t, entry, kind) ==
    \/ /\ t.at = "replace"
       /\ serviceDb' = [serviceDb EXCEPT ![s] = entry]
       /\ Step(t, "send", NoEntry)
       /\ UNCHANGED request
    \/ /\ t.at = "send"
       /\ Ask(s, kind)
       /\ Step(t, "done", NoEntry)
       /\ UNCHANGED serviceDb

\* processPayloadAddedEvent: isPayloadStored, updatePayloadStateToStored,
\* prepareAndSendToGateway.
ServicePayloadAdded(s, t) ==
    /\ t.actor = s /\ EventOf(t).event = "PayloadAdded"
    /\ \/ /\ Look(t, isPayloadStored(s), serviceDb[s].known, serviceDb[s], NoEntry)
          /\ UNCHANGED <<serviceDb, request>>
       \/ WriteAndAsk(s, t, [t.entry EXCEPT !.isStored = TRUE], "authorize")
    /\ UNCHANGED <<pool, main, asks, accessDb, tokenDb, nonceDb, clock, restarts, chain>>

\* processAccessApprovedEvent: isPayloadApproved, updatePayloadStateToApproved,
\* initiateHandshake.
ServiceAccessApproved(s, t) ==
    /\ t.actor = s /\ EventOf(t).event = "AccessApproved"
    /\ \/ /\ Look(t, isPayloadApproved(s), serviceDb[s].known /\ EventOf(t).sender = gateway,
                  serviceDb[s], NoEntry)
          /\ UNCHANGED <<serviceDb, request>>
       \/ WriteAndAsk(s, t, Approved(t.entry, EventOf(t)), "handshake")
    /\ UNCHANGED <<pool, main, asks, accessDb, tokenDb, nonceDb, clock, restarts, chain>>

\* The answer to the handshake arrives: requestForResource.
RequestForResource(s) ==
    /\ request[s].kind = "handshake" /\ request[s].at = "ok"
    /\ Ask(s, "resource")
    /\ UNCHANGED <<tasks, pool, service, accessDb, tokenDb, nonceDb, clock, restarts, chain>>

-------------------------------------------------------------------------------
(* The gateway's event handlers.                                           *)

GatewayDelivers ==
    \E i \in DOMAIN log :
        /\ \/ log[i].event = "PayloadAdded" /\ log[i].approver = gateway
           \/ log[i].event = "AccessApproved" /\ log[i].sender = gateway
        /\ Deliver(gateway, i, NoEntry)
        /\ UNCHANGED <<pool, service, request, accessDb, tokenDb, nonceDb, clock, restarts, chain>>

\* processAuthorizationPayloadAddedEvent: isTokenApproved, storeNewToken.
GatewayPayloadAdded(t) ==
    LET h == EventOf(t).payloadHash
    IN /\ t.actor = gateway /\ EventOf(t).event = "PayloadAdded"
       /\ \/ /\ t.at = "check"
             /\ Step(t, IF isTokenApproved(h) THEN "done" ELSE "set", NoEntry)
             /\ UNCHANGED tokenDb
          \/ /\ t.at = "set"
             /\ storeNewToken(h)
             /\ Step(t, "done", NoEntry)
       /\ UNCHANGED <<pool, service, request, accessDb, nonceDb, clock, restarts, chain>>

\* processAccessApprovedEvent: isTokenApproved, updateTokenStateToApproved.
GatewayAccessApproved(t) ==
    LET h == EventOf(t).payloadHash
    IN /\ t.actor = gateway /\ EventOf(t).event = "AccessApproved"
       /\ \/ /\ Look(t, isTokenApproved(h), tokenDb[h].known, tokenDb[h], NoEntry)
             /\ UNCHANGED tokenDb
          \/ /\ t.at = "replace"
             /\ updateTokenStateToApproved(h, t.entry, EventOf(t))
             /\ Step(t, "done", NoEntry)
       /\ UNCHANGED <<pool, service, request, accessDb, nonceDb, clock, restarts, chain>>

-------------------------------------------------------------------------------
(* The gateway's HTTP handlers.                                            *)

At(s, kind, at) == request[s].kind = kind /\ request[s].at = at

Goto(s, at, entry) ==
    request' = [request EXCEPT ![s] = [@ EXCEPT !.at = at, !.entry = entry]]

\* Fault: what a payload asks for is not compared with the list.
AnyAccess(s) == getAccess(s) # {}

AccessesAssigned(s) == asks[s] \subseteq getAccess(s)

\* POST /authorize: getTokenObject throws for a token the gateway has not seen yet,
\* and the request is never answered; so does getAccess for a service without a list.
AuthorizeReadsToken(s) ==
    LET token == getTokenObject(s)
    IN /\ At(s, "authorize", "sent")
       /\ Goto(s, IF ~token.known THEN "hung"
                  ELSE IF token.isApproved THEN "denied"
                  ELSE IF getAccess(s) = {} THEN "hung"
                  ELSE IF ~AccessesAssigned(s) THEN "denied" ELSE "tying", NoEntry)
       /\ UNCHANGED <<tasks, pool, service, accessDb, tokenDb, nonceDb, clock, restarts, chain>>

\* Fault: the transaction is sent before the accesses are tied to the token.
SetAccessesLate(s) ==
    /\ \/ /\ At(s, "authorize", "tying") /\ Goto(s, "writing", tokenDb[tokenOf[s]])
          /\ Send(ApproveTx(s))
          /\ UNCHANGED tokenDb
       \/ /\ At(s, "authorize", "writing")
          /\ tokenDb' = [tokenDb EXCEPT ![tokenOf[s]] = [request[s].entry EXCEPT !.accesses = asks[s]]]
          /\ Goto(s, "ok", NoEntry)
          /\ UNCHANGED pool
    /\ UNCHANGED <<tasks, service, accessDb, nonceDb, clock, restarts, chain>>

\* setAccesses: get, then replace.
SetAccesses(s) ==
    /\ \/ /\ At(s, "authorize", "tying") /\ Goto(s, "writing", tokenDb[tokenOf[s]])
          /\ UNCHANGED tokenDb
       \/ /\ At(s, "authorize", "writing")
          /\ tokenDb' = [tokenDb EXCEPT ![tokenOf[s]] = [request[s].entry EXCEPT !.accesses = asks[s]]]
          /\ Goto(s, "numbering", NoEntry)
    /\ UNCHANGED <<tasks, pool, service, accessDb, nonceDb, clock, restarts, chain>>

\* With a nonce from the shared counter: see TxNonce.
SendApproval(s) ==
    /\ At(s, "authorize", "numbering")
    /\ Goto(s, "ok", NoEntry)
    /\ Send(ApproveTx(s))
    /\ UNCHANGED <<tasks, service, accessDb, tokenDb, nonceDb, clock, restarts, chain>>

\* POST /handshake: isExist, storeNewNonce.  The nonce is fresh for every handshake.
StoreNewNonce(s) ==
    /\ At(s, "handshake", "sent")
    /\ storeNewNonce(s)
    /\ Goto(s, "checking", NoEntry)
    /\ UNCHANGED <<tasks, pool, service, accessDb, tokenDb, clock, restarts, chain>>

CheckToken(s, kind, from, to) ==
    LET token == getTokenObject(s)
    IN /\ At(s, kind, from)
       /\ Goto(s, IF ~token.known THEN "hung" ELSE IF ~validToken(token) THEN "denied" ELSE to,
               NoEntry)
       /\ UNCHANGED <<tasks, pool, service, accessDb, tokenDb, clock, restarts, chain>>

\* getTokenObject and the checks; an unknown token throws.
HandshakeChecksToken(s) == CheckToken(s, "handshake", "checking", "agreeing") /\ UNCHANGED nonceDb

\* updateSecret, and the answer with the gateway's half of the key.
UpdateSecret(s) ==
    /\ At(s, "handshake", "agreeing")
    /\ updateSecret(s)
    /\ Goto(s, "ok", NoEntry)
    /\ UNCHANGED <<tasks, pool, service, accessDb, tokenDb, clock, restarts, chain>>

\* POST /resource: getSecret gives the key that the service encrypted its request
\* with, then the token is checked once more.
ServeResource(s) == /\ getSecret(s) = "key"
                    /\ CheckToken(s, "resource", "sent", "ok")
                    /\ UNCHANGED nonceDb

\* Every process of the gateway stops and starts again.
RestartGateway ==
    /\ restarts < MaxRestarts
    /\ restarts' = restarts + 1
    /\ tasks' = {t \in tasks : t.actor # gateway}
    /\ request' = [s \in Service |->
           IF request[s].at \in {"tying", "writing", "numbering", "checking", "agreeing"}
           THEN [request[s] EXCEPT !.at = "lost", !.entry = NoEntry] ELSE request[s]]
    /\ UNCHANGED <<pool, service, accessDb, tokenDb, nonceDb, clock, chain>>

-------------------------------------------------------------------------------
(* The chain and the clocks.                                               *)

Mine(tx) ==
    Take(tx) /\ UNCHANGED <<tasks, service, request, accessDb, tokenDb, nonceDb, clock, restarts>>

MineStore(s) == Mine(StoreTx(s)) /\ storePayload(s, tokenOf[s], s, gateway)

\* A transaction whose require fails is mined and reverted.
MineApproval(s) ==
    /\ Mine(ApproveTx(s))
    /\ \/ approveAccess(gateway, tokenOf[s], expiredIn)
       \/ /\ \/ ~payloadMustBeNotApproved(tokenOf[s]) \/ ~gatewayMustBeTrusted(gateway)
          /\ UNCHANGED chain

Refuse(tx) == Troubled /\ Mine(tx) /\ UNCHANGED chain

\* Nobody's program revokes; the accounts may.
Revoke == /\ Troubled
          /\ \/ revokeGateway(owner, gatewayHash, gateway)
             \/ \E s \in Service : \E sender \in {s, gateway} : revokeAccess(sender, tokenOf[s])
          /\ UNCHANGED actors

BlockTime == now + 1 <= clock + Skew /\ Tick /\ UNCHANGED actors

GatewayTime == /\ clock < MaxTime /\ clock + 1 <= now + Skew
               /\ clock' = clock + 1
               /\ UNCHANGED <<tasks, pool, service, request, accessDb, tokenDb, nonceDb, restarts, chain>>

-------------------------------------------------------------------------------

ServiceMain(s) ==
    GetAccessList(s) \/ Publish(s) \/ ServiceStoresPayload(s) \/ RequestForResource(s)

GatewayHandles(s) == \/ AuthorizeReadsToken(s) \/ SetAccesses(s) \/ SendApproval(s)
                     \/ StoreNewNonce(s) \/ HandshakeChecksToken(s) \/ UpdateSecret(s)
                     \/ ServeResource(s)

Events == \/ \E s \in Service : ServiceDelivers(s)
          \/ GatewayDelivers
          \/ \E t \in tasks : \/ \E s \in Service : ServicePayloadAdded(s, t) \/ ServiceAccessApproved(s, t)
                              \/ GatewayPayloadAdded(t) \/ GatewayAccessApproved(t)

Mining == \/ \E s \in Service : MineStore(s) \/ MineApproval(s)
          \/ \E tx \in pool : Refuse(tx)

NextAll == \/ \E s \in Service : ServiceMain(s) \/ GatewayHandles(s)
           \/ Events \/ Mining
           \/ RestartGateway \/ Revoke \/ BlockTime \/ GatewayTime

SpecAll == InitAll /\ [][NextAll]_allVars

\* Programs, started handlers and requests go on, subscriptions deliver, the node
\* mines or refuses.  No clock, restart or revocation has to happen.
FairSpecAll == /\ SpecAll
               /\ \A s \in Service : WF_allVars(ServiceMain(s)) /\ WF_allVars(GatewayHandles(s))
               /\ WF_allVars(Events)
               /\ WF_allVars(Mining)

-------------------------------------------------------------------------------
(* Properties.                                                             *)

Entry == [known : BOOLEAN, isStored : BOOLEAN, isApproved : BOOLEAN, isRevoked : BOOLEAN,
          expiryTime : Uint, accesses : SUBSET Resource]

\* Every variable has its type.
TypeOKAll ==
    /\ TypeOK
    /\ \A t \in tasks : /\ t.actor \in Service \cup {gateway} /\ t.event \in DOMAIN log
                        /\ t.entry \in Entry
                        /\ t.at \in {"check", "get", "replace", "set", "send", "done", "failed"}
    /\ pool \subseteq {StoreTx(s) : s \in Service} \cup {ApproveTx(s) : s \in Service}
    /\ main \in [Service -> {"start", "listed", "published", "done"}]
    /\ asks \in [Service -> SUBSET Resource]
    /\ serviceDb \in [Service -> Entry]
    /\ request \in [Service -> [kind : {"none", "authorize", "handshake", "resource"},
                                at : {"none", "sent", "tying", "writing", "numbering", "checking",
                                      "agreeing", "ok", "denied", "hung", "lost"},
                                entry : Entry]]
    /\ accessDb \in [Service -> SUBSET Resource]
    /\ tokenDb \in [Hash -> Entry]
    /\ nonceDb \in [Service -> {"absent", "secret", "key"}]
    /\ clock \in 0 .. MaxTime
    /\ restarts \in 0 .. MaxRestarts

\* Entry e about payload h says nothing that the chain does not.
BehindChain(e, h) ==
    /\ e.isStored => payloads[h].isValue
    /\ e.isApproved => payloads[h].isApproved /\ e.expiryTime = payloads[h].expiryTime

\* Neither database is ahead of the chain, whatever is replayed, refused or revoked:
\* what it holds for approved is, with the expiry the contract has.
DatabasesBehindChain ==
    /\ \A h \in Hash : tokenDb[h].known => payloads[h].isValue /\ BehindChain(tokenDb[h], h)
    /\ \A s \in Service : BehindChain(serviceDb[s], tokenOf[s])

\* Until the gateway restarts, a token it holds for approved has the accesses that
\* were asked for: tying them and recording the approval, each a read and a write
\* of one entry, do not undo each other.
TokenKeepsAccesses ==
    \A s \in Service :
        restarts = 0 /\ tokenDb[tokenOf[s]].isApproved => tokenDb[tokenOf[s]].accesses = asks[s]

\* The gateway loses an approval it has recorded only to the PayloadAdded event that
\* a restart delivers again, whose handler looked at the token before the approval
\* and overwrites it afterwards.
ApprovalLostToReplayOnly ==
    [][\A h \in Hash : tokenDb[h].isApproved /\ ~tokenDb'[h].isApproved =>
          /\ restarts > 0
          /\ \E t \in tasks : /\ t.actor = gateway /\ t.at = "set"
                              /\ EventOf(t) = PayloadAdded(h, EventOf(t).sender, EventOf(t).target, gateway)]_allVars

Served(s) == At(s, "resource", "ok")

\* However stale the gateway's database is, a resource is served for an access that
\* the chain approved, and no later than the clocks differ after the contract says it
\* has expired: so a revocation, which never reaches the gateway, takes effect then.
ServedUntilExpiry ==
    [][\A s \in Service : ~Served(s) /\ Served(s)' =>
          /\ payloads[tokenOf[s]].isApproved
          /\ now <= payloads[tokenOf[s]].expiryTime + Skew]_allVars

\* The gateway answered 200 or the service sent its transaction, and it was refused
\* or reverted.
Refused(s) == \/ main[s] = "done" /\ StoreTx(s) \notin pool /\ ~payloads[tokenOf[s]].isValue
              \/ /\ At(s, "authorize", "ok") /\ ApproveTx(s) \notin pool
                 /\ ~payloads[tokenOf[s]].isApproved

\* The announcement came before the service's own database write: its handler threw.
AnnouncementFailed(s) ==
    \E t \in tasks : t.actor = s /\ t.at = "failed" /\ EventOf(t).event = "PayloadAdded"

\* The ways in which an authorization ends: the service got its resource, or its payload
\* was announced too early, or a request of its was denied, lost or never answered, or a
\* transaction was refused or reverted.
Ended(s) == \/ Served(s) \/ Refused(s) \/ AnnouncementFailed(s)
            \/ request[s].at \in {"denied", "hung", "lost"}

\* Nothing is left to do for service s: its program is through, its transactions and its
\* request are no longer under way, and it has handled all events about its payload.
Settled(s) ==
    /\ main[s] = "done" /\ pool \cap {StoreTx(s), ApproveTx(s)} = {}
    /\ request[s].at \in {"none", "ok", "denied", "hung", "lost"} /\ ~At(s, "handshake", "ok")
    /\ \A i \in DOMAIN log : ForService(s, log[i]) =>
           \E t \in tasks : t.actor = s /\ t.event = i /\ t.at \in {"done", "failed"}

\* There is no other way to get stuck: where nothing is left to do for a service, its
\* authorization has ended in one of these ways.  In particular its AccessApproved handler
\* never throws, and no handler takes its work for done when it is not.
SettledHasEnded == \A s \in Service : Settled(s) => Ended(s)

\* Every service that starts comes to one of these ends.
AuthorizationEnds == \A s \in Service : main[s] = "start" ~> Ended(s)

-------------------------------------------------------------------------------
(* Refinement: services and gateway implement AccessGrant.                 *)

GrantStage(s) == IF Served(s) THEN "served"
              ELSE IF nonceDb[s] = "key" THEN "open"
              ELSE IF payloads[tokenOf[s]].isApproved THEN "approved" ELSE "none"

Grant == INSTANCE AccessGrant
             WITH Token <- Service,
                  Time <- Uint,
                  stage <- [s \in Service |-> GrantStage(s)],
                  expiry <- [s \in Service |-> payloads[tokenOf[s]].expiryTime]

\* The databases, caches and messages of services and gateway together keep the
\* promise of AccessGrant, through restarts, refusals and revocations.
GrantSpec == Grant!Spec
===============================================================================
