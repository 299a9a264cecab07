------------------------- MODULE GatewayAuthentication -------------------------
(***************************************************************************)
(* Gateway authentication: owners, the ISP, the admin and the registry     *)
(* contract they meet on (src/actors/owner, src/actors/isp).               *)
(*                                                                         *)
(* An owner registers at the ISP, stores the hash of its authentication    *)
(* payload in the contract and sends the payload itself to the ISP when it *)
(* sees the contract's PayloadAdded event.  The ISP sees the same event on *)
(* a subscription of its own, remembers the payload, checks the owner's    *)
(* request against what it remembers and sends approveGateway.  The owner  *)
(* hands the gateway's identity to the admin when it sees GatewayApproved. *)
(*                                                                         *)
(* Subscriptions, HTTP requests, database accesses and transactions of     *)
(* different actors interleave freely: every await is a step of its own,   *)
(* but for those on the nonce counter, which are in TxNonce.  An exception *)
(* in an HTTP handler leaves the request without an answer.                *)
(***************************************************************************)
EXTENDS ActorEvents

CONSTANTS Owner,         \* the addresses of the owners
          isp,           \* the address of the ISP
          hashOf,        \* hashOf[o]: the hash of o's authentication payload
          gatewayOf,     \* gatewayOf[o]: the gateway o created
          mockIp,        \* the router IP the ISP assigns to every owner
          other,         \* an unrelated account that uses the contract as well
          LosesTransactions  \* the node may refuse a transaction: its nonce is not the
                             \* next one (see TxNonce), or its account has no ether yet

ASSUME GatewayAuthenticationAssumption ==
    /\ Owner \subseteq Address /\ isp \in Address /\ other \in Address
    /\ isp \notin Owner
    /\ hashOf \in [Owner -> Hash] /\ gatewayOf \in [Owner -> Address]
    /\ \A o, p \in Owner : hashOf[o] = hashOf[p] => o = p
    /\ mockIp \in Ip
    /\ LosesTransactions \in BOOLEAN

VARIABLES main,       \* main[o]: how far the owner's main() has come
          ownerDb,    \* ownerDb[o]: o's entry for its payload, in o's memcached
          users,      \* the ISP's registered users
          ispDb,      \* ispDb[h]: the ISP's entry for h, in the ISP's memcached
          request,    \* request[o]: o's authentication request, at the ISP
          admin       \* the one gateway the admin remembers, or NoAddress

actors == <<main, ownerDb, tasks, users, ispDb, request, pool, admin>>

allVars == <<actors, chain>>

NoEntry == [isStored |-> FALSE, isApproved |-> FALSE, known |-> FALSE]

\* Fault: an entry that leaves a field out.
EntryWithoutApproval(isStored, isApproved) == [isStored |-> isStored, known |-> TRUE]

Entry(isStored, isApproved) ==
    [isStored |-> isStored, isApproved |-> isApproved, known |-> TRUE]

\* Fault: a payload counts as stored as soon as the database has an entry for it.
HasEntry(entry) == entry.known

isPayloadStored(entry) == entry.known /\ entry.isStored

isPayloadApproved(entry) == entry.known /\ entry.isApproved

\* Writes of the owner's payload database.
storeNewPayload(o) == ownerDb' = [ownerDb EXCEPT ![o] = Entry(FALSE, FALSE)]

updatePayloadStateToStored(o, entry) ==
    ownerDb' = [ownerDb EXCEPT ![o] = Entry(TRUE, entry.isApproved)]

updatePayloadStateToApproved(o, entry) ==
    ownerDb' = [ownerDb EXCEPT ![o] = Entry(entry.isStored, TRUE)]

\* The ISP's payload and user databases.
IspStoresPayload(h) == ispDb' = [ispDb EXCEPT ![h] = Entry(TRUE, FALSE)]

IspUpdatesPayload(h, entry) == ispDb' = [ispDb EXCEPT ![h] = Entry(entry.isStored, TRUE)]

IspHasApproved(h) == ispDb[h].known /\ ispDb[h].isApproved

storeNewUser(o) == users' = users \cup {o}

\* getUser and getPayload throw for what they do not find.
IspHasUser(o) == o \in users

IspHasPayload(h) == ispDb[h].known

InitAll == /\ Init
           /\ main = [o \in Owner |-> "start"]
           /\ ownerDb = [o \in Owner |-> NoEntry]
           /\ tasks = {}
           /\ users = {}
           /\ ispDb = [h \in Hash |-> NoEntry]
           /\ request = [o \in Owner |-> "none"]
           /\ pool = {}
           /\ admin = NoAddress

-------------------------------------------------------------------------------
(* Event handlers.                                                         *)

\* The events an owner's listeners pass on: its own payloads, its own gateway.
ForOwner(o, e) == \/ e.event = "PayloadAdded" /\ e.sender = o
                  \/ e.event = "GatewayApproved" /\ e.target = gatewayOf[o]

OwnerDelivers(o) ==
    /\ main[o] # "start" /\ main[o] # "registered"
    /\ \E i \in DOMAIN log : ForOwner(o, log[i]) /\ Deliver(o, i, NoEntry)
    /\ UNCHANGED <<main, ownerDb, users, ispDb, request, pool, admin, chain>>

\* Fault: the ISP takes every payload for one it has to approve.
AnyApprover(e) == e.event = "PayloadAdded"

ForIspToApprove(e) == e.event = "PayloadAdded" /\ e.approver = isp

\* The events the ISP's listeners pass on: payloads for it to approve, its approvals.
IspDelivers ==
    \E i \in DOMAIN log :
        /\ \/ ForIspToApprove(log[i])
           \/ log[i].event = "GatewayApproved" /\ log[i].sender = isp
        /\ Deliver(isp, i, NoEntry)
        /\ UNCHANGED <<main, ownerDb, users, ispDb, request, pool, admin, chain>>

\* The owner's entry for an event's payload: its database has only its own.
OwnerEntry(o, h) == IF h = hashOf[o] THEN ownerDb[o] ELSE NoEntry

\* HTTP requests: to the ISP, whose handler then runs, and to the admin.
sendAuthenticationPayloadToIsp(o) == request' = [request EXCEPT ![o] = "sent"]

registerGatewayToAdmin(o) == admin' = gatewayOf[o]

\* Fault: the request is sent before the payload's state is updated.
OwnerSendsBeforeStoring(o, t) ==
    LET entry == OwnerEntry(o, EventOf(t).payloadHash)
    IN /\ t.actor = o /\ EventOf(t).event = "PayloadAdded"
       /\ \/ /\ t.at = "check"
             /\ Step(t, IF isPayloadStored(entry) THEN "done" ELSE "get", NoEntry)
             /\ UNCHANGED <<ownerDb, request>>
          \/ /\ t.at = "get"
             /\ sendAuthenticationPayloadToIsp(o)
             /\ Step(t, "replace", entry)
             /\ UNCHANGED ownerDb
          \/ /\ t.at = "replace"
             /\ updatePayloadStateToStored(o, t.entry)
             /\ Step(t, "done", NoEntry)
             /\ UNCHANGED request
       /\ UNCHANGED <<main, users, ispDb, pool, admin, chain>>

\* processPayloadAddedEvent: isPayloadStored, updatePayloadStateToStored (get,
\* then replace), prepareAndSendToIsp.
OwnerPayloadAdded(o, t) ==
    LET entry == OwnerEntry(o, EventOf(t).payloadHash)
    IN /\ t.actor = o /\ EventOf(t).event = "PayloadAdded"
       /\ \/ /\ Look(t, isPayloadStored(entry), entry.known, entry, NoEntry)
             /\ UNCHANGED <<ownerDb, request>>
          \/ /\ t.at = "replace"
             /\ updatePayloadStateToStored(o, t.entry)
             /\ Step(t, "send", NoEntry)
             /\ UNCHANGED request
          \/ /\ t.at = "send"
             /\ sendAuthenticationPayloadToIsp(o)
             /\ Step(t, "done", NoEntry)
             /\ UNCHANGED ownerDb
       /\ UNCHANGED <<main, users, ispDb, pool, admin, chain>>

\* Fault: the owner does not check which payload was approved, and by whom.
ApprovedByAnyone(o, t) == ownerDb[o].known

\* updatePayloadStateToApproved throws unless the entry exists and names the approver.
ApprovedByItsApprover(o, t) ==
    /\ OwnerEntry(o, EventOf(t).payloadHash).known
    /\ EventOf(t).sender = isp

\* processGatewayApprovedEvent: isPayloadApproved, updatePayloadStateToApproved
\* (get, then replace), registerGatewayToAdmin.
OwnerGatewayApproved(o, t) ==
    LET entry == OwnerEntry(o, EventOf(t).payloadHash)
    IN /\ t.actor = o /\ EventOf(t).event = "GatewayApproved"
       /\ \/ /\ Look(t, isPayloadApproved(entry), ApprovedByItsApprover(o, t), ownerDb[o], NoEntry)
             /\ UNCHANGED <<ownerDb, admin>>
          \/ /\ t.at = "replace"
             /\ updatePayloadStateToApproved(o, t.entry)
             /\ Step(t, "register", NoEntry)
             /\ UNCHANGED admin
          \/ /\ t.at = "register"
             /\ registerGatewayToAdmin(o)
             /\ Step(t, "done", NoEntry)
             /\ UNCHANGED ownerDb
       /\ UNCHANGED <<main, users, ispDb, request, pool, chain>>

\* processPayloadAddedEvent: isPayloadApproved, storeNewPayload.
IspPayloadAdded(t) ==
    LET h == EventOf(t).payloadHash
    IN /\ t.actor = isp /\ EventOf(t).event = "PayloadAdded"
       /\ \/ /\ t.at = "check"
             /\ Step(t, IF IspHasApproved(h) THEN "done" ELSE "set", NoEntry)
             /\ UNCHANGED ispDb
          \/ /\ t.at = "set"
             /\ IspStoresPayload(h)
             /\ Step(t, "done", NoEntry)
       /\ UNCHANGED <<main, ownerDb, users, request, pool, admin, chain>>

\* processGatewayApprovedEvent: isPayloadApproved, updatePayloadStateToApproved.
IspGatewayApproved(t) ==
    LET h == EventOf(t).payloadHash
    IN /\ t.actor = isp /\ EventOf(t).event = "GatewayApproved"
       /\ \/ /\ Look(t, IspHasApproved(h), IspHasPayload(h), ispDb[h], NoEntry)
             /\ UNCHANGED ispDb
          \/ /\ t.at = "replace"
             /\ IspUpdatesPayload(h, t.entry)
             /\ Step(t, "done", NoEntry)
       /\ UNCHANGED <<main, ownerDb, users, request, pool, admin, chain>>

-------------------------------------------------------------------------------
(* The owner's main program.                                               *)

StoreTx(o) == [method |-> "storePayload", sender |-> o, payloadHash |-> hashOf[o]]

ApproveTx(h) == [method |-> "approveGateway", sender |-> isp, payloadHash |-> h]

\* POST /register at the ISP: processDomainOwnerRegistration.
Register(o) == /\ main[o] = "start"
               /\ main' = [main EXCEPT ![o] = "registered"]
               /\ storeNewUser(o)
               /\ UNCHANGED <<ownerDb, tasks, ispDb, request, pool, admin, chain>>

\* The listeners are attached, the transaction and the database write are under
\* way; main() waits for neither.
Publish(o) == /\ main[o] = "registered"
              /\ main' = [main EXCEPT ![o] = "published"]
              /\ Send(StoreTx(o))
              /\ UNCHANGED <<ownerDb, tasks, users, ispDb, request, admin, chain>>

\* The database write arrives.
OwnerStoresPayload(o) == /\ main[o] = "published"
                         /\ main' = [main EXCEPT ![o] = "done"]
                         /\ storeNewPayload(o)
                         /\ UNCHANGED <<tasks, users, ispDb, request, pool, admin, chain>>

-------------------------------------------------------------------------------
(* The ISP's POST /authenticate: processGatewayAuthentication.             *)

Answer(o, from, to) == request[o] = from /\ request' = [request EXCEPT ![o] = to]

\* getPayload throws when the ISP has not seen the payload yet: no answer.
ReadPayload(o) ==
    /\ request[o] = "sent"
    /\ IF ~IspHasPayload(hashOf[o]) THEN Answer(o, "sent", "hung")
       ELSE IF IspHasApproved(hashOf[o]) THEN Answer(o, "sent", "denied")
       ELSE Answer(o, "sent", "checking")
    /\ UNCHANGED <<main, ownerDb, tasks, users, ispDb, pool, admin, chain>>

\* The owner is compared with the registered user; getUser throws for an unknown one.
CheckUser(o) ==
    /\ Answer(o, "checking", IF IspHasUser(o) THEN "numbering" ELSE "hung")
    /\ UNCHANGED <<main, ownerDb, tasks, users, ispDb, pool, admin, chain>>

\* approveGateway is sent with a nonce from the shared counter, whose increment, the
\* last step before the answer, is in TxNonce with the rest of its life.
SendApproval(o) ==
    /\ Answer(o, "numbering", "ok")
    /\ Send(ApproveTx(hashOf[o]))
    /\ UNCHANGED <<main, ownerDb, tasks, users, ispDb, admin, chain>>

-------------------------------------------------------------------------------
(* The chain.                                                              *)

Taken(tx) == /\ Take(tx)
             /\ UNCHANGED <<main, ownerDb, tasks, users, ispDb, request, admin>>

MineStore(o) == /\ Taken(StoreTx(o))
                /\ storePayload(o, hashOf[o], gatewayOf[o], isp)

MineApproval(h) == /\ Taken(ApproveTx(h))
                   /\ approveGateway(isp, h, mockIp)

\* The node refuses a transaction, and nobody notices: the ISP's nonce may be wrong, and
\* the owner sends its own as soon as the admin has answered that it has ether, which is
\* before the transfer is mined.
Refuse(tx) == LosesTransactions /\ Taken(tx) /\ UNCHANGED chain

OtherHash == Hash \ {hashOf[o] : o \in Owner}

\* Another account stores, approves and revokes a payload of its own about a gateway.
OtherTransacts(h, g) == /\ \/ storePayload(other, h, g, other)
                           \/ approveGateway(other, h, mockIp)
                           \/ revokeGateway(other, h, g)
                        /\ UNCHANGED actors

-------------------------------------------------------------------------------

OwnerMain(o) == Register(o) \/ Publish(o) \/ OwnerStoresPayload(o)

Isp(o) == ReadPayload(o) \/ CheckUser(o) \/ SendApproval(o)

Events == \/ \E o \in Owner : OwnerDelivers(o)
          \/ IspDelivers
          \/ \E t \in tasks : \/ \E o \in Owner : OwnerPayloadAdded(o, t) \/ OwnerGatewayApproved(o, t)
                              \/ IspPayloadAdded(t) \/ IspGatewayApproved(t)

Mining == \/ \E o \in Owner : MineStore(o) \/ MineApproval(hashOf[o])
          \/ \E tx \in pool : Refuse(tx)

NextAll == \/ \E o \in Owner : OwnerMain(o) \/ Isp(o)
           \/ Events
           \/ Mining
           \/ \E h \in OtherHash, o \in Owner : OtherTransacts(h, gatewayOf[o])

SpecAll == InitAll /\ [][NextAll]_allVars

\* Programs run on, started handlers and requests end, subscriptions deliver, the
\* node mines or refuses.  Nothing makes the other account do anything.
FairSpecAll == /\ SpecAll
               /\ \A o \in Owner : WF_allVars(OwnerMain(o)) /\ WF_allVars(Isp(o))
               /\ WF_allVars(Events)
               /\ WF_allVars(Mining)

-------------------------------------------------------------------------------
(* Properties.                                                             *)

\* Every variable has its type.
TypeOKAll ==
    /\ TypeOK
    /\ main \in [Owner -> {"start", "registered", "published", "done"}]
    /\ \A o \in Owner : ownerDb[o] \in [isStored : BOOLEAN, isApproved : BOOLEAN, known : BOOLEAN]
    /\ \A t \in tasks : t.event \in DOMAIN log /\ t.actor \in Owner \cup {isp}
    /\ users \subseteq Owner
    /\ request \in [Owner -> {"none", "sent", "checking", "numbering", "ok", "denied", "hung"}]
    /\ pool \subseteq {StoreTx(o) : o \in Owner} \cup {ApproveTx(hashOf[o]) : o \in Owner}
    /\ admin \in AnyAddress

\* No local database is ahead of the chain: an entry that says stored or approved
\* is about a payload the contract says is.
DatabasesBehindChain ==
    /\ \A o \in Owner :
          /\ ownerDb[o].isStored => payloads[hashOf[o]].isValue
          /\ ownerDb[o].isApproved => payloads[hashOf[o]].isApproved
    /\ \A h \in Hash :
          /\ ispDb[h].known => payloads[h].isValue /\ payloads[h].approver = isp
          /\ ispDb[h].isApproved => payloads[h].isApproved

\* The gateway the admin hands out is one whose owner's payload the ISP approved.
RegisteredWasApproved ==
    \A g \in Address : admin = g =>
        \E o \in Owner : /\ gatewayOf[o] = g
                         /\ payloads[hashOf[o]].isApproved
                         /\ payloads[hashOf[o]].approver = isp

\* The ISP approves a gateway only for a user who registered with it and sent the
\* payload.
ApprovedWasRequested ==
    \A o \in Owner : payloads[hashOf[o]].isApproved =>
        o \in users /\ request[o] = "ok" /\ ownerDb[o].isStored

\* The ways in which an authentication ends.  The owner told the admin.
Registered(o) ==
    /\ admin # NoAddress
    /\ \E t \in tasks : /\ t.actor = o /\ t.at = "done"
                         /\ EventOf(t).event = "GatewayApproved"
                         /\ EventOf(t).payloadHash = hashOf[o]

\* The node refused the owner's own transaction: its payload is never announced.
NeverAnnounced(o) == /\ main[o] \in {"published", "done"}
                     /\ StoreTx(o) \notin pool
                     /\ ~payloads[hashOf[o]].isValue

\* The owner's handler of its own payload did not find the payload in the database:
\* the event was there before the write.
AnnouncementFailed(o) == \E t \in tasks : /\ t.actor = o /\ t.at = "failed"
                                          /\ EventOf(t).event = "PayloadAdded"
                                          /\ EventOf(t).payloadHash = hashOf[o]

\* The ISP answered 200 and its transaction never made it into a block.
Refused(o) == /\ request[o] = "ok"
              /\ ApproveTx(hashOf[o]) \notin pool
              /\ ~payloads[hashOf[o]].isApproved

Ended(o) == \/ Registered(o) \/ NeverAnnounced(o) \/ AnnouncementFailed(o)
            \/ request[o] = "hung" \/ Refused(o)

\* Nothing is left to do for o: its program, its request and its handlers have ended,
\* no transaction about it is under way and no event is waiting for it.
Settled(o) ==
    /\ main[o] = "done" /\ request[o] \notin {"sent", "checking", "numbering"}
    /\ StoreTx(o) \notin pool /\ ApproveTx(hashOf[o]) \notin pool
    /\ \A i \in DOMAIN log : ForOwner(o, log[i]) =>
           \E t \in tasks : t.actor = o /\ t.event = i /\ t.at \in {"done", "failed"}

\* There is no other way to get stuck: where nothing is left to do for an owner, its
\* gateway is registered, or its own transaction was refused, or its announcement came too
\* early for it, or the ISP never answered, or the ISP's transaction was refused.  In
\* particular no handler skips its work as already done, the ISP denies no owner, and once
\* the approval is in a block nothing can fail any more.
SettledHasEnded == \A o \in Owner : Settled(o) => Ended(o)

\* An owner that starts comes to one of these ends.
AuthenticationEnds == \A o \in Owner : main[o] = "start" ~> Ended(o)

-------------------------------------------------------------------------------
(* Refinement: owners, ISP and contract implement Authentication.          *)

AuthStage(o) == IF ownerDb[o].isApproved THEN "recorded"
             ELSE IF payloads[hashOf[o]].isApproved THEN "approved"
             ELSE IF request[o] = "ok" THEN "vouched"
             ELSE IF payloads[hashOf[o]].isValue THEN "announced" ELSE "none"

Auth == INSTANCE Authentication
            WITH Applicant <- Owner,
                 vetted <- users,
                 stage <- [o \in Owner |-> AuthStage(o)]

\* Owners, ISP and contract together keep the promise of Authentication: the ISP vouches
\* for registered owners whose payload is on the chain, only what it vouched for is
\* approved, and the owner records its own approval and no other account's.
AuthenticationSpec == Auth!Spec
===============================================================================
