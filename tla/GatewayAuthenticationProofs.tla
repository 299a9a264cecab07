---------------------- MODULE GatewayAuthenticationProofs ----------------------
(***************************************************************************)
(* Proofs about GatewayAuthentication, for any owners, payloads of others, *)
(* delivery orders and lost transactions.  The contract's part rests on    *)
(* RegistryLogProofs: a step of the system is a step of the contract or    *)
(* leaves it alone.                                                        *)
(***************************************************************************)
EXTENDS GatewayAuthentication, RegistryLogProofs

LEMMA ConstantsFit ==
    /\ Owner \subseteq Address /\ isp \in Address /\ other \in Address /\ isp \notin Owner
    /\ Address \subseteq AnyAddress /\ NoAddress \notin Address /\ mockIp \in RouterIp
    /\ hashOf \in [Owner -> Hash] /\ gatewayOf \in [Owner -> Address]
    /\ \A o, p \in Owner : hashOf[o] = hashOf[p] => o = p
  BY GatewayAuthenticationAssumption, RegistryAssumption DEF AnyAddress, RouterIp

\* What the chain does in one step of the system.
LEMMA ChainSteps == ASSUME [NextAll]_allVars PROVE [Next]_vars
<1>1. ASSUME NEW o \in Owner, MineStore(o) PROVE Next
  BY <1>1, ConstantsFit DEF MineStore, Next, Transact
<1>2. ASSUME NEW o \in Owner, MineApproval(hashOf[o]) PROVE Next
  BY <1>2, ConstantsFit DEF MineApproval, Next, Transact
<1>3. ASSUME NEW h \in OtherHash, NEW o \in Owner, OtherTransacts(h, gatewayOf[o]) PROVE Next
  <2>1. h \in Hash /\ gatewayOf[o] \in AnyAddress
    BY ConstantsFit DEF OtherHash
  <2> QED
    BY <1>3, <2>1, ConstantsFit DEF OtherTransacts, Next, Transact
<1>4. ASSUME NEW o \in Owner, OwnerMain(o) \/ Isp(o) PROVE UNCHANGED chain
  BY <1>4 DEF OwnerMain, Register, Publish, OwnerStoresPayload, Isp, ReadPayload, CheckUser,
     SendApproval
<1>5. CASE Events
  <2>1. UNCHANGED chain
    BY <1>5 DEF Events, OwnerDelivers, IspDelivers, OwnerPayloadAdded, OwnerGatewayApproved,
       IspPayloadAdded, IspGatewayApproved
  <2> QED
    BY <2>1 DEF chain, vars
<1>6. CASE UNCHANGED allVars
  BY <1>6 DEF allVars, chain, vars
<1>7. ASSUME NEW tx \in pool, Refuse(tx) PROVE UNCHANGED chain
  BY <1>7 DEF Refuse
<1> QED
  BY <1>1, <1>2, <1>3, <1>4, <1>5, <1>6, <1>7 DEF NextAll, Mining, chain, vars

-------------------------------------------------------------------------------
(* The invariant.                                                          *)

EntryType == [isStored : BOOLEAN, isApproved : BOOLEAN, known : BOOLEAN]

\* A handler runs for an event that its actor's listener lets through, and holds what
\* it needs for what it does next.
OwnerTask(t) ==
    /\ t.event \in DOMAIN log
    /\ t.at = "replace" => t.entry \in EntryType
    /\ EventOf(t).event = "PayloadAdded" =>
          /\ t.at = "replace" => /\ EventOf(t).payloadHash = hashOf[t.actor] /\ ownerDb[t.actor].known
                                 /\ t.entry.isApproved => payloads[hashOf[t.actor]].isApproved
          /\ t.at = "send" => /\ EventOf(t).payloadHash = hashOf[t.actor]
                              /\ ownerDb[t.actor].isStored
    /\ EventOf(t).event = "GatewayApproved" /\ t.at \in {"replace", "register"} =>
              /\ EventOf(t).payloadHash = hashOf[t.actor]
              /\ t.at = "replace" => t.entry.isStored /\ ownerDb[t.actor].known

IspTask(t) ==
    /\ t.event \in DOMAIN log
    /\ t.at = "replace" => t.entry \in EntryType
    /\ EventOf(t).event = "PayloadAdded" => EventOf(t).approver = isp
    /\ EventOf(t).event = "GatewayApproved" /\ t.at = "replace" =>
          ispDb[EventOf(t).payloadHash].known

TasksFit == \A t \in tasks : /\ t.actor \in Owner => OwnerTask(t)
                             /\ t.actor \notin Owner => t.actor = isp /\ IspTask(t)

\* Each event is handled once by each actor.
HandledOnce == \A t, u \in tasks : t.actor = u.actor /\ t.event = u.event => t = u

PartiesKnown ==
    \A o \in Owner : payloads[hashOf[o]].isValue =>
        payloads[hashOf[o]].target = gatewayOf[o] /\ payloads[hashOf[o]].approver = isp

EntriesFit ==
    /\ ownerDb \in [Owner -> EntryType] /\ ispDb \in [Hash -> EntryType]
    /\ main \in [Owner -> {"start", "registered", "published", "done"}]
    /\ \A o \in Owner : /\ ownerDb[o].isStored \/ ownerDb[o].isApproved => ownerDb[o].known
                        /\ ownerDb[o].known => main[o] = "done"

\* The handler of o's own announcement has sent the request.
HasSent(o) == \E t \in tasks : /\ t.actor = o /\ t.at = "done"
                               /\ EventOf(t).event = "PayloadAdded"
                               /\ EventOf(t).payloadHash = hashOf[o]

\* How a request comes to be approved.
RequestsFit ==
    /\ request \in [Owner -> {"none", "sent", "checking", "numbering", "ok", "denied", "hung"}]
    /\ users \subseteq Owner
    /\ pool \subseteq {StoreTx(o) : o \in Owner} \cup {ApproveTx(hashOf[o]) : o \in Owner}
    /\ \A o \in Owner :
          /\ request[o] # "none" => ownerDb[o].isStored /\ HasSent(o)
          /\ request[o] \in {"numbering", "ok"} => o \in users
          /\ ApproveTx(hashOf[o]) \in pool => request[o] = "ok"
          /\ payloads[hashOf[o]].isApproved => request[o] = "ok"

AdminFits == admin = NoAddress \/ \E o \in Owner : /\ admin = gatewayOf[o]
                                                   /\ payloads[hashOf[o]].isApproved

ActorInv == /\ TasksFit /\ HandledOnce /\ PartiesKnown /\ EntriesFit /\ DatabasesBehindChain
            /\ RequestsFit /\ AdminFits

\* What holds of the actors is kept by a step of the chain alone that approves nothing
\* of an owner's.
LEMMA ActorInvFrame ==
    ASSUME LogInv, LogInv', [Next]_vars, ActorInv,
           UNCHANGED <<main, ownerDb, tasks, users, ispDb, request, admin>>,
           pool' \subseteq pool,
           \A o \in Owner : /\ payloads'[hashOf[o]].isApproved =>
                                  payloads[hashOf[o]].isApproved \/ request[o] = "ok"
                            /\ payloads'[hashOf[o]].isValue =>
                                  \/ payloads[hashOf[o]].isValue
                                  \/ /\ payloads'[hashOf[o]].target = gatewayOf[o]
                                     /\ payloads'[hashOf[o]].approver = isp
    PROVE  ActorInv'
<1>a. /\ TasksFit /\ HandledOnce /\ PartiesKnown /\ EntriesFit /\ DatabasesBehindChain
      /\ RequestsFit /\ AdminFits
  BY DEF ActorInv
<1>0. /\ DOMAIN log \subseteq DOMAIN log'
      /\ \A i \in DOMAIN log : log'[i] = log[i]
      /\ \A h \in Hash : /\ payloads[h].isValue => payloads'[h].isValue
                         /\ payloads[h].isApproved => payloads'[h].isApproved
                         /\ payloads[h].isValue => SameParties(payloads'[h], payloads[h])
      /\ \A o \in Owner : hashOf[o] \in Hash
  BY ChainGrows, ConstantsFit
<1>t. \A t \in tasks : t.event \in DOMAIN log /\ EventOf(t)' = EventOf(t)
  <2>1. \A t \in tasks : t.event \in DOMAIN log
    BY <1>a DEF TasksFit, OwnerTask, IspTask
  <2> QED
    BY <1>0, <2>1 DEF EventOf
<1>1. TasksFit'
  <2>1. ASSUME NEW t \in tasks, t.actor \in Owner PROVE OwnerTask(t)'
    BY <1>0, <1>a, <1>t, <2>1 DEF TasksFit, OwnerTask
  <2>2. ASSUME NEW t \in tasks, t.actor \notin Owner PROVE t.actor = isp /\ IspTask(t)'
    BY <1>0, <1>a, <1>t, <2>2 DEF TasksFit, IspTask
  <2> QED
    BY <2>1, <2>2 DEF TasksFit
<1>2. HandledOnce'
  BY <1>a DEF HandledOnce
<1>3. PartiesKnown'
  BY <1>a, <1>0 DEF PartiesKnown, SameParties
<1>4. EntriesFit'
  BY <1>a DEF EntriesFit
<1>5. DatabasesBehindChain'
  BY <1>a, <1>0 DEF DatabasesBehindChain, SameParties
<1>6. RequestsFit'
  <2>2. \A o \in Owner : HasSent(o) => HasSent(o)'
    BY <1>t DEF HasSent
  <2> QED
    BY <1>a, <2>2 DEF RequestsFit, ApproveTx, StoreTx
<1>7. AdminFits'
  BY <1>a, <1>0 DEF AdminFits
<1> QED
  BY <1>1, <1>2, <1>3, <1>4, <1>5, <1>6, <1>7 DEF ActorInv

\* The databases forget nothing that a running handler relies on.
DatabasesKeep ==
    /\ \A o \in Owner : /\ ownerDb[o].known => ownerDb'[o].known
                        /\ ownerDb[o].isStored => ownerDb'[o].isStored
    /\ \A h \in Hash : ispDb[h].known => ispDb'[h].known

\* A handler that goes on, or starts, leaves the others as they are.
LEMMA TasksStep ==
    ASSUME LogInv, TasksFit, HandledOnce, UNCHANGED chain, DatabasesKeep,
           NEW old \in SUBSET tasks, NEW new, tasks' = (tasks \ old) \cup {new},
           \A u \in tasks \ old : ~(u.actor = new.actor /\ u.event = new.event),
           IF new.actor \in Owner THEN OwnerTask(new)' ELSE new.actor = isp /\ IspTask(new)'
    PROVE  /\ TasksFit' /\ HandledOnce'
           /\ \A o \in Owner : (\A t \in old : t.at # "done") /\ HasSent(o) => HasSent(o)'
<1>0. UNCHANGED <<log, payloads>>
  BY DEF chain
<1>1. ASSUME NEW u \in tasks, u.actor \in Owner PROVE OwnerTask(u)'
  BY <1>0, <1>1 DEF TasksFit, OwnerTask, EventOf, DatabasesKeep
<1>2. ASSUME NEW u \in tasks, u.actor \notin Owner PROVE u.actor = isp /\ IspTask(u)'
  <2>1. EventOf(u).payloadHash \in Hash /\ u.actor = isp /\ IspTask(u) /\ EventOf(u)' = EventOf(u)
    BY <1>0, <1>2, EventFacts DEF TasksFit, IspTask, EventOf
  <2> QED
    BY <1>0, <1>2, <2>1 DEF IspTask, DatabasesKeep
<1>3. TasksFit'
  BY <1>1, <1>2 DEF TasksFit
<1>4. HandledOnce'
  BY DEF HandledOnce
<1>5. \A o \in Owner : (\A t \in old : t.at # "done") /\ HasSent(o) => HasSent(o)'
  BY <1>0 DEF HasSent, EventOf
<1> QED
  BY <1>3, <1>4, <1>5

\* Delivering an event starts a handler.
LEMMA DeliverStep ==
    ASSUME LogInv, ActorInv, UNCHANGED chain, NEW actor \in Owner \cup {isp}, NEW i \in DOMAIN log,
           actor = isp /\ log[i].event = "PayloadAdded" => log[i].approver = isp,
           Deliver(actor, i, NoEntry),
           UNCHANGED <<main, ownerDb, users, ispDb, request, pool, admin>>
    PROVE  ActorInv'
<1> DEFINE new == Task(actor, i, "check", NoEntry)
<1>a. /\ TasksFit /\ HandledOnce /\ PartiesKnown /\ EntriesFit /\ DatabasesBehindChain
      /\ RequestsFit /\ AdminFits /\ UNCHANGED <<log, payloads>>
  BY DEF ActorInv, chain
<1>1. DatabasesKeep
  BY DEF DatabasesKeep
<1>2. /\ tasks' = (tasks \ {}) \cup {new}
      /\ \A u \in tasks \ {} : ~(u.actor = new.actor /\ u.event = new.event)
  BY DEF Deliver, Task
<1>3. IF new.actor \in Owner THEN OwnerTask(new)' ELSE new.actor = isp /\ IspTask(new)'
  BY <1>a DEF Task, OwnerTask, IspTask, EventOf
<1>4. /\ TasksFit' /\ HandledOnce'
      /\ \A o \in Owner : HasSent(o) => HasSent(o)'
  <2>1. {} \in SUBSET tasks /\ \A t \in {} : t.at # "done"
    OBVIOUS
  <2> QED
    BY <1>a, <1>1, <1>2, <1>3, <2>1, TasksStep
<1>5. PartiesKnown' /\ EntriesFit' /\ DatabasesBehindChain' /\ AdminFits'
  BY <1>a DEF PartiesKnown, EntriesFit, DatabasesBehindChain, AdminFits
<1>6. RequestsFit'
  BY <1>a, <1>4 DEF RequestsFit, StoreTx, ApproveTx
<1> QED
  BY <1>4, <1>5, <1>6 DEF ActorInv

\* One await of a handler, for what it has in common with the others.
LEMMA HandlerStep ==
    ASSUME LogInv, TasksFit, HandledOnce, UNCHANGED chain, DatabasesKeep,
           NEW t \in tasks, NEW at, NEW entry, Step(t, at, entry), t.at # "done",
           LET new == Task(t.actor, t.event, at, entry)
           IN IF t.actor \in Owner THEN OwnerTask(new)' ELSE IspTask(new)'
    PROVE  /\ TasksFit' /\ HandledOnce'
           /\ \A o \in Owner : HasSent(o) => HasSent(o)'
<1> DEFINE new == Task(t.actor, t.event, at, entry)
<1>1. new.actor = t.actor /\ new.event = t.event
  BY DEF Task
<1>2. tasks' = (tasks \ {t}) \cup {new} /\ {t} \in SUBSET tasks
  BY DEF Step
<1>3. \A u \in tasks \ {t} : ~(u.actor = new.actor /\ u.event = new.event)
  BY <1>1 DEF HandledOnce
<1>4. IF new.actor \in Owner THEN OwnerTask(new)' ELSE new.actor = isp /\ IspTask(new)'
  BY <1>1 DEF TasksFit
<1> QED
  BY <1>2, <1>3, <1>4, TasksStep

-------------------------------------------------------------------------------
(* The event handlers.                                                     *)

LEMMA OwnerPayloadAddedStep ==
    ASSUME LogInv, ActorInv, NEW o \in Owner, NEW t \in tasks, OwnerPayloadAdded(o, t)
    PROVE  ActorInv'
<1> DEFINE h == EventOf(t).payloadHash
<1>a. /\ TasksFit /\ HandledOnce /\ PartiesKnown /\ EntriesFit /\ DatabasesBehindChain
      /\ RequestsFit /\ AdminFits
  BY DEF ActorInv
<1>b. /\ t.actor = o /\ EventOf(t).event = "PayloadAdded" /\ OwnerTask(t)
      /\ t.event \in DOMAIN log
      /\ h \in Hash /\ payloads[h].isValue
      /\ UNCHANGED chain /\ UNCHANGED <<log, payloads, main, users, ispDb, pool, admin>>
  BY <1>a, EventFacts DEF OwnerPayloadAdded, TasksFit, OwnerTask, EventOf, chain
<1>c. PartiesKnown' /\ AdminFits'
  BY <1>b, <1>a DEF PartiesKnown, AdminFits
<1>1. CASE t.at \in {"check", "get"}
  <2>1. PICK at, entry :
            /\ Step(t, at, entry) /\ at \in {"done", "get", "replace", "failed"}
            /\ at = "replace" => h = hashOf[o] /\ ownerDb[o].known /\ entry = ownerDb[o]
    BY <1>1, <1>b DEF OwnerPayloadAdded, Look, OwnerEntry, NoEntry
  <2>2. UNCHANGED <<ownerDb, request>>
    BY <1>1, <1>b DEF OwnerPayloadAdded
  <2>3. OwnerTask(Task(t.actor, t.event, at, entry))'
    BY <1>a, <1>b, <2>1, <2>2 DEF OwnerTask, Task, EventOf, DatabasesBehindChain, EntriesFit
  <2>4. /\ TasksFit' /\ HandledOnce'
        /\ \A p \in Owner : HasSent(p) => HasSent(p)'
    BY <1>1, <1>a, <1>b, <2>1, <2>2, <2>3, HandlerStep DEF DatabasesKeep
  <2>5. EntriesFit' /\ DatabasesBehindChain'
    BY <1>a, <1>b, <2>2 DEF EntriesFit, DatabasesBehindChain
  <2>6. RequestsFit'
    BY <1>a, <1>b, <2>2, <2>4 DEF RequestsFit, StoreTx, ApproveTx
  <2> QED
    BY <1>c, <2>4, <2>5, <2>6 DEF ActorInv
<1>2. CASE t.at = "replace"
  <2>1. /\ ownerDb' = [ownerDb EXCEPT ![o] = Entry(TRUE, t.entry.isApproved)]
        /\ Step(t, "send", NoEntry) /\ UNCHANGED request
    BY <1>2 DEF OwnerPayloadAdded, Look, updatePayloadStateToStored
  <2>2. /\ h = hashOf[o] /\ ownerDb[o].known /\ t.entry \in EntryType
        /\ t.entry.isApproved => payloads[hashOf[o]].isApproved
    BY <1>2, <1>b DEF OwnerTask
  <2>3. /\ ownerDb'[o].isStored /\ ownerDb'[o].known
        /\ ownerDb'[o].isApproved <=> t.entry.isApproved
        /\ \A p \in Owner \ {o} : ownerDb'[p] = ownerDb[p]
    BY <1>a, <2>1 DEF EntriesFit, Entry
  <2>4. OwnerTask(Task(t.actor, t.event, "send", NoEntry))'
    BY <1>b, <2>2, <2>3 DEF OwnerTask, Task, EventOf
  <2>5. DatabasesKeep
    BY <1>b, <2>3 DEF DatabasesKeep
  <2>6. /\ TasksFit' /\ HandledOnce'
        /\ \A p \in Owner : HasSent(p) => HasSent(p)'
    BY <1>2, <1>a, <1>b, <2>1, <2>4, <2>5, HandlerStep
  <2>7. EntriesFit'
    BY <1>a, <1>b, <2>1, <2>2, <2>3 DEF EntriesFit, EntryType, Entry
  <2>8. DatabasesBehindChain'
    BY <1>a, <1>b, <2>2, <2>3 DEF DatabasesBehindChain
  <2>9. RequestsFit'
    BY <1>a, <1>b, <2>1, <2>3, <2>6 DEF RequestsFit, StoreTx, ApproveTx
  <2> QED
    BY <1>c, <2>6, <2>7, <2>8, <2>9 DEF ActorInv
<1>3. CASE t.at = "send"
  <2>1. /\ request' = [request EXCEPT ![o] = "sent"]
        /\ Step(t, "done", NoEntry) /\ UNCHANGED ownerDb
    BY <1>3 DEF OwnerPayloadAdded, Look, sendAuthenticationPayloadToIsp
  <2>2. h = hashOf[o] /\ ownerDb[o].isStored
    BY <1>3, <1>b DEF OwnerTask
  <2>3. ~HasSent(o)
    <3> SUFFICES ASSUME NEW u \in tasks, u.actor = o, u.at = "done",
                        EventOf(u).event = "PayloadAdded", EventOf(u).payloadHash = hashOf[o]
                 PROVE  FALSE
      BY DEF HasSent
    <3>1. u.event \in DOMAIN log
      BY <1>a DEF TasksFit, OwnerTask
    <3>2. u.event = t.event
      BY <1>b, <2>2, <3>1, AddedOnce DEF EventOf
    <3>3. u = t
      BY <1>a, <1>b, <3>2 DEF HandledOnce
    <3> QED
      BY <1>3, <3>3
  <2>4. request[o] = "none" /\ ApproveTx(hashOf[o]) \notin pool /\ ~payloads[hashOf[o]].isApproved
    BY <1>a, <2>3 DEF RequestsFit
  <2>5. OwnerTask(Task(t.actor, t.event, "done", NoEntry))'
    BY <1>b DEF OwnerTask, Task, EventOf
  <2>6. /\ TasksFit' /\ HandledOnce'
        /\ \A p \in Owner : HasSent(p) => HasSent(p)'
    BY <1>3, <1>a, <1>b, <2>1, <2>5, HandlerStep DEF DatabasesKeep
  <2>7. HasSent(o)'
    <3> DEFINE new == Task(t.actor, t.event, "done", NoEntry)
    <3>1. /\ new \in tasks' /\ new.actor = o /\ new.at = "done" /\ EventOf(new)' = EventOf(t)
      BY <1>b, <2>1 DEF Step, Task, EventOf
    <3> QED
      BY <1>b, <2>2, <3>1 DEF HasSent
  <2>8. EntriesFit' /\ DatabasesBehindChain'
    BY <1>a, <1>b, <2>1 DEF EntriesFit, DatabasesBehindChain
  <2>9. RequestsFit'
    <3>1. /\ request'[o] = "sent" /\ \A p \in Owner \ {o} : request'[p] = request[p]
          /\ request' \in [Owner -> {"none", "sent", "checking", "numbering", "ok", "denied", "hung"}]
      BY <1>a, <2>1 DEF RequestsFit
    <3> QED
      BY <1>a, <1>b, <2>1, <2>2, <2>4, <2>6, <2>7, <3>1 DEF RequestsFit, StoreTx, ApproveTx
  <2> QED
    BY <1>c, <2>6, <2>8, <2>9 DEF ActorInv
<1> QED
  BY <1>1, <1>2, <1>3 DEF OwnerPayloadAdded, Look

LEMMA OwnerGatewayApprovedStep ==
    ASSUME LogInv, ActorInv, NEW o \in Owner, NEW t \in tasks, OwnerGatewayApproved(o, t)
    PROVE  ActorInv'
<1> DEFINE h == EventOf(t).payloadHash
<1>a. /\ TasksFit /\ HandledOnce /\ PartiesKnown /\ EntriesFit /\ DatabasesBehindChain
      /\ RequestsFit /\ AdminFits
  BY DEF ActorInv
<1>b. /\ t.actor = o /\ EventOf(t).event = "GatewayApproved" /\ OwnerTask(t)
      /\ t.event \in DOMAIN log
      /\ h \in Hash /\ payloads[h].isApproved
      /\ UNCHANGED chain /\ UNCHANGED <<log, payloads, main, users, ispDb, request, pool>>
  BY <1>a, EventFacts DEF OwnerGatewayApproved, TasksFit, OwnerTask, EventOf, chain, Approvals
<1>c. PartiesKnown'
  BY <1>b, <1>a DEF PartiesKnown
<1>d. h = hashOf[o] => ownerDb[o].isStored
  BY <1>a, <1>b DEF RequestsFit
<1>1. CASE t.at \in {"check", "get"}
  <2>1. PICK at, entry :
            /\ Step(t, at, entry) /\ at \in {"done", "get", "replace", "failed"}
            /\ at = "replace" => h = hashOf[o] /\ ownerDb[o].known /\ entry = ownerDb[o]
    BY <1>1, <1>b DEF OwnerGatewayApproved, Look, OwnerEntry, NoEntry, ApprovedByItsApprover
  <2>2. UNCHANGED <<ownerDb, admin>>
    BY <1>1, <1>b DEF OwnerGatewayApproved
  <2>3. OwnerTask(Task(t.actor, t.event, at, entry))'
    BY <1>a, <1>b, <1>d, <2>1, <2>2 DEF OwnerTask, Task, EventOf, EntriesFit
  <2>4. /\ TasksFit' /\ HandledOnce'
        /\ \A p \in Owner : HasSent(p) => HasSent(p)'
    BY <1>1, <1>a, <1>b, <2>1, <2>2, <2>3, HandlerStep DEF DatabasesKeep
  <2>5. EntriesFit' /\ DatabasesBehindChain' /\ AdminFits'
    BY <1>a, <1>b, <2>2 DEF EntriesFit, DatabasesBehindChain, AdminFits
  <2>6. RequestsFit'
    BY <1>a, <1>b, <2>2, <2>4 DEF RequestsFit, StoreTx, ApproveTx
  <2> QED
    BY <1>c, <2>4, <2>5, <2>6 DEF ActorInv
<1>2. CASE t.at = "replace"
  <2>1. /\ ownerDb' = [ownerDb EXCEPT ![o] = Entry(t.entry.isStored, TRUE)]
        /\ Step(t, "register", NoEntry) /\ UNCHANGED admin
    BY <1>2 DEF OwnerGatewayApproved, Look, updatePayloadStateToApproved
  <2>2. h = hashOf[o] /\ ownerDb[o].known /\ t.entry.isStored
    BY <1>2, <1>b DEF OwnerTask
  <2>3. /\ ownerDb'[o].isStored /\ ownerDb'[o].known /\ ownerDb'[o].isApproved
        /\ \A p \in Owner \ {o} : ownerDb'[p] = ownerDb[p]
    BY <1>a, <2>1, <2>2 DEF EntriesFit, Entry
  <2>4. OwnerTask(Task(t.actor, t.event, "register", NoEntry))'
    BY <1>b, <2>2, <2>3 DEF OwnerTask, Task, EventOf
  <2>5. DatabasesKeep
    BY <1>b, <2>3 DEF DatabasesKeep
  <2>6. /\ TasksFit' /\ HandledOnce'
        /\ \A p \in Owner : HasSent(p) => HasSent(p)'
    BY <1>2, <1>a, <1>b, <2>1, <2>4, <2>5, HandlerStep
  <2>7. EntriesFit' /\ AdminFits'
    BY <1>a, <1>b, <2>1, <2>2, <2>3 DEF EntriesFit, EntryType, Entry, AdminFits
  <2>8. DatabasesBehindChain'
    <3>1. payloads[hashOf[o]].isValue
      BY <1>a, <1>d, <2>2 DEF DatabasesBehindChain
    <3> QED
      BY <1>a, <1>b, <2>2, <2>3, <3>1 DEF DatabasesBehindChain
  <2>9. RequestsFit'
    BY <1>a, <1>b, <2>1, <2>3, <2>6 DEF RequestsFit, StoreTx, ApproveTx
  <2> QED
    BY <1>c, <2>6, <2>7, <2>8, <2>9 DEF ActorInv
<1>3. CASE t.at = "register"
  <2>1. admin' = gatewayOf[o] /\ Step(t, "done", NoEntry) /\ UNCHANGED ownerDb
    BY <1>3 DEF OwnerGatewayApproved, Look, registerGatewayToAdmin
  <2>2. h = hashOf[o]
    BY <1>3, <1>b DEF OwnerTask
  <2>3. AdminFits'
    BY <1>b, <2>1, <2>2 DEF AdminFits
  <2>4. OwnerTask(Task(t.actor, t.event, "done", NoEntry))'
    BY <1>b DEF OwnerTask, Task, EventOf
  <2>5. /\ TasksFit' /\ HandledOnce'
        /\ \A p \in Owner : HasSent(p) => HasSent(p)'
    BY <1>3, <1>a, <1>b, <2>1, <2>4, HandlerStep DEF DatabasesKeep
  <2>6. EntriesFit' /\ DatabasesBehindChain'
    BY <1>a, <1>b, <2>1 DEF EntriesFit, DatabasesBehindChain
  <2>7. RequestsFit'
    BY <1>a, <1>b, <2>1, <2>5 DEF RequestsFit, StoreTx, ApproveTx
  <2> QED
    BY <1>c, <2>3, <2>5, <2>6, <2>7 DEF ActorInv
<1> QED
  BY <1>1, <1>2, <1>3 DEF OwnerGatewayApproved, Look


LEMMA IspHandlerStep ==
    ASSUME LogInv, ActorInv, NEW t \in tasks, IspPayloadAdded(t) \/ IspGatewayApproved(t)
    PROVE  ActorInv'
<1> DEFINE h == EventOf(t).payloadHash
<1>a. /\ TasksFit /\ HandledOnce /\ PartiesKnown /\ EntriesFit /\ DatabasesBehindChain
      /\ RequestsFit /\ AdminFits
  BY DEF ActorInv
<1>b. /\ t.actor = isp /\ isp \notin Owner /\ IspTask(t)
      /\ t.event \in DOMAIN log /\ h \in Hash
      /\ UNCHANGED chain
      /\ UNCHANGED <<log, payloads, main, ownerDb, users, request, pool, admin>>
  BY <1>a, EventFacts, ConstantsFit
     DEF IspPayloadAdded, IspGatewayApproved, TasksFit, IspTask, EventOf, chain
<1>1. PICK at, entry :
          /\ Step(t, at, entry) /\ t.at # "done"
          /\ at \in {"done", "get", "set", "replace", "failed"}
          /\ at = "replace" => ispDb[h].known /\ entry = ispDb[h]
          /\ \/ ispDb' = ispDb
             \/ /\ ispDb' = [ispDb EXCEPT ![h] = Entry(TRUE, FALSE)]
                /\ payloads[h].isValue /\ payloads[h].approver = isp /\ at = "done"
             \/ /\ ispDb' = [ispDb EXCEPT ![h] = Entry(t.entry.isStored, TRUE)]
                /\ payloads[h].isApproved /\ ispDb[h].known /\ t.entry \in EntryType /\ at = "done"
  <2>1. CASE IspPayloadAdded(t)
    <3>1. payloads[h].isValue /\ payloads[h].approver = isp
      BY <1>b, <2>1, EventFacts DEF IspPayloadAdded, IspTask, EventOf
    <3> QED
      BY <2>1, <3>1 DEF IspPayloadAdded, IspStoresPayload
  <2>2. CASE IspGatewayApproved(t)
    <3>1. payloads[h].isApproved /\ EventOf(t).event = "GatewayApproved"
      BY <1>b, <2>2, EventFacts DEF IspGatewayApproved, EventOf, Approvals
    <3>2. CASE t.at = "replace"
      BY <1>b, <2>2, <3>1, <3>2 DEF IspGatewayApproved, IspUpdatesPayload, Look, IspTask
    <3>3. CASE t.at # "replace"
      BY <1>b, <2>2, <3>3 DEF IspGatewayApproved, IspHasPayload, Look
    <3> QED
      BY <3>2, <3>3
  <2> QED
    BY <2>1, <2>2
<1>2. /\ ispDb' \in [Hash -> EntryType]
      /\ \A g \in Hash : /\ ispDb[g].known => ispDb'[g].known
                         /\ ispDb'[g].known => payloads[g].isValue /\ payloads[g].approver = isp
                         /\ ispDb'[g].isApproved => payloads[g].isApproved
  <2>1. CASE ispDb' = ispDb
    BY <1>a, <2>1 DEF EntriesFit, DatabasesBehindChain
  <2>2. ASSUME NEW e \in EntryType, ispDb' = [ispDb EXCEPT ![h] = e], e.known,
               payloads[h].isValue, payloads[h].approver = isp,
               e.isApproved => payloads[h].isApproved
        PROVE  /\ ispDb' \in [Hash -> EntryType]
               /\ \A g \in Hash : /\ ispDb[g].known => ispDb'[g].known
                                  /\ ispDb'[g].known => /\ payloads[g].isValue
                                                        /\ payloads[g].approver = isp
                                  /\ ispDb'[g].isApproved => payloads[g].isApproved
    BY <1>a, <1>b, <2>2 DEF EntriesFit, DatabasesBehindChain
  <2>3. /\ Entry(TRUE, FALSE) \in EntryType
        /\ Entry(TRUE, FALSE).known /\ ~Entry(TRUE, FALSE).isApproved
    BY DEF Entry, EntryType
  <2>4. t.entry \in EntryType => /\ Entry(t.entry.isStored, TRUE) \in EntryType
                                 /\ Entry(t.entry.isStored, TRUE).known
    BY DEF Entry, EntryType
  <2>5. ispDb[h].known => payloads[h].isValue /\ payloads[h].approver = isp
    BY <1>a, <1>b DEF DatabasesBehindChain
  <2> QED
    BY <1>1, <2>1, <2>2, <2>3, <2>4, <2>5
<1>3. IspTask(Task(t.actor, t.event, at, entry))'
  <2> DEFINE new == Task(t.actor, t.event, at, entry)
  <2>1. at = "replace" => entry \in EntryType /\ ispDb'[h].known
    BY <1>1, <1>2, <1>a, <1>b DEF EntriesFit
  <2>2. new.event = t.event /\ new.at = at /\ new.entry = entry /\ EventOf(new)' = EventOf(t)
    BY <1>b DEF Task, EventOf
  <2> QED
    BY <2>1, <2>2, <1>b DEF IspTask
<1>4. /\ TasksFit' /\ HandledOnce'
      /\ \A p \in Owner : HasSent(p) => HasSent(p)'
  <2>1. DatabasesKeep /\ Step(t, at, entry) /\ t.at # "done"
    BY <1>1, <1>2, <1>b DEF DatabasesKeep
  <2> QED
    BY <2>1, <1>3, <1>a, <1>b, HandlerStep
<1>5. EntriesFit' /\ DatabasesBehindChain' /\ AdminFits' /\ PartiesKnown'
  BY <1>a, <1>b, <1>2 DEF EntriesFit, DatabasesBehindChain, AdminFits, PartiesKnown
<1>6. RequestsFit'
  BY <1>a, <1>b, <1>4 DEF RequestsFit, StoreTx, ApproveTx
<1> QED
  BY <1>4, <1>5, <1>6 DEF ActorInv

-------------------------------------------------------------------------------
(* The other steps.                                                        *)

\* Registering, publishing, the write of the owner's entry, and the ISP's answers.
LEMMA ProgramStep ==
    ASSUME LogInv, ActorInv, NEW o \in Owner, OwnerMain(o) \/ Isp(o)
    PROVE  ActorInv'
<1>a. /\ TasksFit /\ HandledOnce /\ PartiesKnown /\ EntriesFit /\ DatabasesBehindChain
      /\ RequestsFit /\ AdminFits
  BY DEF ActorInv
<1>b. /\ UNCHANGED chain /\ UNCHANGED <<log, payloads, tasks, ispDb, admin>>
  BY DEF OwnerMain, Register, Publish, OwnerStoresPayload, Isp, ReadPayload, CheckUser, SendApproval,
     chain
<1>c. HandledOnce' /\ PartiesKnown' /\ AdminFits' /\ \A p \in Owner : HasSent(p)' = HasSent(p)
  BY <1>a, <1>b DEF HandledOnce, PartiesKnown, AdminFits, HasSent, EventOf
<1>1. CASE Register(o) \/ Publish(o)
  <2>1. /\ UNCHANGED <<ownerDb, request>> /\ users' \subseteq Owner /\ users \subseteq users'
        /\ pool' = pool \/ pool' = pool \cup {StoreTx(o)}
        /\ main'= [main EXCEPT ![o] = main'[o]]
        /\ main'[o] \in {"registered", "published"} /\ main[o] # "done"
    BY <1>a, <1>1 DEF Register, Publish, RequestsFit, EntriesFit, storeNewUser, Send
  <2>2. TasksFit' /\ DatabasesBehindChain'
    BY <1>a, <1>b, <2>1 DEF TasksFit, OwnerTask, IspTask, EventOf, DatabasesBehindChain
  <2>3. EntriesFit'
    BY <1>a, <1>b, <2>1 DEF EntriesFit
  <2>4. RequestsFit'
    BY <1>a, <1>b, <1>c, <2>1 DEF RequestsFit, StoreTx, ApproveTx
  <2> QED
    BY <1>c, <2>2, <2>3, <2>4 DEF ActorInv
<1>2. CASE OwnerStoresPayload(o)
  <2>1. /\ main[o] = "published" /\ main' = [main EXCEPT ![o] = "done"]
        /\ ownerDb' = [ownerDb EXCEPT ![o] = Entry(FALSE, FALSE)]
        /\ UNCHANGED <<request, users, pool>>
    BY <1>2 DEF OwnerStoresPayload, storeNewPayload
  <2>2. ~ownerDb[o].known /\ ~ownerDb[o].isStored /\ request[o] = "none"
    BY <1>a, <2>1 DEF EntriesFit, RequestsFit
  <2>3. /\ ownerDb' \in [Owner -> EntryType] /\ ownerDb'[o] = Entry(FALSE, FALSE)
        /\ \A p \in Owner \ {o} : ownerDb'[p] = ownerDb[p]
    BY <1>a, <2>1 DEF EntriesFit, Entry, EntryType
  <2>4. TasksFit'
    <3>1. ASSUME NEW t \in tasks, t.actor \in Owner PROVE OwnerTask(t)'
      BY <1>a, <1>b, <2>2, <2>3, <3>1 DEF TasksFit, OwnerTask, EventOf
    <3>2. ASSUME NEW t \in tasks, t.actor \notin Owner PROVE t.actor = isp /\ IspTask(t)'
      BY <1>a, <1>b, <3>2 DEF TasksFit, IspTask, EventOf
    <3> QED
      BY <1>b, <3>1, <3>2 DEF TasksFit
  <2>5. DatabasesBehindChain' /\ EntriesFit'
    BY <1>a, <1>b, <2>1, <2>3 DEF DatabasesBehindChain, EntriesFit, Entry
  <2>6. RequestsFit'
    BY <1>a, <1>b, <1>c, <2>1, <2>2, <2>3 DEF RequestsFit
  <2> QED
    BY <1>c, <2>4, <2>5, <2>6 DEF ActorInv
<1>3. CASE Isp(o)
  <2>1. /\ UNCHANGED <<main, ownerDb, users>>
        /\ request[o] \in {"sent", "checking", "numbering"}
        /\ \E answer \in {"checking", "numbering", "ok", "denied", "hung"} :
              /\ request' = [request EXCEPT ![o] = answer]
              /\ answer \in {"numbering", "ok"} => o \in users
              /\ pool' = IF answer = "ok" THEN pool \cup {ApproveTx(hashOf[o])} ELSE pool
    BY <1>3, <1>a DEF Isp, ReadPayload, CheckUser, SendApproval, Answer, Send, IspHasUser, RequestsFit
  <2>2. TasksFit' /\ DatabasesBehindChain' /\ EntriesFit'
    BY <1>a, <1>b, <2>1 DEF TasksFit, OwnerTask, IspTask, EventOf, DatabasesBehindChain, EntriesFit
  <2>3. \A p \in Owner \ {o} : ApproveTx(hashOf[p]) # ApproveTx(hashOf[o])
    BY ConstantsFit DEF ApproveTx
  <2>4. ApproveTx(hashOf[o]) \notin pool /\ ~payloads[hashOf[o]].isApproved
    BY <1>a, <2>1 DEF RequestsFit
  <2>5. RequestsFit'
    BY <1>a, <1>b, <1>c, <2>1, <2>3, <2>4 DEF RequestsFit
  <2> QED
    BY <1>c, <2>2, <2>5 DEF ActorInv
<1> QED
  BY <1>1, <1>2, <1>3 DEF OwnerMain

\* Whatever the chain does: an owner's payload is stored by its owner, and approved
\* after the ISP accepted the owner's request.
LEMMA MiningStep ==
    ASSUME LogInv, LogInv', ActorInv, [NextAll]_allVars,
           \/ Mining \/ UNCHANGED allVars
           \/ \E h \in OtherHash, o \in Owner : OtherTransacts(h, gatewayOf[o])
    PROVE  ActorInv'
<1>a. /\ RequestsFit /\ [Next]_vars /\ \A o \in Owner : hashOf[o] \in Hash
      /\ payloads \in [Hash -> Payload]
  BY ChainSteps, ConstantsFit DEF ActorInv, LogInv, TypeOK
<1>1. ASSUME NEW o \in Owner, MineStore(o) PROVE ActorInv'
  <2>1. /\ UNCHANGED <<main, ownerDb, tasks, users, ispDb, request, admin>> /\ pool' \subseteq pool
        /\ payloads'[hashOf[o]].target = gatewayOf[o] /\ payloads'[hashOf[o]].approver = isp
        /\ payloads'[hashOf[o]].isApproved = payloads[hashOf[o]].isApproved
        /\ \A h \in Hash \ {hashOf[o]} : payloads'[h] = payloads[h]
    BY <1>1, <1>a DEF MineStore, Taken, Take, storePayload, Payload
  <2>2. \A p \in Owner \ {o} : hashOf[p] \in Hash \ {hashOf[o]}
    BY <1>a, ConstantsFit
  <2> QED
    BY <1>a, <2>1, <2>2, ActorInvFrame
<1>2. ASSUME NEW o \in Owner, MineApproval(hashOf[o]) PROVE ActorInv'
  <2>1. /\ UNCHANGED <<main, ownerDb, tasks, users, ispDb, request, admin>> /\ pool' \subseteq pool
        /\ payloads[hashOf[o]].isValue /\ ApproveTx(hashOf[o]) \in pool
        /\ \A h \in Hash \ {hashOf[o]} : payloads'[h] = payloads[h]
    BY <1>2, <1>a DEF MineApproval, Taken, Take, approveGateway, payloadMustExist
  <2>2. request[o] = "ok"
    BY <1>a, <2>1 DEF RequestsFit
  <2>3. \A p \in Owner \ {o} : hashOf[p] \in Hash \ {hashOf[o]}
    BY <1>a, ConstantsFit
  <2> QED
    BY <1>a, <2>1, <2>2, <2>3, ActorInvFrame
<1>3. ASSUME NEW tx \in pool, Refuse(tx) PROVE ActorInv'
  BY <1>3, <1>a, ActorInvFrame DEF Refuse, Taken, Take, chain
<1>4. ASSUME NEW h \in OtherHash, NEW o \in Owner, OtherTransacts(h, gatewayOf[o]) PROVE ActorInv'
  <2>1. /\ UNCHANGED <<main, ownerDb, tasks, users, ispDb, request, admin, pool>>
        /\ \A g \in Hash \ {h} : payloads'[g] = payloads[g]
    BY <1>4, <1>a DEF OtherTransacts, actors, storePayload, approveGateway, revokeGateway
  <2>2. \A p \in Owner : hashOf[p] \in Hash \ {h}
    BY <1>a, ConstantsFit DEF OtherHash
  <2> QED
    BY <1>a, <2>1, <2>2, ActorInvFrame
<1>5. CASE UNCHANGED allVars
  BY <1>5, <1>a, ActorInvFrame DEF allVars, actors, chain
<1> QED
  BY <1>1, <1>2, <1>3, <1>4, <1>5 DEF Mining

LEMMA ActorInvStep == LogInv /\ LogInv' /\ ActorInv /\ [NextAll]_allVars => ActorInv'
<1> SUFFICES ASSUME LogInv, LogInv', ActorInv, [NextAll]_allVars PROVE ActorInv'
  OBVIOUS
<1>1. ASSUME NEW o \in Owner, OwnerDelivers(o) PROVE ActorInv'
  <2>1. PICK i \in DOMAIN log : Deliver(o, i, NoEntry)
    BY <1>1 DEF OwnerDelivers
  <2>2. UNCHANGED chain /\ UNCHANGED <<main, ownerDb, users, ispDb, request, pool, admin>>
    BY <1>1 DEF OwnerDelivers
  <2> QED
    BY <2>1, <2>2, DeliverStep, ConstantsFit
<1>2. CASE IspDelivers
  <2>1. PICK i \in DOMAIN log : /\ Deliver(isp, i, NoEntry)
                                /\ log[i].event = "PayloadAdded" => log[i].approver = isp
    BY <1>2 DEF IspDelivers, ForIspToApprove
  <2>2. UNCHANGED chain /\ UNCHANGED <<main, ownerDb, users, ispDb, request, pool, admin>>
    BY <1>2 DEF IspDelivers
  <2> QED
    BY <2>1, <2>2, DeliverStep, ConstantsFit
<1>3. ASSUME NEW t \in tasks, NEW o \in Owner, OwnerPayloadAdded(o, t) \/ OwnerGatewayApproved(o, t)
      PROVE  ActorInv'
  BY <1>3, OwnerPayloadAddedStep, OwnerGatewayApprovedStep
<1>4. ASSUME NEW t \in tasks, IspPayloadAdded(t) \/ IspGatewayApproved(t) PROVE ActorInv'
  BY <1>4, IspHandlerStep
<1>5. ASSUME NEW o \in Owner, OwnerMain(o) \/ Isp(o) PROVE ActorInv'
  BY <1>5, ProgramStep
<1>6. CASE \/ Mining \/ UNCHANGED allVars
           \/ \E h \in OtherHash, o \in Owner : OtherTransacts(h, gatewayOf[o])
  BY <1>6, MiningStep
<1> QED
  BY <1>1, <1>2, <1>3, <1>4, <1>5, <1>6 DEF NextAll, Events

LEMMA ActorInvInit == InitAll => ActorInv
<1> SUFFICES ASSUME InitAll PROVE ActorInv
  OBVIOUS
<1> USE DEF InitAll, Init
<1>1. \A h \in Hash : /\ ~payloads[h].isValue /\ ~payloads[h].isApproved
  BY DEF NoPayload
<1>2. TasksFit /\ HandledOnce /\ AdminFits
  BY DEF TasksFit, HandledOnce, AdminFits
<1>3. PartiesKnown /\ EntriesFit /\ DatabasesBehindChain
  BY <1>1, ConstantsFit DEF PartiesKnown, EntriesFit, EntryType, NoEntry, DatabasesBehindChain
<1>4. RequestsFit
  BY <1>1, ConstantsFit DEF RequestsFit
<1> QED
  BY <1>2, <1>3, <1>4 DEF ActorInv

LEMMA SystemInvariant == SpecAll => [](LogInv /\ ActorInv)
<1>1. InitAll => LogInv /\ ActorInv
  BY LogInvInit, ActorInvInit DEF InitAll
<1>2. LogInv /\ ActorInv /\ [NextAll]_allVars => LogInv' /\ ActorInv'
  BY ChainSteps, LogInvStep, ActorInvStep
<1> QED
  BY <1>1, <1>2, PTL DEF SpecAll

-------------------------------------------------------------------------------
(* The theorems.                                                           *)

\* Every variable keeps its type, the contract's included.
THEOREM SystemTypeCorrect == SpecAll => []TypeOKAll
<1>1. LogInv /\ ActorInv => TypeOKAll
  BY ConstantsFit DEF LogInv, ActorInv, TypeOKAll, EntriesFit, EntryType, TasksFit, OwnerTask, IspTask,
     RequestsFit, AdminFits, AnyAddress
<1> QED
  BY <1>1, SystemInvariant, PTL

\* No database of an owner or of the ISP says of a payload what the contract does not.
THEOREM DatabasesFollowChain == SpecAll => []DatabasesBehindChain
<1>1. LogInv /\ ActorInv => DatabasesBehindChain
  BY DEF ActorInv
<1> QED
  BY <1>1, SystemInvariant, PTL

\* The admin hands out only a gateway whose owner's payload the ISP approved.
THEOREM AdminKnowsApproved == SpecAll => []RegisteredWasApproved
<1>1. LogInv /\ ActorInv => RegisteredWasApproved
  <2> SUFFICES ASSUME LogInv, ActorInv, NEW g \in Address, admin = g
               PROVE  \E o \in Owner : /\ gatewayOf[o] = g
                                       /\ payloads[hashOf[o]].isApproved
                                       /\ payloads[hashOf[o]].approver = isp
    BY DEF RegisteredWasApproved
  <2>1. PICK o \in Owner : admin = gatewayOf[o] /\ payloads[hashOf[o]].isApproved
    BY ConstantsFit DEF ActorInv, AdminFits
  <2>2. payloads[hashOf[o]].isValue
    BY <2>1, ConstantsFit DEF LogInv, LogMatchesPayloads, FlagsInOrder
  <2> QED
    BY <2>1, <2>2 DEF ActorInv, PartiesKnown
<1> QED
  BY <1>1, SystemInvariant, PTL

\* The ISP approves a gateway only for a registered user who sent the payload after
\* seeing it stored.
THEOREM ApprovalFollowsRequest == SpecAll => []ApprovedWasRequested
<1>1. LogInv /\ ActorInv => ApprovedWasRequested
  BY DEF ActorInv, RequestsFit, ApprovedWasRequested
<1> QED
  BY <1>1, SystemInvariant, PTL
-------------------------------------------------------------------------------
(* Where nothing is left to do, the authentication has ended.              *)

\* The handler of an event of kind ev about o's own payload.
Own(o, ev, t) ==
    t.actor = o /\ EventOf(t).event = ev /\ EventOf(t).payloadHash = hashOf[o]

OwnAt(o, ev, ats) == \E t \in tasks : Own(o, ev, t) /\ t.at \in ats

\* What has been done for o leaves its trace, and what is not traced is still to do.
OwnerOnTrack(o) ==
    /\ payloads[hashOf[o]].isValue => payloads[hashOf[o]].source = o
    /\ request[o] # "denied"
    /\ OwnAt(o, "PayloadAdded", {"done"}) => request[o] # "none"
    /\ ownerDb[o].isStored => OwnAt(o, "PayloadAdded", {"send", "done"})
    /\ ownerDb[o].isApproved => OwnAt(o, "GatewayApproved", {"register", "done"})
    /\ ~OwnAt(o, "GatewayApproved", {"failed"})
    /\ OwnAt(o, "GatewayApproved", {"done"}) => admin # NoAddress

GatewayEvents == {"PayloadAdded", "GatewayApproved", "GatewayRevoked"}

TrackInv == /\ \A i \in DOMAIN log : log[i].event \in GatewayEvents
            /\ \A o \in Owner : OwnerOnTrack(o)

LEMMA OwnOnce ==
    ASSUME LogInv, TasksFit, HandledOnce, NEW o \in Owner,
           NEW ev \in {"PayloadAdded", "GatewayApproved"},
           NEW t \in tasks, NEW u \in tasks, Own(o, ev, t), Own(o, ev, u)
    PROVE  t = u
<1>1. t.event \in DOMAIN log /\ u.event \in DOMAIN log
  BY DEF Own, TasksFit, OwnerTask
<1>2. Rank(log[t.event]) = Rank(log[u.event])
  BY DEF Own, EventOf, Rank, Approvals
<1>3. t.event = u.event
  BY <1>1, <1>2, EventOnce DEF Own, EventOf
<1> QED
  BY <1>3 DEF Own, HandledOnce

\* A handler that goes on moves its own payload's place, if it is about that, and
\* nothing else.
LEMMA OwnStep ==
    ASSUME LogInv, TasksFit, HandledOnce, UNCHANGED log, NEW o \in Owner,
           NEW ev \in {"PayloadAdded", "GatewayApproved"}, NEW ats,
           NEW t \in tasks, NEW at, NEW entry, Step(t, at, entry)
    PROVE  OwnAt(o, ev, ats)' <=> IF Own(o, ev, t) THEN at \in ats ELSE OwnAt(o, ev, ats)
<1> DEFINE new == Task(t.actor, t.event, at, entry)
<1>1. /\ tasks' = (tasks \ {t}) \cup {new}
      /\ new.at = at
      /\ Own(o, ev, new)' <=> Own(o, ev, t)
      /\ \A u \in tasks : Own(o, ev, u)' <=> Own(o, ev, u)
  BY DEF Step, Task, Own, EventOf
<1>2. Own(o, ev, t) => \A u \in tasks : Own(o, ev, u) => u = t
  BY OwnOnce
<1> HIDE DEF new
<1> QED
  BY <1>1, <1>2 DEF OwnAt

\* The same, when an event is delivered.
LEMMA OwnDelivered ==
    ASSUME UNCHANGED log, NEW o \in Owner, NEW ev, NEW ats, "check" \notin ats,
           NEW actor, NEW i, Deliver(actor, i, NoEntry)
    PROVE  OwnAt(o, ev, ats)' <=> OwnAt(o, ev, ats)
  BY DEF Deliver, Task, OwnAt, Own, EventOf

\* A step that leaves an owner's handlers, request, entry and the admin alone.
LEMMA TrackFrame ==
    ASSUME NEW o \in Owner, OwnerOnTrack(o),
           \A ats : /\ OwnAt(o, "PayloadAdded", ats)' <=> OwnAt(o, "PayloadAdded", ats)
                    /\ OwnAt(o, "GatewayApproved", ats)' <=> OwnAt(o, "GatewayApproved", ats),
           request'[o] = request[o], ownerDb'[o] = ownerDb[o],
           admin # NoAddress => admin' # NoAddress,
           payloads'[hashOf[o]].isValue => payloads'[hashOf[o]].source = o
    PROVE  OwnerOnTrack(o)'
  BY DEF OwnerOnTrack

LEMMA OwnerPayloadAddedTrack ==
    ASSUME LogInv, ActorInv, TrackInv, NEW o \in Owner, NEW t \in tasks, OwnerPayloadAdded(o, t)
    PROVE  \A p \in Owner : OwnerOnTrack(p)'
<1>a. /\ TasksFit /\ HandledOnce /\ EntriesFit /\ RequestsFit /\ OwnerTask(t) /\ OwnerOnTrack(o)
      /\ t.actor = o /\ EventOf(t).event = "PayloadAdded"
      /\ UNCHANGED <<log, payloads, main, pool, admin>>
  BY DEF ActorInv, TasksFit, TrackInv, OwnerPayloadAdded, chain
<1>1. PICK at, entry : Step(t, at, entry)
  BY DEF OwnerPayloadAdded, Look
<1>2. ASSUME NEW p \in Owner, p # o PROVE OwnerOnTrack(p)'
  <2>1. request'[p] = request[p] /\ ownerDb'[p] = ownerDb[p]
    BY <1>a, <1>2 DEF OwnerPayloadAdded, EntriesFit, RequestsFit,
       updatePayloadStateToStored, sendAuthenticationPayloadToIsp
  <2>2. ~Own(p, "PayloadAdded", t) /\ ~Own(p, "GatewayApproved", t)
    BY <1>a, <1>2 DEF Own
  <2>3. \A ats : /\ OwnAt(p, "PayloadAdded", ats)' <=> OwnAt(p, "PayloadAdded", ats)
                 /\ OwnAt(p, "GatewayApproved", ats)' <=> OwnAt(p, "GatewayApproved", ats)
    BY <1>a, <1>1, <2>2, OwnStep
  <2> QED
    BY <1>a, <2>1, <2>3, TrackFrame DEF TrackInv, OwnerOnTrack
<1>3. OwnerOnTrack(o)'
  <2>1. \A ats : OwnAt(o, "GatewayApproved", ats)' <=> OwnAt(o, "GatewayApproved", ats)
    <3>1. ~Own(o, "GatewayApproved", t)
      BY <1>a DEF Own
    <3> QED
      BY <1>a, <1>1, <3>1, OwnStep
  <2>2. CASE ~Own(o, "PayloadAdded", t)
    <3>1. \A ats : OwnAt(o, "PayloadAdded", ats)' <=> OwnAt(o, "PayloadAdded", ats)
      BY <1>a, <1>1, <2>2, OwnStep
    <3>2. UNCHANGED <<request, ownerDb>>
      BY <1>a, <2>2 DEF OwnerPayloadAdded, Own, OwnerTask
    <3> QED
      BY <1>a, <2>1, <3>1, <3>2, TrackFrame DEF OwnerOnTrack
  <2>3. CASE Own(o, "PayloadAdded", t)
    <3>1. \A ats : OwnAt(o, "PayloadAdded", ats) <=> t.at \in ats
      BY <1>a, <2>3, OwnOnce DEF OwnAt
    <3>2. CASE t.at \in {"check", "get"}
      <4>1. ~ownerDb[o].isStored
        BY <1>a, <3>1, <3>2 DEF OwnerOnTrack
      <4>2. PICK a, e : /\ Step(t, a, e) /\ a \in {"get", "replace", "failed"}
                        /\ UNCHANGED <<request, ownerDb>>
        BY <1>a, <2>3, <3>2, <4>1
           DEF OwnerPayloadAdded, Look, OwnerEntry, isPayloadStored, Own
      <4>3. \A ats : OwnAt(o, "PayloadAdded", ats)' <=> a \in ats
        BY <1>a, <2>3, <4>2, OwnStep
      <4> QED
        BY <1>a, <2>1, <4>1, <4>2, <4>3 DEF OwnerOnTrack
    <3>3. CASE t.at = "replace"
      <4>1. PICK e : Step(t, "send", e)
        BY <3>3 DEF OwnerPayloadAdded, Look
      <4>2. \A ats : OwnAt(o, "PayloadAdded", ats)' <=> "send" \in ats
        BY <1>a, <2>3, <4>1, OwnStep
      <4>3. ~ownerDb[o].isStored
        BY <1>a, <3>1, <3>3 DEF OwnerOnTrack
      <4>4. ~t.entry.isApproved
        BY <1>a, <3>3, <4>3 DEF OwnerTask, RequestsFit
      <4>5. ~ownerDb'[o].isApproved /\ UNCHANGED request
        BY <1>a, <3>3, <4>4 DEF OwnerPayloadAdded, Look, updatePayloadStateToStored, Entry, EntriesFit
      <4> QED
        BY <1>a, <2>1, <4>2, <4>5 DEF OwnerOnTrack
    <3>4. CASE t.at = "send"
      <4>1. PICK e : Step(t, "done", e)
        BY <3>4 DEF OwnerPayloadAdded, Look
      <4>2. \A ats : OwnAt(o, "PayloadAdded", ats)' <=> "done" \in ats
        BY <1>a, <2>3, <4>1, OwnStep
      <4>3. request'[o] = "sent" /\ UNCHANGED ownerDb
        BY <1>a, <3>4 DEF OwnerPayloadAdded, Look, sendAuthenticationPayloadToIsp, RequestsFit
      <4> QED
        BY <1>a, <2>1, <4>2, <4>3 DEF OwnerOnTrack
    <3> QED
      BY <3>2, <3>3, <3>4 DEF OwnerPayloadAdded, Look
  <2> QED
    BY <2>2, <2>3
<1> QED
  BY <1>2, <1>3

LEMMA OwnerGatewayApprovedTrack ==
    ASSUME LogInv, ActorInv, TrackInv, NEW o \in Owner, NEW t \in tasks, OwnerGatewayApproved(o, t)
    PROVE  \A p \in Owner : OwnerOnTrack(p)'
<1>a. /\ TasksFit /\ HandledOnce /\ EntriesFit /\ RequestsFit /\ OwnerTask(t) /\ OwnerOnTrack(o)
      /\ t.actor = o /\ EventOf(t).event = "GatewayApproved" /\ t.event \in DOMAIN log
      /\ UNCHANGED <<log, payloads, main, request, pool>>
  BY DEF ActorInv, TasksFit, OwnerTask, TrackInv, OwnerGatewayApproved, chain
<1>b. admin # NoAddress => admin' # NoAddress
  BY ConstantsFit DEF OwnerGatewayApproved, registerGatewayToAdmin
<1>1. PICK at, entry : Step(t, at, entry)
  BY DEF OwnerGatewayApproved, Look
<1>2. ASSUME NEW p \in Owner, p # o PROVE OwnerOnTrack(p)'
  <2>1. ownerDb'[p] = ownerDb[p]
    BY <1>a, <1>2 DEF OwnerGatewayApproved, EntriesFit, updatePayloadStateToApproved
  <2>2. ~Own(p, "PayloadAdded", t) /\ ~Own(p, "GatewayApproved", t)
    BY <1>a, <1>2 DEF Own
  <2>3. \A ats : /\ OwnAt(p, "PayloadAdded", ats)' <=> OwnAt(p, "PayloadAdded", ats)
                 /\ OwnAt(p, "GatewayApproved", ats)' <=> OwnAt(p, "GatewayApproved", ats)
    BY <1>a, <1>1, <2>2, OwnStep
  <2> QED
    BY <1>a, <1>b, <2>1, <2>3, TrackFrame DEF TrackInv, OwnerOnTrack
<1>3. OwnerOnTrack(o)'
  <2>1. \A ats : OwnAt(o, "PayloadAdded", ats)' <=> OwnAt(o, "PayloadAdded", ats)
    <3>1. ~Own(o, "PayloadAdded", t)
      BY <1>a DEF Own
    <3> QED
      BY <1>a, <1>1, <3>1, OwnStep
  <2>2. CASE ~Own(o, "GatewayApproved", t)
    <3>1. \A ats : OwnAt(o, "GatewayApproved", ats)' <=> OwnAt(o, "GatewayApproved", ats)
      BY <1>a, <1>1, <2>2, OwnStep
    <3>2. UNCHANGED <<admin, ownerDb>>
      BY <1>a, <2>2 DEF OwnerGatewayApproved, Own, OwnerTask
    <3> QED
      BY <1>a, <2>1, <3>1, <3>2, TrackFrame DEF OwnerOnTrack
  <2>3. CASE Own(o, "GatewayApproved", t)
    <3>1. \A ats : OwnAt(o, "GatewayApproved", ats) <=> t.at \in ats
      BY <1>a, <2>3, OwnOnce DEF OwnAt
    <3>2. ownerDb[o].isStored /\ ownerDb[o].known /\ EventOf(t).sender = isp
      <4>1. payloads[hashOf[o]].isApproved /\ log[t.event].sender = payloads[hashOf[o]].approver
        BY <1>a, <2>3, EventFacts
           DEF Own, EventOf, Approvals, LogInv, LogMatchesPayloads, PartiesAreLogged, Announces
      <4>2. payloads[hashOf[o]].isValue
        BY <4>1, ConstantsFit DEF LogInv, LogMatchesPayloads, FlagsInOrder
      <4> QED
        BY <1>a, <4>1, <4>2 DEF ActorInv, PartiesKnown, RequestsFit, EntriesFit, EventOf
    <3>3. CASE t.at \in {"check", "get"}
      <4>1. ~ownerDb[o].isApproved
        BY <1>a, <3>1, <3>3 DEF OwnerOnTrack
      <4>2. PICK a, e : /\ Step(t, a, e) /\ a \in {"get", "replace"}
                        /\ UNCHANGED <<admin, ownerDb>>
        BY <1>a, <2>3, <3>2, <3>3, <4>1
           DEF OwnerGatewayApproved, Look, OwnerEntry, isPayloadApproved, ApprovedByItsApprover, Own
      <4>3. \A ats : OwnAt(o, "GatewayApproved", ats)' <=> a \in ats
        BY <1>a, <2>3, <4>2, OwnStep
      <4> QED
        BY <1>a, <2>1, <4>1, <4>2, <4>3 DEF OwnerOnTrack
    <3>4. CASE t.at = "replace"
      <4>1. PICK e : Step(t, "register", e)
        BY <3>4 DEF OwnerGatewayApproved, Look
      <4>2. \A ats : OwnAt(o, "GatewayApproved", ats)' <=> "register" \in ats
        BY <1>a, <2>3, <4>1, OwnStep
      <4>3. OwnAt(o, "PayloadAdded", {"send", "done"})
        BY <1>a, <3>2 DEF OwnerOnTrack
      <4> QED
        BY <1>a, <1>b, <2>1, <4>2, <4>3 DEF OwnerOnTrack
    <3>5. CASE t.at = "register"
      <4>1. PICK e : Step(t, "done", e)
        BY <3>5 DEF OwnerGatewayApproved, Look
      <4>2. \A ats : OwnAt(o, "GatewayApproved", ats)' <=> "done" \in ats
        BY <1>a, <2>3, <4>1, OwnStep
      <4>3. admin' # NoAddress /\ UNCHANGED ownerDb
        BY <3>5, ConstantsFit DEF OwnerGatewayApproved, Look, registerGatewayToAdmin
      <4> QED
        BY <1>a, <2>1, <4>2, <4>3 DEF OwnerOnTrack
    <3> QED
      BY <3>3, <3>4, <3>5 DEF OwnerGatewayApproved, Look
  <2> QED
    BY <2>2, <2>3
<1> QED
  BY <1>2, <1>3

\* What is left: deliveries, the ISP's handlers, the programs and the chain.
LEMMA OtherTrack ==
    ASSUME LogInv, ActorInv, TrackInv,
           \/ \E o \in Owner : OwnerDelivers(o)
           \/ IspDelivers
           \/ \E t \in tasks : IspPayloadAdded(t) \/ IspGatewayApproved(t)
    PROVE  \A o \in Owner : OwnerOnTrack(o)'
<1>a. /\ TasksFit /\ HandledOnce
      /\ UNCHANGED <<log, payloads, main, ownerDb, request, pool, admin>>
  BY DEF ActorInv, OwnerDelivers, IspDelivers, IspPayloadAdded, IspGatewayApproved, chain
<1>1. ASSUME NEW o \in Owner
      PROVE  /\ OwnAt(o, "PayloadAdded", {"done"})' <=> OwnAt(o, "PayloadAdded", {"done"})
             /\ OwnAt(o, "PayloadAdded", {"send", "done"})' <=> OwnAt(o, "PayloadAdded", {"send", "done"})
             /\ OwnAt(o, "GatewayApproved", {"register", "done"})' <=>
                    OwnAt(o, "GatewayApproved", {"register", "done"})
             /\ OwnAt(o, "GatewayApproved", {"failed"})' <=> OwnAt(o, "GatewayApproved", {"failed"})
             /\ OwnAt(o, "GatewayApproved", {"done"})' <=> OwnAt(o, "GatewayApproved", {"done"})
  <2>1. CASE (\E p \in Owner : OwnerDelivers(p)) \/ IspDelivers
    <3>1. PICK actor, i : Deliver(actor, i, NoEntry)
      BY <2>1 DEF OwnerDelivers, IspDelivers
    <3> QED
      BY <1>a, <3>1, OwnDelivered
  <2>2. CASE \E t \in tasks : IspPayloadAdded(t) \/ IspGatewayApproved(t)
    <3>1. PICK t \in tasks : IspPayloadAdded(t) \/ IspGatewayApproved(t)
      BY <2>2
    <3>2. \E at, entry : Step(t, at, entry)
      BY <3>1 DEF IspPayloadAdded, IspGatewayApproved, Look
    <3>3. PICK at, entry : Step(t, at, entry)
      BY <3>2
    <3>4. ~Own(o, "PayloadAdded", t) /\ ~Own(o, "GatewayApproved", t)
      BY <3>1, ConstantsFit DEF IspPayloadAdded, IspGatewayApproved, Own
    <3> QED
      BY <1>a, <3>3, <3>4, OwnStep
  <2> QED
    BY <2>1, <2>2
<1> QED
  BY <1>a, <1>1 DEF TrackInv, OwnerOnTrack

LEMMA ProgramTrack ==
    ASSUME LogInv, ActorInv, TrackInv, NEW o \in Owner, OwnerMain(o) \/ Isp(o)
    PROVE  \A p \in Owner : OwnerOnTrack(p)'
<1>a. /\ EntriesFit /\ RequestsFit /\ OwnerOnTrack(o)
      /\ UNCHANGED <<log, payloads, tasks, admin>>
  BY DEF ActorInv, TrackInv, OwnerMain, Register, Publish, OwnerStoresPayload, Isp, ReadPayload,
     CheckUser, SendApproval, chain
<1>1. \A p, ev, ats : OwnAt(p, ev, ats)' <=> OwnAt(p, ev, ats)
  BY <1>a DEF OwnAt, Own, EventOf
<1>2. ASSUME NEW p \in Owner, p # o PROVE OwnerOnTrack(p)'
  <2>1. request'[p] = request[p] /\ ownerDb'[p] = ownerDb[p]
    BY <1>a, <1>2 DEF EntriesFit, RequestsFit, OwnerMain, Register, Publish, OwnerStoresPayload, Isp,
       ReadPayload, CheckUser, SendApproval, Answer, storeNewPayload
  <2> QED
    BY <1>a, <1>1, <2>1, TrackFrame DEF TrackInv, OwnerOnTrack
<1>3. OwnerOnTrack(o)'
  <2>1. CASE Register(o) \/ Publish(o)
    BY <1>a, <1>1, <2>1 DEF OwnerOnTrack, Register, Publish
  <2>2. CASE OwnerStoresPayload(o)
    BY <1>a, <1>1, <2>2 DEF OwnerOnTrack, OwnerStoresPayload, storeNewPayload, Entry, EntriesFit
  <2>3. CASE Isp(o)
    <3>1. request[o] = "sent" => ~IspHasApproved(hashOf[o])
      BY <1>a, ConstantsFit DEF ActorInv, IspHasApproved, DatabasesBehindChain, RequestsFit
    <3>2. request'[o] \notin {"none", "denied"} /\ UNCHANGED ownerDb
      BY <1>a, <2>3, <3>1 DEF Isp, ReadPayload, CheckUser, SendApproval, Answer, RequestsFit
    <3> QED
      BY <1>a, <1>1, <3>2 DEF OwnerOnTrack
  <2> QED
    BY <2>1, <2>2, <2>3 DEF OwnerMain
<1> QED
  BY <1>2, <1>3

\* The handlers keep their events when the log grows.
LEMMA OwnWhenLogGrows ==
    ASSUME LogInv, LogInv', [Next]_vars, TasksFit, UNCHANGED tasks
    PROVE  \A o, ev, ats : OwnAt(o, ev, ats)' <=> OwnAt(o, ev, ats)
<1>1. \A t \in tasks : EventOf(t)' = EventOf(t)
  BY ChainGrows DEF TasksFit, OwnerTask, IspTask, EventOf
<1> QED
  BY <1>1 DEF OwnAt, Own

LEMMA MiningTrack ==
    ASSUME LogInv, LogInv', ActorInv, TrackInv, [NextAll]_allVars,
           \/ Mining \/ UNCHANGED allVars
           \/ \E h \in OtherHash, o \in Owner : OtherTransacts(h, gatewayOf[o])
    PROVE  \A p \in Owner : OwnerOnTrack(p)'
<1>a. /\ TasksFit /\ [Next]_vars /\ \A o \in Owner : hashOf[o] \in Hash /\ OwnerOnTrack(o)
      /\ payloads \in [Hash -> Payload]
      /\ UNCHANGED <<ownerDb, tasks, request, admin>>
  BY ChainSteps, ConstantsFit DEF ActorInv, LogInv, TypeOK, TrackInv, Mining, MineStore,
     MineApproval, Refuse, Taken, OtherTransacts, actors, allVars
<1>b. \A o, ev, ats : OwnAt(o, ev, ats)' <=> OwnAt(o, ev, ats)
  BY <1>a, OwnWhenLogGrows
<1>c. \A o \in Owner : payloads[hashOf[o]].isValue => payloads'[hashOf[o]].source = o
  BY <1>a, ChainGrows DEF SameParties, OwnerOnTrack
<1>1. ASSUME NEW p \in Owner,
             ~payloads[hashOf[p]].isValue /\ payloads'[hashOf[p]].isValue =>
                 payloads'[hashOf[p]].source = p
      PROVE  OwnerOnTrack(p)'
  BY <1>a, <1>b, <1>c, <1>1, TrackFrame
<1>2. ASSUME NEW o \in Owner, MineStore(o) PROVE \A p \in Owner : OwnerOnTrack(p)'
  <2>1. /\ payloads'[hashOf[o]].source = o
        /\ \A h \in Hash \ {hashOf[o]} : payloads'[h] = payloads[h]
    BY <1>2, <1>a DEF MineStore, storePayload, Payload
  <2>2. \A p \in Owner \ {o} : hashOf[p] \in Hash \ {hashOf[o]}
    BY <1>a, ConstantsFit
  <2> QED
    BY <1>1, <2>1, <2>2
<1>3. ASSUME \/ \E o \in Owner : MineApproval(hashOf[o])
             \/ \E tx \in pool : Refuse(tx)
      PROVE  \A p \in Owner : OwnerOnTrack(p)'
  <2>1. \A p \in Owner : payloads'[hashOf[p]].isValue => payloads[hashOf[p]].isValue
    BY <1>3, <1>a DEF MineApproval, Refuse, approveGateway, payloadMustExist, chain, Payload
  <2> QED
    BY <1>1, <2>1
<1>4. ASSUME NEW h \in OtherHash, NEW o \in Owner, OtherTransacts(h, gatewayOf[o])
      PROVE  \A p \in Owner : OwnerOnTrack(p)'
  <2>1. \A g \in Hash \ {h} : payloads'[g] = payloads[g]
    BY <1>4, <1>a DEF OtherTransacts, storePayload, approveGateway, revokeGateway
  <2>2. \A p \in Owner : hashOf[p] \in Hash \ {h}
    BY <1>a, ConstantsFit DEF OtherHash
  <2> QED
    BY <1>1, <2>1, <2>2
<1>5. CASE UNCHANGED allVars
  BY <1>1, <1>5 DEF allVars, actors, chain
<1> QED
  BY <1>2, <1>3, <1>4, <1>5 DEF Mining

\* The system uses the contract's methods for gateways only.
LEMMA EventsTrack ==
    ASSUME LogInv, TrackInv, [NextAll]_allVars
    PROVE  \A i \in DOMAIN log' : log'[i].event \in GatewayEvents
<1>1. CASE UNCHANGED log
  BY <1>1 DEF TrackInv
<1>2. ASSUME NEW e, e.event \in GatewayEvents, Emit(e)
      PROVE  \A i \in DOMAIN log' : log'[i].event \in GatewayEvents
  <2>1. log \in Seq(Event) /\ log' = Append(log, e)
    BY <1>2 DEF Emit, LogInv, TypeOK
  <2> QED
    BY <1>2, <2>1 DEF TrackInv
<1>3. ASSUME UNCHANGED log \/ \E e : e.event \in GatewayEvents /\ Emit(e)
      PROVE  \A i \in DOMAIN log' : log'[i].event \in GatewayEvents
  BY <1>1, <1>2, <1>3
<1>4. ASSUME NEW o \in Owner, MineStore(o) \/ MineApproval(hashOf[o])
      PROVE  \E e : e.event \in GatewayEvents /\ Emit(e)
  BY <1>4 DEF MineStore, MineApproval, storePayload, approveGateway, PayloadAdded, GatewayApproved,
     GatewayEvents
<1>5. ASSUME NEW h \in OtherHash, NEW o \in Owner, OtherTransacts(h, gatewayOf[o])
      PROVE  \E e : e.event \in GatewayEvents /\ Emit(e)
  BY <1>5 DEF OtherTransacts, storePayload, approveGateway, revokeGateway, PayloadAdded,
     GatewayApproved, GatewayRevoked, GatewayEvents
<1>6. ASSUME \/ \E o \in Owner : OwnerMain(o) \/ Isp(o)
             \/ \E tx \in pool : Refuse(tx)
      PROVE  UNCHANGED log
  BY <1>6 DEF OwnerMain, Register, Publish, OwnerStoresPayload, Isp, ReadPayload, CheckUser,
     SendApproval, Refuse, chain
<1>7. ASSUME Events \/ UNCHANGED allVars PROVE UNCHANGED log
  BY <1>7 DEF Events, OwnerDelivers, IspDelivers, OwnerPayloadAdded, OwnerGatewayApproved,
     IspPayloadAdded, IspGatewayApproved, allVars, chain
<1> QED
  BY <1>3, <1>4, <1>5, <1>6, <1>7 DEF NextAll, Mining

LEMMA TrackStep ==
    LogInv /\ LogInv' /\ ActorInv /\ TrackInv /\ [NextAll]_allVars => TrackInv'
<1> SUFFICES ASSUME LogInv, LogInv', ActorInv, TrackInv, [NextAll]_allVars
             PROVE  \A p \in Owner : OwnerOnTrack(p)'
  BY EventsTrack DEF TrackInv
<1>1. ASSUME NEW t \in tasks, NEW o \in Owner, OwnerPayloadAdded(o, t) \/ OwnerGatewayApproved(o, t)
      PROVE  \A p \in Owner : OwnerOnTrack(p)'
  BY <1>1, OwnerPayloadAddedTrack, OwnerGatewayApprovedTrack
<1>2. ASSUME NEW o \in Owner, OwnerMain(o) \/ Isp(o) PROVE \A p \in Owner : OwnerOnTrack(p)'
  BY <1>2, ProgramTrack
<1> QED
  BY <1>1, <1>2, OtherTrack, MiningTrack DEF NextAll, Events

LEMMA TrackInit == InitAll => TrackInv
<1> SUFFICES ASSUME InitAll PROVE TrackInv
  OBVIOUS
<1>1. \A h \in Hash : ~payloads[h].isValue
  BY DEF InitAll, Init, NoPayload
<1>2. \A o \in Owner : OwnerOnTrack(o)
  BY <1>1, ConstantsFit DEF InitAll, OwnerOnTrack, OwnAt, NoEntry
<1> QED
  BY <1>2 DEF InitAll, Init, TrackInv

\* Where nothing is left to do for an owner, its authentication has ended in one of
\* the five ways.
LEMMA SettledEnds ==
    ASSUME LogInv, ActorInv, TrackInv, NEW o \in Owner, Settled(o)
    PROVE  Ended(o)
<1>a. /\ hashOf[o] \in Hash /\ OwnerOnTrack(o)
      /\ request[o] \in {"none", "sent", "checking", "numbering", "ok", "denied", "hung"}
  BY ConstantsFit DEF ActorInv, RequestsFit, TrackInv
<1>0. CASE ~payloads[hashOf[o]].isValue
  BY <1>0 DEF Ended, NeverAnnounced, Settled
<1>1. SUFFICES ASSUME payloads[hashOf[o]].isValue PROVE Ended(o)
  BY <1>0
<1>2. PICK i \in DOMAIN log : log[i].payloadHash = hashOf[o] /\ Rank(log[i]) = 1
  BY <1>1, <1>a DEF LogInv, LogMatchesPayloads, FlagsAreLogged, Logged
<1>3. log[i].event = "PayloadAdded" /\ log[i].sender = o
  BY <1>a, <1>1, <1>2
     DEF Rank, LogInv, LogMatchesPayloads, PartiesAreLogged, Announces, OwnerOnTrack
<1>4. PICK t \in tasks : t.actor = o /\ t.event = i /\ t.at \in {"done", "failed"}
  BY <1>3 DEF Settled, ForOwner
<1>5. EventOf(t).event = "PayloadAdded" /\ EventOf(t).payloadHash = hashOf[o]
  BY <1>2, <1>3, <1>4 DEF EventOf
<1>6. CASE t.at = "failed"
  BY <1>4, <1>5, <1>6 DEF Ended, AnnouncementFailed
<1>7. CASE t.at = "done"
  <2>1. request[o] \in {"ok", "hung"}
    BY <1>a, <1>4, <1>5, <1>7 DEF OwnerOnTrack, OwnAt, Own, Settled
  <2>2. CASE request[o] = "ok" /\ payloads[hashOf[o]].isApproved
    <3>1. PICK j \in DOMAIN log : log[j].payloadHash = hashOf[o] /\ Rank(log[j]) = 2
      BY <2>2, <1>a DEF LogInv, LogMatchesPayloads, FlagsAreLogged, Logged
    <3>2. log[j].event = "GatewayApproved" /\ log[j].target = gatewayOf[o]
      <4>1. log[j].event = "GatewayApproved"
        BY <3>1 DEF Rank, Approvals, TrackInv, GatewayEvents
      <4>2. log[j].target = payloads[hashOf[o]].target
        BY <3>1, <4>1 DEF LogInv, LogMatchesPayloads, PartiesAreLogged, Announces
      <4> QED
        BY <1>1, <4>1, <4>2 DEF ActorInv, PartiesKnown
    <3>3. PICK u \in tasks : u.actor = o /\ u.event = j /\ u.at \in {"done", "failed"}
      BY <3>2 DEF Settled, ForOwner
    <3>4. Own(o, "GatewayApproved", u)
      BY <3>1, <3>2, <3>3 DEF Own, EventOf
    <3> QED
      BY <1>a, <3>3, <3>4 DEF OwnerOnTrack, OwnAt, Own, Ended, Registered
  <2> QED
    BY <2>1, <2>2 DEF Ended, Refused, Settled
<1> QED
  BY <1>4, <1>6, <1>7

\* An owner for whom nothing is left to do is registered, or the node refused its own
\* transaction, or its announcement came too early for it, or the ISP never answered, or
\* the node refused the ISP's transaction.
THEOREM SettledOwnerHasEnded == SpecAll => []SettledHasEnded
<1>1. InitAll => LogInv /\ ActorInv /\ TrackInv
  BY LogInvInit, ActorInvInit, TrackInit DEF InitAll
<1>2. LogInv /\ ActorInv /\ TrackInv /\ [NextAll]_allVars => LogInv' /\ ActorInv' /\ TrackInv'
  BY ChainSteps, LogInvStep, ActorInvStep, TrackStep
<1>3. LogInv /\ ActorInv /\ TrackInv => SettledHasEnded
  BY SettledEnds DEF SettledHasEnded
<1> QED
  BY <1>1, <1>2, <1>3, PTL DEF SpecAll

-------------------------------------------------------------------------------
(* Owners, ISP and contract implement Authentication.                      *)

LEMMA StageKept ==
    ASSUME NEW o \in Owner,
           ownerDb'[o].isApproved = ownerDb[o].isApproved,
           payloads'[hashOf[o]].isApproved = payloads[hashOf[o]].isApproved,
           payloads'[hashOf[o]].isValue = payloads[hashOf[o]].isValue,
           request'[o] = "ok" <=> request[o] = "ok"
    PROVE  AuthStage(o)' = AuthStage(o)
  BY DEF AuthStage

LEMMA AuthStays ==
    ASSUME UNCHANGED users, \A o \in Owner : AuthStage(o)' = AuthStage(o)
    PROVE  UNCHANGED Auth!vars
  BY DEF Auth!vars

LEMMA AuthMoves ==
    ASSUME NEW o \in Owner, NEW from, NEW to, AuthStage(o) = from, AuthStage(o)' = to,
           UNCHANGED users, \A p \in Owner \ {o} : AuthStage(p)' = AuthStage(p)
    PROVE  Auth!Move(o, from, to)
  BY DEF Auth!Move

\* Nothing is written, answered or mined that Authentication speaks of.
LEMMA AuthFrame ==
    ASSUME UNCHANGED <<users, ownerDb, payloads>>,
           \A o \in Owner : request'[o] = "ok" <=> request[o] = "ok"
    PROVE  UNCHANGED Auth!vars
  BY StageKept, AuthStays

LEMMA OwnerProgramAuth ==
    ASSUME LogInv, ActorInv, NEW o \in Owner, OwnerMain(o)
    PROVE  [Auth!Next]_(Auth!vars)
<1>a. EntriesFit /\ RequestsFit /\ UNCHANGED <<payloads, request>>
  BY DEF ActorInv, OwnerMain, Register, Publish, OwnerStoresPayload, chain
<1>1. CASE Register(o)
  <2>1. UNCHANGED ownerDb /\ users' = users \cup {o}
    BY <1>1 DEF Register, storeNewUser
  <2>2. \A p \in Owner : AuthStage(p)' = AuthStage(p)
    BY <1>a, <2>1, StageKept
  <2>3. Auth!Enroll(o)
    BY <2>1, <2>2 DEF Auth!Enroll
  <2> QED
    BY <2>3 DEF Auth!Next
<1>2. CASE Publish(o)
  BY <1>a, <1>2, AuthFrame DEF Publish
<1>3. CASE OwnerStoresPayload(o)
  <2>1. /\ main[o] = "published" /\ UNCHANGED users
        /\ ownerDb' = [ownerDb EXCEPT ![o] = Entry(FALSE, FALSE)]
    BY <1>3 DEF OwnerStoresPayload, storeNewPayload
  <2>2. ownerDb[o] \in EntryType /\ ~ownerDb[o].isApproved
    BY <1>a, <2>1 DEF EntriesFit
  <2>3. \A p \in Owner : ownerDb'[p].isApproved = ownerDb[p].isApproved
    BY <1>a, <2>1, <2>2 DEF EntriesFit, Entry, EntryType
  <2>4. \A p \in Owner : AuthStage(p)' = AuthStage(p)
    BY <1>a, <2>3, StageKept
  <2> QED
    BY <2>1, <2>4, AuthStays
<1> QED
  BY <1>1, <1>2, <1>3 DEF OwnerMain

\* The ISP vouches for a registered owner whose payload is on the chain.
LEMMA IspAuth ==
    ASSUME LogInv, ActorInv, NEW o \in Owner, Isp(o)
    PROVE  [Auth!Next]_(Auth!vars)
<1>a. /\ RequestsFit /\ DatabasesBehindChain
      /\ UNCHANGED <<users, ownerDb, payloads>>
      /\ request[o] \in {"sent", "checking", "numbering"}
  BY DEF ActorInv, Isp, ReadPayload, CheckUser, SendApproval, Answer, chain
<1>1. PICK answer : /\ request' = [request EXCEPT ![o] = answer]
                    /\ answer = "ok" => o \in users
  BY <1>a DEF Isp, ReadPayload, CheckUser, SendApproval, Answer, RequestsFit
<1>2. /\ request'[o] = answer
      /\ \A p \in Owner \ {o} : request'[p] = request[p]
  BY <1>a, <1>1 DEF RequestsFit
<1>3. CASE answer # "ok"
  BY <1>a, <1>2, <1>3, AuthFrame
<1>4. CASE answer = "ok"
  <2>1. /\ payloads[hashOf[o]].isValue /\ ~payloads[hashOf[o]].isApproved
        /\ ~ownerDb[o].isApproved
    BY <1>a DEF RequestsFit, DatabasesBehindChain
  <2>2. AuthStage(o) = "announced" /\ AuthStage(o)' = "vouched"
    BY <1>a, <1>2, <1>4, <2>1 DEF AuthStage
  <2>3. \A p \in Owner \ {o} : AuthStage(p)' = AuthStage(p)
    BY <1>a, <1>2, StageKept
  <2>4. Auth!Vouch(o)
    BY <1>1, <1>4, <1>a, <2>2, <2>3, AuthMoves DEF Auth!Vouch
  <2> QED
    BY <2>4 DEF Auth!Next
<1> QED
  BY <1>3, <1>4

\* An owner's handler writes and sends nothing that undoes a stage, and records its own
\* approval.
LEMMA OwnerHandlerAuth ==
    ASSUME LogInv, ActorInv, NEW o \in Owner, NEW t \in tasks,
           OwnerPayloadAdded(o, t) \/ OwnerGatewayApproved(o, t)
    PROVE  [Auth!Next]_(Auth!vars)
<1>a. /\ TasksFit /\ HandledOnce /\ EntriesFit /\ RequestsFit /\ DatabasesBehindChain
      /\ OwnerTask(t) /\ t.actor = o /\ t.event \in DOMAIN log
      /\ UNCHANGED <<users, payloads>>
  BY DEF ActorInv, TasksFit, OwnerTask, OwnerPayloadAdded, OwnerGatewayApproved, chain
<1>1. ASSUME UNCHANGED <<ownerDb, request>> PROVE [Auth!Next]_(Auth!vars)
  BY <1>a, <1>1, AuthFrame
<1>2. ASSUME OwnerPayloadAdded(o, t), t.at \in {"replace", "send"}
      PROVE  /\ request[o] = "none"
             /\ ~payloads[hashOf[o]].isApproved /\ ~ownerDb[o].isApproved
  <2>1. Own(o, "PayloadAdded", t)
    BY <1>a, <1>2 DEF OwnerPayloadAdded, OwnerTask, Own
  <2>2. ~HasSent(o)
    <3> SUFFICES ASSUME NEW u \in tasks, u.at = "done", Own(o, "PayloadAdded", u) PROVE FALSE
      BY DEF HasSent, Own
    <3>1. u = t
      BY <1>a, <2>1, OwnOnce
    <3> QED
      BY <1>2, <3>1
  <2> QED
    BY <1>a, <2>2 DEF RequestsFit, DatabasesBehindChain
<1>3. CASE OwnerPayloadAdded(o, t) /\ t.at = "replace"
  <2>1. /\ ownerDb' = [ownerDb EXCEPT ![o] = Entry(TRUE, t.entry.isApproved)] /\ UNCHANGED request
        /\ t.entry \in EntryType /\ ~t.entry.isApproved
    BY <1>a, <1>2, <1>3 DEF OwnerPayloadAdded, Look, updatePayloadStateToStored, OwnerTask
  <2>2. \A p \in Owner : ownerDb'[p].isApproved = ownerDb[p].isApproved
    BY <1>a, <1>2, <1>3, <2>1 DEF EntriesFit, Entry, EntryType
  <2>3. \A p \in Owner : AuthStage(p)' = AuthStage(p)
    BY <1>a, <2>1, <2>2, StageKept
  <2> QED
    BY <1>a, <2>3, AuthStays
<1>4. CASE OwnerPayloadAdded(o, t) /\ t.at = "send"
  <2>1. request' = [request EXCEPT ![o] = "sent"] /\ UNCHANGED ownerDb
    BY <1>4 DEF OwnerPayloadAdded, Look, sendAuthenticationPayloadToIsp
  <2>2. \A p \in Owner : request'[p] = "ok" <=> request[p] = "ok"
    BY <1>a, <1>2, <1>4, <2>1 DEF RequestsFit
  <2> QED
    BY <1>a, <2>1, <2>2, AuthFrame
<1>5. CASE OwnerGatewayApproved(o, t) /\ t.at = "replace"
  <2>1. /\ ownerDb' = [ownerDb EXCEPT ![o] = Entry(t.entry.isStored, TRUE)] /\ UNCHANGED request
        /\ EventOf(t).payloadHash = hashOf[o] /\ EventOf(t).event = "GatewayApproved"
    BY <1>a, <1>5 DEF OwnerGatewayApproved, Look, updatePayloadStateToApproved, OwnerTask
  <2>2. payloads[hashOf[o]].isApproved
    BY <1>a, <2>1, EventFacts DEF EventOf, Approvals
  <2>3. ownerDb'[o].isApproved /\ \A p \in Owner \ {o} : ownerDb'[p] = ownerDb[p]
    BY <1>a, <2>1 DEF EntriesFit, Entry
  <2>4. \A p \in Owner \ {o} : AuthStage(p)' = AuthStage(p)
    BY <1>a, <2>1, <2>3, StageKept
  <2>5. CASE ownerDb[o].isApproved
    <3>1. AuthStage(o)' = AuthStage(o)
      BY <2>3, <2>5 DEF AuthStage
    <3> QED
      BY <1>a, <2>4, <3>1, AuthStays
  <2>6. CASE ~ownerDb[o].isApproved
    <3>1. AuthStage(o) = "approved" /\ AuthStage(o)' = "recorded"
      BY <2>2, <2>3, <2>6 DEF AuthStage
    <3>2. Auth!Record(o)
      BY <1>a, <2>4, <3>1, AuthMoves DEF Auth!Record
    <3> QED
      BY <3>2 DEF Auth!Next
  <2> QED
    BY <2>5, <2>6
<1> QED
  BY <1>1, <1>3, <1>4, <1>5 DEF OwnerPayloadAdded, OwnerGatewayApproved, Look

\* What is mined about an owner's payload announces it, or approves what the ISP vouched for.
LEMMA MiningAuth ==
    ASSUME LogInv, LogInv', ActorInv,
           \/ Mining
           \/ \E h \in OtherHash, o \in Owner : OtherTransacts(h, gatewayOf[o])
    PROVE  [Auth!Next]_(Auth!vars)
<1>a. /\ RequestsFit /\ DatabasesBehindChain /\ UNCHANGED <<users, ownerDb, request>>
      /\ payloads \in [Hash -> Payload] /\ \A o \in Owner : hashOf[o] \in Hash
      /\ \A h \in Hash : payloads[h].isApproved => payloads[h].isValue
  BY ConstantsFit DEF ActorInv, LogInv, TypeOK, LogMatchesPayloads, FlagsInOrder, Mining, MineStore,
     MineApproval, Refuse, Taken, OtherTransacts, actors
<1>b. \A p \in Owner : payloads'[hashOf[p]] = payloads[hashOf[p]] => AuthStage(p)' = AuthStage(p)
  BY <1>a, StageKept
<1>1. ASSUME NEW o \in Owner, MineStore(o) PROVE [Auth!Next]_(Auth!vars)
  <2>1. /\ ~payloads[hashOf[o]].isValue /\ payloads'[hashOf[o]].isValue
        /\ payloads'[hashOf[o]].isApproved = payloads[hashOf[o]].isApproved
        /\ \A h \in Hash \ {hashOf[o]} : payloads'[h] = payloads[h]
    BY <1>1, <1>a DEF MineStore, storePayload, payloadMustNotExist, Payload
  <2>2. ~payloads[hashOf[o]].isApproved /\ ~ownerDb[o].isApproved /\ ~ownerDb[o].isStored
    BY <1>a, <2>1 DEF DatabasesBehindChain
  <2>3. request[o] = "none"
    BY <1>a, <2>2 DEF RequestsFit
  <2>4. AuthStage(o) = "none" /\ AuthStage(o)' = "announced"
    BY <1>a, <2>1, <2>2, <2>3 DEF AuthStage
  <2>5. \A p \in Owner \ {o} : AuthStage(p)' = AuthStage(p)
    BY <1>a, <1>b, <2>1, ConstantsFit
  <2>6. Auth!Announce(o)
    BY <1>a, <2>4, <2>5, AuthMoves DEF Auth!Announce
  <2> QED
    BY <2>6 DEF Auth!Next
<1>2. ASSUME NEW o \in Owner, MineApproval(hashOf[o]) PROVE [Auth!Next]_(Auth!vars)
  <2>1. /\ ~payloads[hashOf[o]].isApproved /\ payloads'[hashOf[o]].isApproved
        /\ \A h \in Hash \ {hashOf[o]} : payloads'[h] = payloads[h]
        /\ ApproveTx(hashOf[o]) \in pool
    BY <1>2, <1>a DEF MineApproval, approveGateway, payloadMustBeNotApproved, Payload, Taken, Take
  <2>2. ~ownerDb[o].isApproved /\ request[o] = "ok"
    BY <1>a, <2>1 DEF DatabasesBehindChain, RequestsFit
  <2>3. AuthStage(o) = "vouched" /\ AuthStage(o)' = "approved"
    BY <1>a, <2>1, <2>2 DEF AuthStage
  <2>4. \A p \in Owner \ {o} : AuthStage(p)' = AuthStage(p)
    BY <1>a, <1>b, <2>1, ConstantsFit
  <2>5. Auth!Approve(o)
    BY <1>a, <2>3, <2>4, AuthMoves DEF Auth!Approve
  <2> QED
    BY <2>5 DEF Auth!Next
<1>3. ASSUME NEW tx \in pool, Refuse(tx) PROVE [Auth!Next]_(Auth!vars)
  BY <1>3, <1>a, AuthFrame DEF Refuse, chain
<1>4. ASSUME NEW h \in OtherHash, NEW o \in Owner, OtherTransacts(h, gatewayOf[o])
      PROVE  [Auth!Next]_(Auth!vars)
  <2>1. \A g \in Hash \ {h} : payloads'[g] = payloads[g]
    BY <1>4, <1>a DEF OtherTransacts, storePayload, approveGateway, revokeGateway
  <2>2. \A p \in Owner : AuthStage(p)' = AuthStage(p)
    BY <1>a, <1>b, <2>1 DEF OtherHash
  <2> QED
    BY <1>a, <2>2, AuthStays
<1> QED
  BY <1>1, <1>2, <1>3, <1>4 DEF Mining

LEMMA AuthStep ==
    ASSUME LogInv, LogInv', ActorInv, [NextAll]_allVars
    PROVE  [Auth!Next]_(Auth!vars)
<1>1. CASE \/ \E o \in Owner : OwnerDelivers(o)
           \/ IspDelivers \/ UNCHANGED allVars
           \/ \E t \in tasks : IspPayloadAdded(t) \/ IspGatewayApproved(t)
  <2>1. UNCHANGED <<users, ownerDb, payloads, request>>
    BY <1>1 DEF OwnerDelivers, IspDelivers, IspPayloadAdded, IspGatewayApproved, allVars, actors, chain
  <2> QED
    BY <2>1, AuthFrame
<1> QED
  BY <1>1, OwnerProgramAuth, IspAuth, OwnerHandlerAuth, MiningAuth DEF NextAll, Events

\* Owners, ISP and contract keep the promise of Authentication: the ISP vouches only for
\* registered owners whose payload is on the chain, only that is approved, and an owner
\* records its own approval only.
THEOREM ImplementsAuthentication == SpecAll => AuthenticationSpec
<1>1. InitAll => Auth!Init
  <2> SUFFICES ASSUME InitAll PROVE Auth!Init
    OBVIOUS
  <2>1. \A h \in Hash : ~payloads[h].isValue /\ ~payloads[h].isApproved
    BY DEF InitAll, Init, NoPayload
  <2>2. \A o \in Owner : AuthStage(o) = "none"
    BY <2>1, ConstantsFit DEF InitAll, NoEntry, AuthStage
  <2> QED
    BY <2>2 DEF InitAll, Auth!Init
<1>2. LogInv /\ LogInv' /\ ActorInv /\ [NextAll]_allVars => [Auth!Next]_(Auth!vars)
  BY AuthStep
<1> QED
  BY <1>1, <1>2, SystemInvariant, PTL DEF SpecAll, AuthenticationSpec, Auth!Spec
===============================================================================
