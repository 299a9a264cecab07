--------------------------- MODULE RegistryLogProofs ---------------------------
(***************************************************************************)
(* Proofs about what RegistryContract promises of a payload: the log tells *)
(* its state, it goes through the stages of PayloadLifecycle, an access    *)
(* that ended stays ended, an approval is never used twice, and the table  *)
(* of devices follows the log.                                             *)
(***************************************************************************)
EXTENDS RegistryProofs

LEMMA RankBounds == \A e : Rank(e) \in 1 .. 3
  BY DEF Rank

\* An event adds its own rank to what is logged of its own payload, no more.
LEMMA LoggedGrows ==
    ASSUME NEW l \in Seq(Event), NEW e \in Event, NEW g, NEW r
    PROVE  Logged(Append(l, e), g, r) <=>
               Logged(l, g, r) \/ (e.payloadHash = g /\ Rank(e) = r)
<1>1. /\ Len(l) \in Nat
      /\ DOMAIN l = 1 .. Len(l)
      /\ DOMAIN Append(l, e) = 1 .. (Len(l) + 1)
      /\ \A i \in 1 .. Len(l) : Append(l, e)[i] = l[i]
      /\ Append(l, e)[Len(l) + 1] = e
  BY AppendFacts
<1>2. 1 .. (Len(l) + 1) = (1 .. Len(l)) \cup {Len(l) + 1}
  BY <1>1
<1> QED
  BY <1>1, <1>2 DEF Logged

LogInv == TypeOK /\ LogMatchesPayloads

SameParties(p, q) ==
    p.source = q.source /\ p.target = q.target /\ p.approver = q.approver

\* How the payload p of an event e that is the first of its payload q, its
\* approval, or its revocation, relates to q.
Stores(e, q, p) ==
    /\ e.event = "PayloadAdded"
    /\ ~q.isValue /\ p.isValue /\ ~p.isApproved /\ ~p.isRevoked
    /\ Announces(e, p)

Approves(e, q, p) ==
    /\ e.event \in Approvals
    /\ q.isValue /\ ~q.isApproved /\ p.isValue /\ p.isApproved
    /\ p.isRevoked = q.isRevoked /\ SameParties(p, q) /\ Announces(e, p)

Revokes(e, q, p) ==
    /\ e.event \in Revocations
    /\ q.isValue /\ q.isApproved /\ ~q.isRevoked
    /\ p.isValue /\ p.isApproved /\ p.isRevoked /\ SameParties(p, q) /\ Announces(e, p)

\* One event about one payload, emitted with the flag it announces, keeps the
\* log and the payloads in agreement.
LEMMA LogStep ==
    ASSUME LogInv, NEW e \in Event, Emit(e), NEW h \in Hash, e.payloadHash = h,
           NEW p \in Payload, payloads' = [payloads EXCEPT ![h] = p],
           \/ Stores(e, payloads[h], p)
           \/ Approves(e, payloads[h], p)
           \/ Revokes(e, payloads[h], p)
    PROVE  LogMatchesPayloads'
<1> DEFINE q == payloads[h]
<1> USE DEF LogInv, LogMatchesPayloads
<1>1. /\ log \in Seq(Event)
      /\ log' = Append(log, e)
      /\ Len(log) \in Nat
      /\ DOMAIN log' = 1 .. (Len(log) + 1)
      /\ DOMAIN log = 1 .. Len(log)
      /\ \A i \in 1 .. Len(log) : log'[i] = log[i]
      /\ log'[Len(log) + 1] = e
  BY AppendFacts DEF TypeOK, Emit
<1>2. /\ q \in Payload
      /\ payloads'[h] = p
      /\ \A g \in Hash : g # h => payloads'[g] = payloads[g]
  BY DEF TypeOK
<1>3. /\ q.isValue <=> Logged(log, h, 1)
      /\ q.isApproved <=> Logged(log, h, 2)
      /\ q.isRevoked <=> Logged(log, h, 3)
      /\ q.isRevoked => q.isApproved
      /\ q.isApproved => q.isValue
  BY DEF FlagsAreLogged, FlagsInOrder
<1>4. /\ Stores(e, q, p) => Rank(e) = 1
      /\ Approves(e, q, p) => Rank(e) = 2
      /\ Revokes(e, q, p) => Rank(e) = 3
  BY DEF Stores, Approves, Revokes, Rank, Approvals, Revocations
<1>5. \A i \in 1 .. Len(log) : log[i].payloadHash = h => Logged(log, h, Rank(log[i]))
  BY <1>1 DEF Logged
<1>6. \A i \in 1 .. Len(log) : log[i].payloadHash = h => Rank(log[i]) < Rank(e)
  BY <1>3, <1>4, <1>5, RankBounds DEF Stores, Approves, Revokes
<1>7. EventsInOrder'
  <2> SUFFICES ASSUME NEW i \in 1 .. (Len(log) + 1), NEW j \in 1 .. (Len(log) + 1),
                      i < j, log'[i].payloadHash = log'[j].payloadHash
               PROVE  Rank(log'[i]) < Rank(log'[j])
    BY <1>1 DEF EventsInOrder
  <2>1. CASE j = Len(log) + 1
    BY <1>1, <1>6, <2>1
  <2>2. CASE j \in 1 .. Len(log)
    BY <1>1, <2>2 DEF EventsInOrder
  <2> QED
    BY <1>1, <2>1, <2>2
<1>8. \A g, r : Logged(log', g, r) <=>
                   Logged(log, g, r) \/ (h = g /\ Rank(e) = r)
  BY <1>1, LoggedGrows
<1>9. FlagsAreLogged'
  <2> SUFFICES ASSUME NEW g \in Hash
               PROVE  /\ payloads'[g].isValue <=> Logged(log', g, 1)
                      /\ payloads'[g].isApproved <=> Logged(log', g, 2)
                      /\ payloads'[g].isRevoked <=> Logged(log', g, 3)
    BY DEF FlagsAreLogged
  <2>1. CASE g # h
    BY <1>2, <1>8, <2>1 DEF FlagsAreLogged
  <2>2. CASE g = h
    <3>1. CASE Stores(e, q, p)
      BY <1>2, <1>3, <1>4, <1>8, <2>2, <3>1 DEF Stores
    <3>2. CASE Approves(e, q, p)
      BY <1>2, <1>3, <1>4, <1>8, <2>2, <3>2 DEF Approves
    <3>3. CASE Revokes(e, q, p)
      BY <1>2, <1>3, <1>4, <1>8, <2>2, <3>3 DEF Revokes
    <3> QED
      BY <3>1, <3>2, <3>3
  <2> QED
    BY <2>1, <2>2
<1>10. FlagsInOrder'
  BY <1>2, <1>3 DEF FlagsInOrder, Stores, Approves, Revokes
<1>11. PartiesAreLogged'
  <2> SUFFICES ASSUME NEW i \in 1 .. (Len(log) + 1)
               PROVE  Announces(log'[i], payloads'[log'[i].payloadHash])
    BY <1>1 DEF PartiesAreLogged
  <2>1. CASE i = Len(log) + 1
    BY <1>1, <1>2, <2>1 DEF Stores, Approves, Revokes
  <2>2. CASE i \in 1 .. Len(log) /\ log[i].payloadHash # h
    <3>1. log[i].payloadHash \in Hash
      BY <1>1, <2>2 DEF Event
    <3> QED
      BY <1>1, <1>2, <2>2, <3>1 DEF PartiesAreLogged
  <2>3. CASE i \in 1 .. Len(log) /\ log[i].payloadHash = h
    <3>1. ~Stores(e, q, p)
      BY <1>3, <1>4, <1>6, <2>3, RankBounds DEF Stores
    <3>2. SameParties(p, q)
      BY <3>1 DEF Approves, Revokes
    <3>3. Announces(log[i], q)
      BY <1>1, <2>3 DEF PartiesAreLogged
    <3> QED
      BY <1>1, <1>2, <2>3, <3>2, <3>3 DEF Announces, SameParties
  <2> QED
    BY <1>1, <2>1, <2>2, <2>3
<1> QED
  BY <1>7, <1>9, <1>10, <1>11

\* Every transaction emits one event about one payload, changes that payload
\* only, and is its storing, its approval or its revocation.
LEMMA PayloadStep ==
    ASSUME LogInv, Next
    PROVE  \/ UNCHANGED <<payloads, log>>
           \/ \E h \in Hash, e \in Event :
                 /\ Emit(e) /\ e.payloadHash = h
                 /\ payloads' = [payloads EXCEPT ![h] = payloads'[h]]
                 /\ payloads'[h] \in Payload
                 /\ \/ Stores(e, payloads[h], payloads'[h])
                    \/ Approves(e, payloads[h], payloads'[h])
                    \/ Revokes(e, payloads[h], payloads'[h])
<1> DEFINE Goal == \E h \in Hash, e \in Event :
                      /\ Emit(e) /\ e.payloadHash = h
                      /\ payloads' = [payloads EXCEPT ![h] = payloads'[h]]
                      /\ payloads'[h] \in Payload
                      /\ \/ Stores(e, payloads[h], payloads'[h])
                         \/ Approves(e, payloads[h], payloads'[h])
                         \/ Revokes(e, payloads[h], payloads'[h])
<1>a. TypeOK'
  BY TypeStep DEF LogInv
<1>b. Address \subseteq AnyAddress /\ 0 \in Uint
  BY RegistryAssumption DEF AnyAddress, Uint
<1>c. ASSUME NEW h \in Hash PROVE payloads[h] \in Payload /\ payloads'[h] \in Payload
  BY <1>a DEF LogInv, TypeOK
<1>d. ASSUME NEW h \in Hash, ~payloads[h].isValue PROVE payloads[h] = NoPayload
  BY <1>d DEF LogInv, LogMatchesPayloads, FlagsInOrder
<1>1. ASSUME NEW sender \in Address, NEW h \in Hash, NEW target \in AnyAddress,
             NEW approver \in AnyAddress, storePayload(sender, h, target, approver)
      PROVE  Goal
  <2> DEFINE e == PayloadAdded(h, sender, target, approver)
  <2>3. e \in Event /\ Emit(e) /\ e.payloadHash = h
    BY <1>1, EventsTyped, <1>b DEF storePayload, PayloadAdded
  <2>4. payloads' = [payloads EXCEPT ![h] = payloads'[h]]
    BY <1>1 DEF storePayload, LogInv, TypeOK
  <2>5. Stores(e, payloads[h], payloads'[h])
    BY <1>1, <1>c, <1>d
       DEF storePayload, PayloadAdded, Stores, Announces, Approvals, NoPayload,
           payloadMustNotExist,
           LogInv, TypeOK, LogMatchesPayloads, FlagsInOrder, Payload
  <2> QED
    BY <1>c, <2>3, <2>4, <2>5
<1>2. ASSUME NEW sender \in Address, NEW h \in Hash, NEW routerIp \in RouterIp,
             approveGateway(sender, h, routerIp)
      PROVE  Goal
  <2> DEFINE e == GatewayApproved(h, sender, payloads[h].target)
  <2>1. payloads[h].source \in AnyAddress /\ payloads[h].target \in AnyAddress
    BY <1>c DEF Payload
  <2>3. e \in Event /\ Emit(e) /\ e.payloadHash = h
    BY <1>2, EventsTyped, <1>b, <2>1 DEF approveGateway, GatewayApproved
  <2>4. payloads' = [payloads EXCEPT ![h] = payloads'[h]]
    BY <1>2 DEF approveGateway, LogInv, TypeOK
  <2>5. Approves(e, payloads[h], payloads'[h])
    BY <1>2, <1>c
       DEF approveGateway, GatewayApproved, Approves, Announces, onlyForApprover, Approvals, SameParties,
           payloadMustExist, payloadMustBeNotApproved,
           LogInv, TypeOK, LogMatchesPayloads, FlagsInOrder, Payload
  <2> QED
    BY <1>c, <2>3, <2>4, <2>5
<1>3. ASSUME NEW sender \in Address, NEW h \in Hash, approveDevice(sender, h)
      PROVE  Goal
  <2> DEFINE e == DeviceApproved(h, sender, payloads[h].source, payloads[h].target)
  <2>1. payloads[h].source \in AnyAddress /\ payloads[h].target \in AnyAddress
    BY <1>c DEF Payload
  <2>3. e \in Event /\ Emit(e) /\ e.payloadHash = h
    BY <1>3, EventsTyped, <1>b, <2>1 DEF approveDevice, DeviceApproved
  <2>4. payloads' = [payloads EXCEPT ![h] = payloads'[h]]
    BY <1>3 DEF approveDevice, LogInv, TypeOK
  <2>5. Approves(e, payloads[h], payloads'[h])
    BY <1>3, <1>c
       DEF approveDevice, DeviceApproved, Approves, Announces, onlyForApprover, Approvals, SameParties,
           payloadMustExist, payloadMustBeNotApproved,
           LogInv, TypeOK, LogMatchesPayloads, FlagsInOrder, Payload
  <2> QED
    BY <1>c, <2>3, <2>4, <2>5
<1>4. ASSUME NEW sender \in Address, NEW h \in Hash, NEW expiredIn \in Duration,
             approveAccess(sender, h, expiredIn)
      PROVE  Goal
  <2> DEFINE e == AccessApproved(h, sender, payloads[h].source, ExpiryTime(expiredIn))
  <2>1. payloads[h].source \in AnyAddress /\ payloads[h].target \in AnyAddress
    BY <1>c DEF Payload
  <2>2. ExpiryTime(expiredIn) \in Uint
    BY RegistryAssumption DEF LogInv, TypeOK, ExpiryTime, Uint
  <2>3. e \in Event /\ Emit(e) /\ e.payloadHash = h
    BY <1>4, EventsTyped, <1>b, <2>1, <2>2 DEF approveAccess, AccessApproved
  <2>4. payloads' = [payloads EXCEPT ![h] = payloads'[h]]
    BY <1>4 DEF approveAccess, LogInv, TypeOK
  <2>5. Approves(e, payloads[h], payloads'[h])
    BY <1>4, <1>c
       DEF approveAccess, AccessApproved, Approves, Announces, onlyForApprover, Approvals, SameParties,
           payloadMustExist, payloadMustBeNotApproved,
           LogInv, TypeOK, LogMatchesPayloads, FlagsInOrder, Payload
  <2> QED
    BY <1>c, <2>3, <2>4, <2>5
<1>5. ASSUME NEW sender \in Address, NEW h \in Hash, NEW gateway \in AnyAddress,
             revokeGateway(sender, h, gateway)
      PROVE  Goal
  <2> DEFINE e == GatewayRevoked(h, sender, gateway)
  <2>3. e \in Event /\ Emit(e) /\ e.payloadHash = h
    BY <1>5, EventsTyped, <1>b DEF revokeGateway, GatewayRevoked
  <2>4. payloads' = [payloads EXCEPT ![h] = payloads'[h]]
    BY <1>5 DEF revokeGateway, LogInv, TypeOK
  <2>5. Revokes(e, payloads[h], payloads'[h])
    BY <1>5, <1>c
       DEF revokeGateway, GatewayRevoked, Revokes, Announces, Approvals, onlyForSource, payloadIsForValidTarget, Revocations, SameParties,
           payloadMustExist, payloadMustBeApproved,
           payloadMustBeNotRevoked,
           LogInv, TypeOK, LogMatchesPayloads, FlagsInOrder, Payload
  <2> QED
    BY <1>c, <2>3, <2>4, <2>5
<1>6. ASSUME NEW sender \in Address, NEW h \in Hash, NEW device \in AnyAddress,
             revokeDevice(sender, h, device)
      PROVE  Goal
  <2> DEFINE e == DeviceRevoked(h, sender, device)
  <2>3. e \in Event /\ Emit(e) /\ e.payloadHash = h
    BY <1>6, EventsTyped, <1>b DEF revokeDevice, DeviceRevoked
  <2>4. payloads' = [payloads EXCEPT ![h] = payloads'[h]]
    BY <1>6 DEF revokeDevice, LogInv, TypeOK
  <2>5. Revokes(e, payloads[h], payloads'[h])
    BY <1>6, <1>c
       DEF revokeDevice, DeviceRevoked, Revokes, Announces, Approvals, onlyForSource, payloadIsForValidTarget, Revocations, SameParties,
           payloadMustExist, payloadMustBeApproved,
           payloadMustBeNotRevoked,
           LogInv, TypeOK, LogMatchesPayloads, FlagsInOrder, Payload
  <2> QED
    BY <1>c, <2>3, <2>4, <2>5
<1>7. ASSUME NEW sender \in Address, NEW h \in Hash, revokeAccess(sender, h)
      PROVE  Goal
  <2> DEFINE e == AccessRevoked(h, sender, payloads[h].target)
  <2>1. payloads[h].source \in AnyAddress /\ payloads[h].target \in AnyAddress
    BY <1>c DEF Payload
  <2>3. e \in Event /\ Emit(e) /\ e.payloadHash = h
    BY <1>7, EventsTyped, <1>b, <2>1 DEF revokeAccess, AccessRevoked
  <2>4. payloads' = [payloads EXCEPT ![h] = payloads'[h]]
    BY <1>7 DEF revokeAccess, LogInv, TypeOK
  <2>5. Revokes(e, payloads[h], payloads'[h])
    BY <1>7, <1>c
       DEF revokeAccess, AccessRevoked, Revokes, Announces, Approvals, onlyForSourceOrApprover, Revocations, SameParties,
           payloadMustExist, payloadMustBeApproved,
           payloadMustBeNotRevoked,
           LogInv, TypeOK, LogMatchesPayloads, FlagsInOrder, Payload
  <2> QED
    BY <1>c, <2>3, <2>4, <2>5
<1>8. CASE Tick
  BY <1>8 DEF Tick
<1> QED
  BY <1>1, <1>2, <1>3, <1>4, <1>5, <1>6, <1>7, <1>8 DEF Next, Transact

\* The agreement of the log and the payloads is inductive.
LEMMA LogInvStep == LogInv /\ [Next]_vars => LogInv'
<1> SUFFICES ASSUME LogInv, [Next]_vars PROVE LogMatchesPayloads'
  BY TypeStep DEF LogInv
<1>1. CASE UNCHANGED <<payloads, log>>
  BY <1>1 DEF LogInv, LogMatchesPayloads, EventsInOrder, FlagsAreLogged,
              FlagsInOrder, PartiesAreLogged
<1>2. CASE Next /\ ~UNCHANGED <<payloads, log>>
  BY <1>2, PayloadStep, LogStep
<1> QED
  BY <1>1, <1>2 DEF vars

LEMMA LogInvInit == Init => LogInv
<1> SUFFICES ASSUME Init PROVE LogInv
  OBVIOUS
<1>1. TypeOK
  BY RegistryAssumption DEF Init, TypeOK, NoPayload, Payload, AnyAddress, RouterIp, Uint
<1>2. DOMAIN log = {}
  BY DEF Init
<1>3. EventsInOrder /\ PartiesAreLogged
  BY <1>2 DEF EventsInOrder, PartiesAreLogged
<1>4. FlagsAreLogged /\ FlagsInOrder
  BY <1>2 DEF Init, FlagsAreLogged, FlagsInOrder, Logged, NoPayload
<1> QED
  BY <1>1, <1>3, <1>4 DEF LogInv, LogMatchesPayloads

LEMMA LogInvariant == Spec => []LogInv
  BY LogInvInit, LogInvStep, PTL DEF Spec

\* Replaying the log gives the contract's state of every payload.
THEOREM LogReplays == Spec => []LogMatchesPayloads
<1>1. LogInv => LogMatchesPayloads
  BY DEF LogInv
<1> QED
  BY <1>1, LogInvariant, PTL

-------------------------------------------------------------------------------
(* Action properties.                                                      *)

\* Nothing touches the expiry of an approved payload, or takes a revocation back.
LEMMA ApprovedStays ==
    ASSUME LogInv, Next, NEW g \in Hash, payloads[g].isApproved
    PROVE  /\ payloads'[g].expiryTime = payloads[g].expiryTime
           /\ payloads[g].isRevoked => payloads'[g].isRevoked
           /\ payloads'[g].isApproved
<1> DEFINE Goal == /\ payloads'[g].expiryTime = payloads[g].expiryTime
                   /\ payloads[g].isRevoked => payloads'[g].isRevoked
                   /\ payloads'[g].isApproved
<1>a. /\ payloads \in [Hash -> Payload]
      /\ payloads[g] \in Payload
      /\ payloads[g].isValue
  BY DEF LogInv, TypeOK, LogMatchesPayloads, FlagsInOrder
<1>1. ASSUME NEW sender \in Address, NEW h \in Hash, NEW target \in AnyAddress,
             NEW approver \in AnyAddress, storePayload(sender, h, target, approver)
      PROVE  Goal
  BY <1>1, <1>a DEF storePayload, Payload,
           payloadMustNotExist
<1>2. ASSUME NEW sender \in Address, NEW h \in Hash, NEW routerIp \in RouterIp,
             approveGateway(sender, h, routerIp)
      PROVE  Goal
  BY <1>2, <1>a DEF approveGateway, Payload,
           payloadMustExist, payloadMustBeNotApproved
<1>3. ASSUME NEW sender \in Address, NEW h \in Hash, approveDevice(sender, h)
      PROVE  Goal
  BY <1>3, <1>a DEF approveDevice, Payload,
           payloadMustExist, payloadMustBeNotApproved
<1>4. ASSUME NEW sender \in Address, NEW h \in Hash, NEW expiredIn \in Duration,
             approveAccess(sender, h, expiredIn)
      PROVE  Goal
  BY <1>4, <1>a DEF approveAccess, Payload,
           payloadMustExist, payloadMustBeNotApproved
<1>5. ASSUME NEW sender \in Address, NEW h \in Hash, NEW gateway \in AnyAddress,
             revokeGateway(sender, h, gateway)
      PROVE  Goal
  BY <1>5, <1>a DEF revokeGateway, Payload,
           payloadMustExist, payloadMustBeApproved,
           payloadMustBeNotRevoked
<1>6. ASSUME NEW sender \in Address, NEW h \in Hash, NEW device \in AnyAddress,
             revokeDevice(sender, h, device)
      PROVE  Goal
  BY <1>6, <1>a DEF revokeDevice, Payload,
           payloadMustExist, payloadMustBeApproved,
           payloadMustBeNotRevoked
<1>7. ASSUME NEW sender \in Address, NEW h \in Hash, revokeAccess(sender, h)
      PROVE  Goal
  BY <1>7, <1>a DEF revokeAccess, Payload,
           payloadMustExist, payloadMustBeApproved,
           payloadMustBeNotRevoked
<1>8. CASE Tick
  BY <1>8, <1>a DEF Tick
<1> QED
  BY <1>1, <1>2, <1>3, <1>4, <1>5, <1>6, <1>7, <1>8 DEF Next, Transact

\* Time never goes back: only Tick changes it.
LEMMA TimeAdvances == ASSUME TypeOK, Next PROVE now' >= now /\ now \in Int /\ now' \in Int
<1>1. now \in Int
  BY RegistryAssumption DEF TypeOK, Uint
<1>2. now' = now \/ now' = now + 1
  BY DEF Next, Transact, Tick, storePayload, approveGateway, approveDevice, approveAccess,
     revokeGateway, revokeDevice, revokeAccess
<1> QED
  BY <1>1, <1>2

\* An access that was granted and has ended never becomes valid again.
THEOREM EndedAccessStaysEnded == Spec => AccessNeverRevives
<1> DEFINE Ends == \A h \in Hash :
               payloads[h].isApproved /\ ~isValidAccess(h) => ~isValidAccess(h)'
<1>1. ASSUME LogInv, [Next]_vars PROVE [Ends]_vars
  <2> SUFFICES ASSUME Next, NEW h \in Hash, payloads[h].isApproved, ~isValidAccess(h)
               PROVE  ~isValidAccess(h)'
    BY <1>1
  <2>1. /\ payloads[h].isValue /\ payloads[h] \in Payload
        /\ payloads[h].expiryTime \in Int
    BY <1>1, RegistryAssumption
       DEF LogInv, TypeOK, LogMatchesPayloads, FlagsInOrder, Payload, Uint
  <2>2. payloads[h].isRevoked \/ payloads[h].expiryTime < now
    BY <1>1, <2>1, TimeAdvances DEF LogInv, isValidAccess, payloadMustExist
  <2>3. /\ payloads'[h].expiryTime = payloads[h].expiryTime
        /\ payloads[h].isRevoked => payloads'[h].isRevoked
    BY <1>1, ApprovedStays
  <2>4. payloads'[h].isRevoked \/ payloads'[h].expiryTime < now'
    BY <1>1, <2>1, <2>2, <2>3, TimeAdvances DEF LogInv
  <2> QED
    BY <1>1, <2>1, <2>3, <2>4, TimeAdvances DEF LogInv, isValidAccess
<1> QED
  BY <1>1, LogInvariant, PTL DEF Spec, AccessNeverRevives

\* A gateway becomes trusted only by approving a payload never approved before.
THEOREM TrustIsNeverReused == Spec => TrustNeedsFreshApproval
<1> DEFINE Fresh == \A g \in AnyAddress :
               ~isTrustedGateway(g) /\ isTrustedGateway(g)' =>
                   \E h \in Hash : /\ payloads[h].target = g
                                   /\ ~payloads[h].isApproved /\ payloads'[h].isApproved
<1>1. ASSUME LogInv, [Next]_vars PROVE [Fresh]_vars
  <2> SUFFICES ASSUME Next, NEW g \in AnyAddress,
                      ~isTrustedGateway(g), isTrustedGateway(g)'
               PROVE  \E h \in Hash : /\ payloads[h].target = g
                                      /\ ~payloads[h].isApproved /\ payloads'[h].isApproved
    BY <1>1
  <2> USE DEF isTrustedGateway
  <2>a. /\ payloads \in [Hash -> Payload]
        /\ trustedGateways \in [AnyAddress -> RouterIp]
    BY <1>1 DEF LogInv, TypeOK
  <2>1. ASSUME NEW sender \in Address, NEW h \in Hash, NEW routerIp \in RouterIp,
               approveGateway(sender, h, routerIp)
        PROVE  /\ payloads[h].target = g
               /\ ~payloads[h].isApproved /\ payloads'[h].isApproved
    BY <2>1, <2>a DEF approveGateway, payloadMustBeNotApproved, Payload
  <2>2. ASSUME NEW sender \in Address, NEW h \in Hash, NEW gateway \in AnyAddress,
               revokeGateway(sender, h, gateway)
        PROVE  FALSE
    BY <2>2, <2>a DEF revokeGateway
  <2>3. trustedGateways' # trustedGateways
    OBVIOUS
  <2> QED
    BY <2>1, <2>2, <2>3 DEF Next, Transact, storePayload, approveDevice, approveAccess,
       revokeDevice, revokeAccess, Tick
<1> QED
  BY <1>1, LogInvariant, PTL DEF Spec, TrustNeedsFreshApproval

-------------------------------------------------------------------------------
(* Refinement.                                                             *)

\* A transaction that changes payload h is the lifecycle step of its stage.
LEMMA LifecycleStep ==
    ASSUME LogInv, NEW h \in Hash, NEW p \in Payload,
           payloads' = [payloads EXCEPT ![h] = p],
           NEW e, \/ Stores(e, payloads[h], p)
                  \/ Approves(e, payloads[h], p)
                  \/ Revokes(e, payloads[h], p)
    PROVE  Lifecycle!Next
<1> DEFINE q == payloads[h]
           stage == [g \in Hash |-> StageOf(payloads[g])]
           stageNext == [g \in Hash |-> StageOf(payloads'[g])]
           parties == [g \in Hash |-> PartiesOf(payloads[g])]
           partiesNext == [g \in Hash |-> PartiesOf(payloads'[g])]
<1>1. payloads \in [Hash -> Payload] /\ q \in Payload
  BY DEF LogInv, TypeOK
<1>2. stageNext = [stage EXCEPT ![h] = StageOf(p)]
  BY <1>1
<1>3. partiesNext = [parties EXCEPT ![h] = PartiesOf(p)]
  BY <1>1
<1>4. /\ q.isRevoked => q.isApproved
      /\ q.isApproved => q.isValue
  BY DEF LogInv, LogMatchesPayloads, FlagsInOrder
<1>5. CASE Stores(e, q, p)
  <2>1. StageOf(q) = "absent" /\ StageOf(p) = "stored"
    BY <1>4, <1>5 DEF Stores, StageOf
  <2>2. PartiesOf(p) \in Lifecycle!Parties
    BY DEF PartiesOf, Payload, Lifecycle!Parties
  <2> QED
    BY <1>2, <1>3, <2>1, <2>2 DEF Lifecycle!Next, Lifecycle!Store
<1>6. CASE Approves(e, q, p)
  <2>1. StageOf(q) = "stored" /\ StageOf(p) = "approved"
    BY <1>4, <1>6 DEF Approves, StageOf
  <2>2. partiesNext = parties
    BY <1>1, <1>3, <1>6 DEF Approves, SameParties, PartiesOf
  <2> QED
    BY <1>2, <2>1, <2>2 DEF Lifecycle!Next, Lifecycle!Approve
<1>7. CASE Revokes(e, q, p)
  <2>1. StageOf(q) = "approved" /\ StageOf(p) = "revoked"
    BY <1>7 DEF Revokes, StageOf
  <2>2. partiesNext = parties
    BY <1>1, <1>3, <1>7 DEF Revokes, SameParties, PartiesOf
  <2> QED
    BY <1>2, <2>1, <2>2 DEF Lifecycle!Next, Lifecycle!Revoke
<1> QED
  BY <1>5, <1>6, <1>7

\* The contract implements PayloadLifecycle.
THEOREM ImplementsLifecycle == Spec => LifecycleSpec
<1>1. Init => Lifecycle!Init
  BY DEF Init, Lifecycle!Init, StageOf, PartiesOf, NoPayload
<1>2. ASSUME LogInv, [Next]_vars PROVE [Lifecycle!Next]_(Lifecycle!vars)
  <2>1. CASE UNCHANGED payloads
    BY <2>1 DEF Lifecycle!vars
  <2>2. CASE Next /\ payloads' # payloads
    <3>1. PICK h \in Hash, e \in Event :
              /\ payloads' = [payloads EXCEPT ![h] = payloads'[h]]
              /\ payloads'[h] \in Payload
              /\ \/ Stores(e, payloads[h], payloads'[h])
                 \/ Approves(e, payloads[h], payloads'[h])
                 \/ Revokes(e, payloads[h], payloads'[h])
      BY <1>2, <2>2, PayloadStep
    <3> QED
      BY <1>2, <3>1, LifecycleStep
  <2> QED
    BY <1>2, <2>1, <2>2 DEF vars
<1> QED
  BY <1>1, <1>2, LogInvariant, PTL DEF Spec, LifecycleSpec, Lifecycle!Spec

-------------------------------------------------------------------------------
(* The table of devices.                                                   *)

\* What an event makes of the gateway of device d.
Moved(e, d) == IF ApprovesDevice(e, d) THEN e.source
               ELSE IF RevokesDevice(e, d) THEN NoAddress ELSE trustedDevices[d]

\* A new event is the last move of the devices it moves, and of no other.
LEMMA LastMoveGrows ==
    ASSUME NEW l \in Seq(Event), NEW e \in Event, NEW d, NEW i \in 1 .. (Len(l) + 1)
    PROVE  LastMove(Append(l, e), d, i) <=>
               IF ApprovesDevice(e, d) \/ RevokesDevice(e, d)
               THEN i = Len(l) + 1 ELSE LastMove(l, d, i)
<1>1. /\ Len(l) \in Nat
      /\ DOMAIN l = 1 .. Len(l)
      /\ DOMAIN Append(l, e) = 1 .. (Len(l) + 1)
      /\ \A j \in 1 .. Len(l) : Append(l, e)[j] = l[j]
      /\ Append(l, e)[Len(l) + 1] = e
  BY AppendFacts
<1>2. 1 .. (Len(l) + 1) = (1 .. Len(l)) \cup {Len(l) + 1}
  BY <1>1
<1>3. CASE ApprovesDevice(e, d) \/ RevokesDevice(e, d)
  BY <1>1, <1>2, <1>3 DEF LastMove
<1>4. CASE ~ApprovesDevice(e, d) /\ ~RevokesDevice(e, d)
  BY <1>1, <1>2, <1>4 DEF LastMove
<1> QED
  BY <1>3, <1>4

\* A step that moves the devices as its event says keeps the table and the log together.
LEMMA ReplayStep ==
    ASSUME TypeOK, DevicesReplayFromLog, NEW e \in Event, Emit(e),
           \A d \in AnyAddress : trustedDevices'[d] = Moved(e, d)
    PROVE  DevicesReplayFromLog'
<1>1. /\ log \in Seq(Event)
      /\ log' = Append(log, e)
      /\ Len(log) \in Nat
      /\ DOMAIN log' = 1 .. (Len(log) + 1)
      /\ DOMAIN log = 1 .. Len(log)
      /\ \A i \in 1 .. Len(log) : log'[i] = log[i]
      /\ log'[Len(log) + 1] = e
  BY AppendFacts DEF TypeOK, Emit
<1> SUFFICES ASSUME NEW d \in AnyAddress
             PROVE  /\ \A i \in DOMAIN log' :
                           LastMove(log', d, i) =>
                               trustedDevices'[d] = IF log'[i].event = "DeviceApproved"
                                                    THEN log'[i].source ELSE NoAddress
                    /\ trustedDevices'[d] # NoAddress => \E i \in DOMAIN log' : LastMove(log', d, i)
  BY DEF DevicesReplayFromLog
<1>2. \A i \in DOMAIN log' : LastMove(log', d, i) <=>
          IF ApprovesDevice(e, d) \/ RevokesDevice(e, d)
          THEN i = Len(log) + 1 ELSE LastMove(log, d, i)
  BY <1>1, LastMoveGrows
<1>3. CASE ApprovesDevice(e, d) \/ RevokesDevice(e, d)
  BY <1>1, <1>2, <1>3 DEF Moved, ApprovesDevice, RevokesDevice
<1>4. CASE ~ApprovesDevice(e, d) /\ ~RevokesDevice(e, d)
  <2>1. trustedDevices'[d] = trustedDevices[d]
    BY <1>4 DEF Moved
  <2>2. ASSUME NEW i \in DOMAIN log', LastMove(log', d, i)
        PROVE  i \in DOMAIN log /\ LastMove(log, d, i) /\ log'[i] = log[i]
    BY <1>1, <1>2, <1>4, <2>2 DEF LastMove
  <2> QED
    BY <1>1, <1>2, <1>4, <2>1, <2>2 DEF DevicesReplayFromLog
<1> QED
  BY <1>3, <1>4

ReplayInv == TypeOK /\ DevicesReplayFromLog

LEMMA ReplayInvStep == ReplayInv /\ [Next]_vars => ReplayInv'
<1> SUFFICES ASSUME ReplayInv, [Next]_vars PROVE DevicesReplayFromLog'
  BY TypeStep DEF ReplayInv
<1>a. /\ TypeOK /\ DevicesReplayFromLog
      /\ Address \subseteq AnyAddress /\ 0 \in Uint
      /\ \A h \in Hash : payloads[h].source \in AnyAddress /\ payloads[h].target \in AnyAddress
      /\ trustedDevices \in [AnyAddress -> AnyAddress]
  BY RegistryAssumption DEF ReplayInv, TypeOK, Payload, AnyAddress, Uint
<1> USE DEF Moved, ApprovesDevice, RevokesDevice
<1>1. ASSUME NEW sender \in Address, NEW h \in Hash, NEW target \in AnyAddress,
             NEW approver \in AnyAddress, storePayload(sender, h, target, approver)
      PROVE  DevicesReplayFromLog'
  <2>1. PayloadAdded(h, sender, target, approver) \in Event
    BY <1>a, EventsTyped
  <2> QED
    BY <1>1, <1>a, <2>1, ReplayStep DEF storePayload, PayloadAdded
<1>2. ASSUME NEW sender \in Address, NEW h \in Hash, NEW routerIp \in RouterIp,
             approveGateway(sender, h, routerIp)
      PROVE  DevicesReplayFromLog'
  <2>1. GatewayApproved(h, sender, payloads[h].target) \in Event
    BY <1>a, EventsTyped
  <2> QED
    BY <1>2, <1>a, <2>1, ReplayStep DEF approveGateway, GatewayApproved
<1>3. ASSUME NEW sender \in Address, NEW h \in Hash, approveDevice(sender, h)
      PROVE  DevicesReplayFromLog'
  <2>1. DeviceApproved(h, sender, payloads[h].source, payloads[h].target) \in Event
    BY <1>a, EventsTyped
  <2> QED
    BY <1>3, <1>a, <2>1, ReplayStep DEF approveDevice, DeviceApproved
<1>4. ASSUME NEW sender \in Address, NEW h \in Hash, NEW expiredIn \in Duration,
             approveAccess(sender, h, expiredIn)
      PROVE  DevicesReplayFromLog'
  <2>1. ExpiryTime(expiredIn) \in Uint
    BY <1>a, RegistryAssumption DEF TypeOK, ExpiryTime, Uint
  <2>2. AccessApproved(h, sender, payloads[h].source, ExpiryTime(expiredIn)) \in Event
    BY <1>a, <2>1, EventsTyped
  <2> QED
    BY <1>4, <1>a, <2>2, ReplayStep DEF approveAccess, AccessApproved
<1>5. ASSUME NEW sender \in Address, NEW h \in Hash, NEW gateway \in AnyAddress,
             revokeGateway(sender, h, gateway)
      PROVE  DevicesReplayFromLog'
  <2>1. GatewayRevoked(h, sender, gateway) \in Event
    BY <1>a, EventsTyped
  <2> QED
    BY <1>5, <1>a, <2>1, ReplayStep DEF revokeGateway, GatewayRevoked
<1>6. ASSUME NEW sender \in Address, NEW h \in Hash, NEW device \in AnyAddress,
             revokeDevice(sender, h, device)
      PROVE  DevicesReplayFromLog'
  <2>1. DeviceRevoked(h, sender, device) \in Event
    BY <1>a, EventsTyped
  <2> QED
    BY <1>6, <1>a, <2>1, ReplayStep DEF revokeDevice, DeviceRevoked
<1>7. ASSUME NEW sender \in Address, NEW h \in Hash, revokeAccess(sender, h)
      PROVE  DevicesReplayFromLog'
  <2>1. AccessRevoked(h, sender, payloads[h].target) \in Event
    BY <1>a, EventsTyped
  <2> QED
    BY <1>7, <1>a, <2>1, ReplayStep DEF revokeAccess, AccessRevoked
<1>8. CASE Tick \/ UNCHANGED vars
  BY <1>8, <1>a DEF Tick, vars, DevicesReplayFromLog
<1> QED
  BY <1>1, <1>2, <1>3, <1>4, <1>5, <1>6, <1>7, <1>8 DEF Next, Transact

\* The contract's table of devices is what the log says of each device.
THEOREM DevicesAreReplayed == Spec => []DevicesReplayFromLog
<1>1. Init => ReplayInv
  <2>1. Init => TypeOK
    BY RegistryAssumption DEF Init, TypeOK, NoPayload, Payload, AnyAddress, RouterIp, Uint
  <2> QED
    BY <2>1 DEF Init, ReplayInv, DevicesReplayFromLog, LastMove
<1>2. ReplayInv => DevicesReplayFromLog
  BY DEF ReplayInv
<1> QED
  BY <1>1, <1>2, ReplayInvStep, PTL DEF Spec

-------------------------------------------------------------------------------
(* The chain behind a trusted device.                                      *)

\* The events of a payload of each kind.
EventsOf(k) ==
    IF k = "gateway" THEN {"PayloadAdded", "GatewayApproved", "GatewayRevoked"}
    ELSE IF k = "device" THEN {"PayloadAdded", "DeviceApproved", "DeviceRevoked"}
    ELSE {"PayloadAdded", "AccessApproved", "AccessRevoked"}

\* So far every payload was only used by the methods of its kind.
MethodsMatch(kind) == \A i \in DOMAIN log : log[i].event \in EventsOf(kind[log[i].payloadHash])

\* A payload of kind k about target is approved and not revoked.
Stands(kind, k, h, target) ==
    /\ kind[h] = k /\ payloads[h].target = target
    /\ payloads[h].isApproved /\ ~payloads[h].isRevoked

GatewaysStand(kind) ==
    \A g \in AnyAddress :
        isTrustedGateway(g) => \E h \in Hash : Stands(kind, "gateway", h, g)

DevicesStand(kind) ==
    \A d \in AnyAddress :
        trustedDevices[d] # NoAddress =>
            \E h \in Hash : Stands(kind, "device", h, d) /\ payloads[h].source = trustedDevices[d]

StandsInv(kind) == LogInv /\ GatewaysStand(kind) /\ DevicesStand(kind)

\* The event of a step is one of its payload's kind.
LEMMA EventMatches ==
    ASSUME NEW kind, TypeOK, NEW e \in Event, Emit(e), MethodsMatch(kind)'
    PROVE  e.event \in EventsOf(kind[e.payloadHash])
<1>1. /\ Len(log) \in Nat
      /\ DOMAIN log' = 1 .. (Len(log) + 1)
      /\ log'[Len(log) + 1] = e
  BY AppendFacts DEF TypeOK, Emit
<1>2. Len(log) + 1 \in DOMAIN log'
  BY <1>1
<1> QED
  BY <1>1, <1>2 DEF MethodsMatch

\* A step that leaves the tables alone, and payloads that stand as they are, keeps them.
LEMMA StandsStays ==
    ASSUME NEW kind, GatewaysStand(kind), DevicesStand(kind),
           UNCHANGED <<trustedGateways, trustedDevices>>,
           \A h \in Hash : payloads[h].isApproved /\ kind[h] \in {"gateway", "device"} => payloads'[h] = payloads[h]
    PROVE  GatewaysStand(kind)' /\ DevicesStand(kind)'
  BY DEF GatewaysStand, DevicesStand, Stands, isTrustedGateway

LEMMA StandsStep ==
    ASSUME NEW kind, StandsInv(kind), MethodsMatch(kind)', [Next]_vars
    PROVE  GatewaysStand(kind)' /\ DevicesStand(kind)'
<1> DEFINE Goal == GatewaysStand(kind)' /\ DevicesStand(kind)'
<1>a. /\ TypeOK /\ GatewaysStand(kind) /\ DevicesStand(kind)
      /\ Address \subseteq AnyAddress /\ 0 \in Uint
      /\ \A h \in Hash : /\ payloads[h].source \in AnyAddress /\ payloads[h].target \in AnyAddress
                         /\ payloads[h] \in Payload
                         /\ payloads[h].isApproved => payloads[h].isValue
                         /\ payloads[h].isRevoked => payloads[h].isApproved
      /\ payloads \in [Hash -> Payload]
      /\ trustedGateways \in [AnyAddress -> RouterIp]
      /\ trustedDevices \in [AnyAddress -> AnyAddress]
  BY RegistryAssumption DEF StandsInv, LogInv, LogMatchesPayloads, FlagsInOrder, TypeOK, Payload,
     AnyAddress, Uint
<1>1. ASSUME NEW sender \in Address, NEW h \in Hash, NEW target \in AnyAddress,
             NEW approver \in AnyAddress, storePayload(sender, h, target, approver)
      PROVE  Goal
  <2>1. \A g \in Hash : payloads[g].isApproved => payloads'[g] = payloads[g]
    BY <1>1, <1>a DEF storePayload, payloadMustNotExist
  <2> QED
    BY <1>1, <1>a, <2>1, StandsStays DEF storePayload
<1>2. ASSUME NEW sender \in Address, NEW h \in Hash, NEW routerIp \in RouterIp,
             approveGateway(sender, h, routerIp)
      PROVE  Goal
  <2>1. GatewayApproved(h, sender, payloads[h].target) \in Event
    BY <1>a, EventsTyped
  <2>2. kind[h] = "gateway"
    BY <1>2, <1>a, <2>1, EventMatches DEF approveGateway, GatewayApproved, EventsOf
  <2>3. /\ \A g \in Hash : payloads[g].isApproved => payloads'[g] = payloads[g]
        /\ Stands(kind, "gateway", h, payloads[h].target)'
    BY <1>2, <1>a, <2>2
       DEF approveGateway, payloadMustBeNotApproved, Stands, Payload
  <2> QED
    BY <1>2, <1>a, <2>3 DEF approveGateway, GatewaysStand, DevicesStand, Stands, isTrustedGateway
<1>3. ASSUME NEW sender \in Address, NEW h \in Hash, approveDevice(sender, h)
      PROVE  Goal
  <2>1. DeviceApproved(h, sender, payloads[h].source, payloads[h].target) \in Event
    BY <1>a, EventsTyped
  <2>2. kind[h] = "device"
    BY <1>3, <1>a, <2>1, EventMatches DEF approveDevice, DeviceApproved, EventsOf
  <2>3. /\ \A g \in Hash : payloads[g].isApproved => payloads'[g] = payloads[g]
        /\ Stands(kind, "device", h, payloads[h].target)' /\ payloads'[h].source = payloads[h].source
    BY <1>3, <1>a, <2>2
       DEF approveDevice, payloadMustBeNotApproved, Stands, Payload
  <2> QED
    BY <1>3, <1>a, <2>3 DEF approveDevice, GatewaysStand, DevicesStand, Stands, isTrustedGateway
<1>4. ASSUME NEW sender \in Address, NEW h \in Hash, NEW expiredIn \in Duration,
             approveAccess(sender, h, expiredIn)
      PROVE  Goal
  <2>1. \A g \in Hash : payloads[g].isApproved => payloads'[g] = payloads[g]
    BY <1>4, <1>a DEF approveAccess, payloadMustBeNotApproved
  <2> QED
    BY <1>4, <1>a, <2>1, StandsStays DEF approveAccess
<1>5. ASSUME NEW sender \in Address, NEW h \in Hash, NEW gateway \in AnyAddress,
             revokeGateway(sender, h, gateway)
      PROVE  Goal
  <2>1. GatewayRevoked(h, sender, gateway) \in Event
    BY <1>a, EventsTyped
  <2>2. kind[h] = "gateway"
    BY <1>5, <1>a, <2>1, EventMatches DEF revokeGateway, GatewayRevoked, EventsOf
  <2>3. \A g \in Hash : g # h => payloads'[g] = payloads[g]
    BY <1>5, <1>a DEF revokeGateway
  <2> QED
    BY <1>5, <1>a, <2>2, <2>3
       DEF revokeGateway, payloadIsForValidTarget, GatewaysStand, DevicesStand, Stands, isTrustedGateway
<1>6. ASSUME NEW sender \in Address, NEW h \in Hash, NEW device \in AnyAddress,
             revokeDevice(sender, h, device)
      PROVE  Goal
  <2>1. DeviceRevoked(h, sender, device) \in Event
    BY <1>a, EventsTyped
  <2>2. kind[h] = "device"
    BY <1>6, <1>a, <2>1, EventMatches DEF revokeDevice, DeviceRevoked, EventsOf
  <2>3. \A g \in Hash : g # h => payloads'[g] = payloads[g]
    BY <1>6, <1>a DEF revokeDevice
  <2> QED
    BY <1>6, <1>a, <2>2, <2>3
       DEF revokeDevice, payloadIsForValidTarget, GatewaysStand, DevicesStand, Stands, isTrustedGateway
<1>7. ASSUME NEW sender \in Address, NEW h \in Hash, revokeAccess(sender, h)
      PROVE  Goal
  <2>1. AccessRevoked(h, sender, payloads[h].target) \in Event
    BY <1>a, EventsTyped
  <2>2. kind[h] \notin {"gateway", "device"}
    BY <1>7, <1>a, <2>1, EventMatches DEF revokeAccess, AccessRevoked, EventsOf
  <2>3. \A g \in Hash : g # h => payloads'[g] = payloads[g]
    BY <1>7, <1>a DEF revokeAccess
  <2> QED
    BY <1>7, <1>a, <2>2, <2>3, StandsStays DEF revokeAccess
<1>8. CASE Tick \/ UNCHANGED vars
  BY <1>8, <1>a, StandsStays DEF Tick, vars
<1> QED
  BY <1>1, <1>2, <1>3, <1>4, <1>5, <1>6, <1>7, <1>8 DEF Next, Transact

LEMMA StandsHasChain == ASSUME NEW kind PROVE StandsInv(kind) => TrustedDeviceHasChain
<1> SUFFICES ASSUME StandsInv(kind), NEW d \in AnyAddress, isTrustedDevice(d),
                    trustedDevices[d] # NoAddress
             PROVE  \E hd, hg \in Hash :
                        /\ payloads[hd].isApproved /\ ~payloads[hd].isRevoked
                        /\ payloads[hg].isApproved /\ ~payloads[hg].isRevoked
                        /\ payloads[hd].target = d
                        /\ payloads[hd].source = trustedDevices[d]
                        /\ payloads[hg].target = trustedDevices[d]
  BY DEF TrustedDeviceHasChain
<1>1. trustedDevices[d] \in AnyAddress
  BY DEF StandsInv, LogInv, TypeOK
<1> QED
  BY <1>1 DEF StandsInv, GatewaysStand, DevicesStand, Stands, isTrustedDevice, isTrustedGateway

\* isTrustedDevice answers yes for a device that has a gateway only while both have an
\* approved payload that nobody revoked, whatever kinds the payloads have, as long as
\* each is used by the methods of its kind.
THEOREM DeviceChainHolds ==
    ASSUME NEW kind \in [Hash -> {"gateway", "device", "access"}]
    PROVE  Spec /\ []MethodsMatch(kind) => []TrustedDeviceHasChain
<1>1. Init => StandsInv(kind)
  BY LogInvInit, RegistryAssumption
     DEF Init, StandsInv, GatewaysStand, DevicesStand, isTrustedGateway
<1>2. StandsInv(kind) /\ MethodsMatch(kind)' /\ [Next]_vars => StandsInv(kind)'
  BY LogInvStep, StandsStep DEF StandsInv
<1>3. StandsInv(kind) => TrustedDeviceHasChain
  BY StandsHasChain
<1> QED
  BY <1>1, <1>2, <1>3, PTL DEF Spec

-------------------------------------------------------------------------------
(* What a program that follows the log can rely on.                        *)

\* What an event in the log says of its payload.
LEMMA EventFacts ==
    ASSUME LogInv, NEW i \in DOMAIN log
    PROVE  /\ log[i].payloadHash \in Hash
           /\ log[i].event = "PayloadAdded" =>
                 /\ payloads[log[i].payloadHash].isValue
                 /\ payloads[log[i].payloadHash].approver = log[i].approver
           /\ log[i].event \in Approvals => payloads[log[i].payloadHash].isApproved
<1>1. log[i] \in Event
  BY DEF LogInv, TypeOK
<1>2. log[i].payloadHash \in Hash
  BY <1>1 DEF Event
<1>3. log[i].event = "PayloadAdded" => Rank(log[i]) = 1
  BY DEF Rank
<1>4. log[i].event \in Approvals => Rank(log[i]) = 2
  BY DEF Rank, Approvals
<1> QED
  BY <1>2, <1>3, <1>4 DEF LogInv, LogMatchesPayloads, FlagsAreLogged, PartiesAreLogged, Announces, Logged

\* A payload has one event of each rank.
LEMMA EventOnce ==
    ASSUME LogInv, NEW i \in DOMAIN log, NEW j \in DOMAIN log,
           log[i].payloadHash = log[j].payloadHash, Rank(log[i]) = Rank(log[j])
    PROVE  i = j
<1>1. Rank(log[i]) \in Int /\ i \in Int /\ j \in Int
  BY RankBounds DEF LogInv, TypeOK
<1> QED
  BY <1>1 DEF LogInv, LogMatchesPayloads, EventsInOrder

\* A payload is announced once.
LEMMA AddedOnce ==
    ASSUME LogInv, NEW i \in DOMAIN log, NEW j \in DOMAIN log,
           log[i].event = "PayloadAdded", log[j].event = "PayloadAdded",
           log[i].payloadHash = log[j].payloadHash
    PROVE  i = j
  BY EventOnce DEF Rank

\* Events stay where they are in the log, and payloads keep what was said of them.
LEMMA ChainGrows ==
    ASSUME LogInv, LogInv', [Next]_vars
    PROVE  /\ DOMAIN log \subseteq DOMAIN log'
           /\ \A i \in DOMAIN log : log'[i] = log[i]
           /\ \A h \in Hash : /\ payloads[h].isValue => payloads'[h].isValue
                              /\ payloads[h].isApproved => payloads'[h].isApproved
                              /\ payloads[h].isValue => SameParties(payloads'[h], payloads[h])
<1>1. CASE UNCHANGED <<payloads, log>>
  BY <1>1 DEF SameParties
<1>2. CASE Next /\ ~UNCHANGED <<payloads, log>>
  <2>1. PICK h \in Hash, e \in Event :
            /\ Emit(e)
            /\ payloads' = [payloads EXCEPT ![h] = payloads'[h]]
            /\ \/ Stores(e, payloads[h], payloads'[h])
               \/ Approves(e, payloads[h], payloads'[h])
               \/ Revokes(e, payloads[h], payloads'[h])
    BY <1>2, PayloadStep
  <2>2. log \in Seq(Event) /\ log' = Append(log, e)
    BY <2>1 DEF LogInv, TypeOK, Emit
  <2>3. DOMAIN log \subseteq DOMAIN log' /\ \A i \in DOMAIN log : log'[i] = log[i]
    BY <2>2
  <2>4. \A g \in Hash : g # h => payloads'[g] = payloads[g]
    BY <2>1 DEF LogInv, TypeOK
  <2>5. /\ payloads[h].isRevoked => payloads[h].isApproved
        /\ payloads[h].isApproved => payloads[h].isValue
    BY DEF LogInv, LogMatchesPayloads, FlagsInOrder
  <2>6. /\ payloads[h].isValue => payloads'[h].isValue
        /\ payloads[h].isApproved => payloads'[h].isApproved
        /\ payloads[h].isValue => SameParties(payloads'[h], payloads[h])
    BY <2>1, <2>5 DEF Stores, Approves, Revokes
  <2> QED
    BY <2>3, <2>4, <2>6 DEF SameParties
<1> QED
  BY <1>1, <1>2 DEF vars
===============================================================================
