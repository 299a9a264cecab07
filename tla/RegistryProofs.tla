---------------------------- MODULE RegistryProofs ----------------------------
(***************************************************************************)
(* Proofs about RegistryContract, for every set of hashes and addresses,   *)
(* every width of the unsigned integers and every bound on the time.       *)
(***************************************************************************)
EXTENDS RegistryContract, TLAPS

\* What a transaction does to the log: one event is added at its end.
LEMMA AppendFacts ==
    ASSUME NEW S, NEW s \in Seq(S), NEW e \in S
    PROVE  /\ Append(s, e) \in Seq(S)
           /\ Len(Append(s, e)) = Len(s) + 1
           /\ DOMAIN Append(s, e) = 1 .. (Len(s) + 1)
           /\ \A i \in 1 .. Len(s) : Append(s, e)[i] = s[i]
           /\ Append(s, e)[Len(s) + 1] = e
  OBVIOUS

\* The events that transactions emit are well formed.
LEMMA EventsTyped ==
    ASSUME NEW h \in Hash, NEW sender \in Address,
           NEW a \in AnyAddress, NEW b \in AnyAddress, NEW t \in Uint
    PROVE  /\ PayloadAdded(h, sender, a, b) \in Event
           /\ GatewayApproved(h, sender, a) \in Event
           /\ DeviceApproved(h, sender, a, b) \in Event
           /\ AccessApproved(h, sender, a, t) \in Event
           /\ GatewayRevoked(h, sender, a) \in Event
           /\ DeviceRevoked(h, sender, a) \in Event
           /\ AccessRevoked(h, sender, a) \in Event
<1>1. PayloadAdded(h, sender, a, b) \in Event
  BY DEF PayloadAdded, Event
<1>2. GatewayApproved(h, sender, a) \in Event
  BY DEF GatewayApproved, Event
<1>3. DeviceApproved(h, sender, a, b) \in Event
  BY DEF DeviceApproved, Event
<1>4. AccessApproved(h, sender, a, t) \in Event
  BY DEF AccessApproved, Event
<1>5. GatewayRevoked(h, sender, a) \in Event
  BY DEF GatewayRevoked, Event
<1>6. DeviceRevoked(h, sender, a) \in Event
  BY DEF DeviceRevoked, Event
<1>7. AccessRevoked(h, sender, a) \in Event
  BY DEF AccessRevoked, Event
<1> QED
  BY <1>1, <1>2, <1>3, <1>4, <1>5, <1>6, <1>7

\* Each step keeps every variable's type.
LEMMA TypeStep == TypeOK /\ [Next]_vars => TypeOK'
<1> SUFFICES ASSUME TypeOK, [Next]_vars PROVE TypeOK'
  OBVIOUS
<1> USE DEF TypeOK
<1>a. ASSUME NEW e \in Event, Emit(e) PROVE log' \in Seq(Event)
  BY <1>a DEF Emit
<1>b. Address \subseteq AnyAddress /\ 0 \in Uint
  BY RegistryAssumption DEF AnyAddress, Uint
<1>1. ASSUME NEW sender \in Address, NEW h \in Hash, NEW target \in AnyAddress,
             NEW approver \in AnyAddress, storePayload(sender, h, target, approver)
      PROVE  TypeOK'
  <2>1. log' \in Seq(Event)
    BY <1>1, <1>a, <1>b, EventsTyped DEF storePayload
  <2>2. payloads' \in [Hash -> Payload]
    BY <1>1, <1>b DEF storePayload, Payload
  <2> QED
    BY <1>1, <2>1, <2>2 DEF storePayload
<1>2. ASSUME NEW sender \in Address, NEW h \in Hash, NEW routerIp \in RouterIp,
             approveGateway(sender, h, routerIp)
      PROVE  TypeOK'
  <2>0. payloads[h].target \in AnyAddress
    BY DEF Payload
  <2>1. log' \in Seq(Event)
    BY <1>2, <1>a, <1>b, <2>0, EventsTyped DEF approveGateway
  <2>2. payloads' \in [Hash -> Payload]
    BY <1>2 DEF approveGateway, Payload
  <2> QED
    BY <1>2, <2>0, <2>1, <2>2 DEF approveGateway
<1>3. ASSUME NEW sender \in Address, NEW h \in Hash, approveDevice(sender, h)
      PROVE  TypeOK'
  <2>0. payloads[h].target \in AnyAddress /\ payloads[h].source \in AnyAddress
    BY DEF Payload
  <2>1. log' \in Seq(Event)
    BY <1>3, <1>a, <1>b, <2>0, EventsTyped DEF approveDevice
  <2>2. payloads' \in [Hash -> Payload]
    BY <1>3 DEF approveDevice, Payload
  <2> QED
    BY <1>3, <2>0, <2>1, <2>2 DEF approveDevice
<1>4. ASSUME NEW sender \in Address, NEW h \in Hash, NEW expiredIn \in Duration,
             approveAccess(sender, h, expiredIn)
      PROVE  TypeOK'
  <2>0. payloads[h].source \in AnyAddress
    BY DEF Payload
  <2>1. ExpiryTime(expiredIn) \in Uint
    BY RegistryAssumption DEF ExpiryTime, Uint
  <2>2. log' \in Seq(Event)
    BY <1>4, <1>a, <1>b, <2>0, <2>1, EventsTyped DEF approveAccess
  <2>3. payloads' \in [Hash -> Payload]
    BY <1>4, <2>1 DEF approveAccess, Payload
  <2> QED
    BY <1>4, <2>2, <2>3 DEF approveAccess
<1>5. ASSUME NEW sender \in Address, NEW h \in Hash, NEW gateway \in AnyAddress,
             revokeGateway(sender, h, gateway)
      PROVE  TypeOK'
  <2>1. log' \in Seq(Event)
    BY <1>5, <1>a, <1>b, EventsTyped DEF revokeGateway
  <2>2. payloads' \in [Hash -> Payload]
    BY <1>5 DEF revokeGateway, Payload
  <2> QED
    BY <1>5, <2>1, <2>2 DEF revokeGateway, RouterIp
<1>6. ASSUME NEW sender \in Address, NEW h \in Hash, NEW device \in AnyAddress,
             revokeDevice(sender, h, device)
      PROVE  TypeOK'
  <2>1. log' \in Seq(Event)
    BY <1>6, <1>a, <1>b, EventsTyped DEF revokeDevice
  <2>2. payloads' \in [Hash -> Payload]
    BY <1>6 DEF revokeDevice, Payload
  <2> QED
    BY <1>6, <2>1, <2>2 DEF revokeDevice, AnyAddress
<1>7. ASSUME NEW sender \in Address, NEW h \in Hash, revokeAccess(sender, h)
      PROVE  TypeOK'
  <2>0. payloads[h].target \in AnyAddress
    BY DEF Payload
  <2>1. log' \in Seq(Event)
    BY <1>7, <1>a, <1>b, <2>0, EventsTyped DEF revokeAccess
  <2>2. payloads' \in [Hash -> Payload]
    BY <1>7 DEF revokeAccess, Payload
  <2> QED
    BY <1>7, <2>1, <2>2 DEF revokeAccess
<1>8. CASE Tick
  BY <1>8, RegistryAssumption DEF Tick, Uint
<1>9. CASE UNCHANGED vars
  BY <1>9 DEF vars
<1> QED
  BY <1>1, <1>2, <1>3, <1>4, <1>5, <1>6, <1>7, <1>8, <1>9 DEF Next, Transact

\* Every variable keeps its type in every reachable state: in particular the
\* expiry time of an access stays within the width of an unsigned integer.
THEOREM TypeCorrect == Spec => []TypeOK
<1>1. Init => TypeOK
  BY RegistryAssumption DEF Init, TypeOK, NoPayload, Payload, AnyAddress, RouterIp, Uint
<1> QED
  BY <1>1, TypeStep, PTL DEF Spec

-------------------------------------------------------------------------------
(* The chain of trust.                                                     *)

\* A new event leaves what the events before it say of a gateway as it was.
LEMMA VouchedStays ==
    ASSUME NEW l \in Seq(Event), NEW e \in Event, NEW g, NEW n \in 0 .. Len(l)
    PROVE  VouchedFor(Append(l, e), g, n) <=> VouchedFor(l, g, n)
<1>1. \A i \in 1 .. n : Append(l, e)[i] = l[i]
  BY AppendFacts
<1> QED
  BY <1>1 DEF VouchedFor

\* A gateway stays vouched for while it is not revoked, and becomes so when it
\* is approved.
LEMMA VouchedGrows ==
    ASSUME NEW l \in Seq(Event), NEW e \in Event, NEW g,
           \/ ApprovesGateway(e, g)
           \/ VouchedFor(l, g, Len(l)) /\ ~RevokesGateway(e, g)
    PROVE  VouchedFor(Append(l, e), g, Len(l) + 1)
<1>1. /\ Len(l) \in Nat
      /\ \A i \in 1 .. Len(l) : Append(l, e)[i] = l[i]
      /\ Append(l, e)[Len(l) + 1] = e
  BY AppendFacts
<1>2. CASE ApprovesGateway(e, g)
  BY <1>1, <1>2 DEF VouchedFor
<1>3. CASE VouchedFor(l, g, Len(l)) /\ ~RevokesGateway(e, g)
  <2>1. PICK i \in 1 .. Len(l) :
            /\ ApprovesGateway(l[i], g)
            /\ \A j \in (i + 1) .. Len(l) : ~RevokesGateway(l[j], g)
    BY <1>3 DEF VouchedFor
  <2>2. ApprovesGateway(Append(l, e)[i], g)
    BY <1>1, <2>1
  <2>3. ASSUME NEW j \in (i + 1) .. (Len(l) + 1)
        PROVE  ~RevokesGateway(Append(l, e)[j], g)
    <3>1. CASE j \in (i + 1) .. Len(l)
      BY <1>1, <2>1, <3>1
    <3>2. CASE j = Len(l) + 1
      BY <1>1, <1>3, <3>2
    <3> QED
      BY <1>1, <3>1, <3>2
  <2> QED
    BY <1>1, <2>2, <2>3 DEF VouchedFor
<1> QED
  BY <1>2, <1>3

ChainInv == TypeOK /\ TrustIsLogged /\ ChainOfTrust

\* The chain of trust survives an event that vouches for no more than it says:
\* whoever is trusted after it was approved by it, or was trusted before and is
\* not revoked by it; and it builds only on a gateway that is trusted.
LEMMA ChainStep ==
    ASSUME ChainInv, NEW e \in Event, Emit(e),
           \A g \in AnyAddress :
               isTrustedGateway(g)' =>
                   \/ ApprovesGateway(e, g)
                   \/ isTrustedGateway(g) /\ ~RevokesGateway(e, g),
           e.event = "DeviceApproved" =>
               e.source \in AnyAddress /\ isTrustedGateway(e.source),
           e.event = "AccessApproved" =>
               e.sender \in AnyAddress /\ isTrustedGateway(e.sender)
    PROVE  TrustIsLogged' /\ ChainOfTrust'
<1> USE DEF ChainInv
<1>1. /\ log \in Seq(Event)
      /\ log' = Append(log, e)
      /\ Len(log) \in Nat
      /\ DOMAIN log' = 1 .. (Len(log) + 1)
      /\ Len(log') = Len(log) + 1
      /\ DOMAIN log = 1 .. Len(log)
      /\ \A i \in 1 .. Len(log) : log'[i] = log[i]
      /\ log'[Len(log) + 1] = e
  BY AppendFacts DEF TypeOK, Emit
<1>2. TrustIsLogged'
  BY <1>1, VouchedGrows DEF TrustIsLogged
<1>3. ASSUME NEW i \in 1 .. (Len(log) + 1)
      PROVE  /\ log'[i].event = "DeviceApproved" => VouchedFor(log', log'[i].source, i - 1)
             /\ log'[i].event = "AccessApproved" => VouchedFor(log', log'[i].sender, i - 1)
  <2>1. \A g : VouchedFor(log', g, i - 1) <=> VouchedFor(log, g, i - 1)
    BY <1>1, VouchedStays
  <2>2. CASE i \in 1 .. Len(log)
    BY <1>1, <2>1, <2>2 DEF ChainOfTrust
  <2>3. CASE i = Len(log) + 1
    BY <1>1, <2>1, <2>3 DEF TrustIsLogged
  <2> QED
    BY <1>1, <2>2, <2>3
<1>4. ChainOfTrust'
  BY <1>1, <1>3 DEF ChainOfTrust
<1> QED
  BY <1>2, <1>4

\* The chain of trust is inductive.
LEMMA ChainInvStep == ChainInv /\ [Next]_vars => ChainInv'
<1> SUFFICES ASSUME ChainInv, [Next]_vars PROVE ChainInv'
  OBVIOUS
<1>a. TypeOK'
  BY TypeStep DEF ChainInv
<1>b. Address \subseteq AnyAddress /\ 0 \in Uint
  BY RegistryAssumption DEF AnyAddress, Uint
<1>1. ASSUME NEW sender \in Address, NEW h \in Hash, NEW target \in AnyAddress,
             NEW approver \in AnyAddress, storePayload(sender, h, target, approver)
      PROVE  ChainInv'
  <2> DEFINE e == PayloadAdded(h, sender, target, approver)
  <2>3. e \in Event /\ Emit(e)
    BY <1>1, EventsTyped, <1>b DEF storePayload
  <2>4. TrustIsLogged' /\ ChainOfTrust'
    BY <1>1, <2>3, ChainStep
       DEF storePayload, PayloadAdded, ChainInv, isTrustedGateway, ApprovesGateway, RevokesGateway
  <2> QED
    BY <1>a, <2>4 DEF ChainInv
<1>2. ASSUME NEW sender \in Address, NEW h \in Hash, NEW routerIp \in RouterIp,
             approveGateway(sender, h, routerIp)
      PROVE  ChainInv'
  <2> DEFINE e == GatewayApproved(h, sender, payloads[h].target)
  <2>1. payloads[h].source \in AnyAddress /\ payloads[h].target \in AnyAddress
    BY DEF ChainInv, TypeOK, Payload
  <2>3. e \in Event /\ Emit(e)
    BY <1>2, EventsTyped, <1>b, <2>1 DEF approveGateway
  <2>4. TrustIsLogged' /\ ChainOfTrust'
    BY <1>2, <2>3, ChainStep
       DEF approveGateway, GatewayApproved, ChainInv, TypeOK, isTrustedGateway, ApprovesGateway, RevokesGateway
  <2> QED
    BY <1>a, <2>4 DEF ChainInv
<1>3. ASSUME NEW sender \in Address, NEW h \in Hash, approveDevice(sender, h)
      PROVE  ChainInv'
  <2> DEFINE e == DeviceApproved(h, sender, payloads[h].source, payloads[h].target)
  <2>1. payloads[h].source \in AnyAddress /\ payloads[h].target \in AnyAddress
    BY DEF ChainInv, TypeOK, Payload
  <2>3. e \in Event /\ Emit(e)
    BY <1>3, EventsTyped, <1>b, <2>1 DEF approveDevice
  <2>4. TrustIsLogged' /\ ChainOfTrust'
    BY <1>3, <2>3, ChainStep, <2>1
       DEF approveDevice, DeviceApproved, ChainInv, isTrustedGateway, gatewayMustBeTrusted, ApprovesGateway, RevokesGateway
  <2> QED
    BY <1>a, <2>4 DEF ChainInv
<1>4. ASSUME NEW sender \in Address, NEW h \in Hash, NEW expiredIn \in Duration,
             approveAccess(sender, h, expiredIn)
      PROVE  ChainInv'
  <2> DEFINE e == AccessApproved(h, sender, payloads[h].source, ExpiryTime(expiredIn))
  <2>1. payloads[h].source \in AnyAddress /\ payloads[h].target \in AnyAddress
    BY DEF ChainInv, TypeOK, Payload
  <2>2. ExpiryTime(expiredIn) \in Uint
    BY RegistryAssumption DEF ChainInv, TypeOK, ExpiryTime, Uint
  <2>3. e \in Event /\ Emit(e)
    BY <1>4, EventsTyped, <1>b, <2>1, <2>2 DEF approveAccess
  <2>4. TrustIsLogged' /\ ChainOfTrust'
    BY <1>4, <2>3, ChainStep, <1>b
       DEF approveAccess, AccessApproved, ChainInv, isTrustedGateway, gatewayMustBeTrusted, onlyForApprover, ApprovesGateway, RevokesGateway
  <2> QED
    BY <1>a, <2>4 DEF ChainInv
<1>5. ASSUME NEW sender \in Address, NEW h \in Hash, NEW gateway \in AnyAddress,
             revokeGateway(sender, h, gateway)
      PROVE  ChainInv'
  <2> DEFINE e == GatewayRevoked(h, sender, gateway)
  <2>3. e \in Event /\ Emit(e)
    BY <1>5, EventsTyped, <1>b DEF revokeGateway
  <2>4. TrustIsLogged' /\ ChainOfTrust'
    BY <1>5, <2>3, ChainStep
       DEF revokeGateway, GatewayRevoked, ChainInv, TypeOK, isTrustedGateway, ApprovesGateway, RevokesGateway
  <2> QED
    BY <1>a, <2>4 DEF ChainInv
<1>6. ASSUME NEW sender \in Address, NEW h \in Hash, NEW device \in AnyAddress,
             revokeDevice(sender, h, device)
      PROVE  ChainInv'
  <2> DEFINE e == DeviceRevoked(h, sender, device)
  <2>3. e \in Event /\ Emit(e)
    BY <1>6, EventsTyped, <1>b DEF revokeDevice
  <2>4. TrustIsLogged' /\ ChainOfTrust'
    BY <1>6, <2>3, ChainStep
       DEF revokeDevice, DeviceRevoked, ChainInv, isTrustedGateway, ApprovesGateway, RevokesGateway
  <2> QED
    BY <1>a, <2>4 DEF ChainInv
<1>7. ASSUME NEW sender \in Address, NEW h \in Hash, revokeAccess(sender, h)
      PROVE  ChainInv'
  <2> DEFINE e == AccessRevoked(h, sender, payloads[h].target)
  <2>1. payloads[h].source \in AnyAddress /\ payloads[h].target \in AnyAddress
    BY DEF ChainInv, TypeOK, Payload
  <2>3. e \in Event /\ Emit(e)
    BY <1>7, EventsTyped, <1>b, <2>1 DEF revokeAccess
  <2>4. TrustIsLogged' /\ ChainOfTrust'
    BY <1>7, <2>3, ChainStep
       DEF revokeAccess, AccessRevoked, ChainInv, isTrustedGateway, ApprovesGateway, RevokesGateway
  <2> QED
    BY <1>a, <2>4 DEF ChainInv
<1>8. CASE Tick
  BY <1>8, <1>a DEF Tick, ChainInv, TrustIsLogged, ChainOfTrust, isTrustedGateway
<1>9. CASE UNCHANGED vars
  BY <1>9, <1>a DEF vars, ChainInv, TrustIsLogged, ChainOfTrust, isTrustedGateway
<1> QED
  BY <1>1, <1>2, <1>3, <1>4, <1>5, <1>6, <1>7, <1>8, <1>9 DEF Next, Transact

\* Devices are approved and accesses granted only behind a gateway that was
\* approved before and not revoked since.
THEOREM ChainOfTrustHolds == Spec => []ChainOfTrust
<1>1. Init => ChainInv
  <2>1. Init => TypeOK
    BY RegistryAssumption DEF Init, TypeOK, NoPayload, Payload, AnyAddress, RouterIp, Uint
  <2> QED
    BY <2>1 DEF Init, ChainInv, TrustIsLogged, ChainOfTrust, isTrustedGateway
<1>2. ChainInv => ChainOfTrust
  BY DEF ChainInv
<1> QED
  BY <1>1, <1>2, ChainInvStep, PTL DEF Spec
===============================================================================
