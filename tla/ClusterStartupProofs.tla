-------------------------- MODULE ClusterStartupProofs --------------------------
(***************************************************************************)
(* Proofs about ClusterStartup, for any number of workers, gateways, starts*)
(* and deaths.                                                             *)
(***************************************************************************)
EXTENDS ClusterStartup, FiniteSetTheorems, TLAPS

\* The identities that can be about: those of the starts so far, or the gateways
\* that owners have registered.
Ids == IF role = "gateway" THEN posted ELSE 1 .. starts

AdminType ==
    /\ admin \in [gateway : Ids \cup {None}, device : Ids \cup {None},
                  isps : SUBSET Ids, vendors : SUBSET Ids, seeded : SUBSET Ids]
    /\ role \in Role
    /\ starts \in 0 .. MaxStarts
    /\ posted \in SUBSET Gateway /\ IsFiniteSet(posted)
    /\ IF role = "gateway" THEN admin.isps = {} /\ admin.vendors = {} /\ admin.device = None
       ELSE posted = {} /\ admin.gateway = None

MasterType ==
    /\ master \in [at : {"stopped", "asking", "storing", "listening", "failed"},
                   id : Ids \cup {None}, todo : SUBSET (Requests \cup Key)]
    /\ master.at = "asking" => master.todo \subseteq Requests
    /\ role # "gateway" /\ master.at # "stopped" => master.id = starts /\ starts > 0

ProcessType ==
    /\ memcached \in [Key -> Ids \cup {None, 1}]
    /\ workers \in [Worker -> [at : {"down", "forked", "serving", "failed"}, todo : SUBSET Key,
                               read : [Key -> Ids \cup {None, 1}]]]
    /\ \A k \in {"identity", "device"} : /\ memcached[k] \in Ids \cup {None}
                                         /\ \A w \in Worker : workers[w].read[k] \in Ids \cup {None}
    /\ deaths \in 0 .. MaxDeaths
    /\ client \in [asked : Ids \cup {None}, met : Ids \cup {None}, failed : BOOLEAN]

\* The types that are inductive: they say where each identity comes from.
IdentityType == AdminType /\ MasterType /\ ProcessType

USE DEF None

LEMMA IdentityTypeInit == Init => IdentityType
<1> SUFFICES ASSUME Init PROVE IdentityType
  OBVIOUS
<1> USE ClusterStartupAssumption DEF Init
<1>1. AdminType
  BY FS_EmptySet DEF AdminType, Ids
<1>2. MasterType
  BY DEF MasterType, Ids
<1>3. ProcessType
  BY DEF ProcessType, Ids, Down, Key
<1> QED
  BY <1>1, <1>2, <1>3 DEF IdentityType

\* Each step keeps them: what the program passes on is an identity it was given.
LEMMA IdentityTypeStep == IdentityType /\ [Next]_vars => IdentityType'
<1> SUFFICES ASSUME IdentityType, [Next]_vars PROVE IdentityType'
  OBVIOUS
<1> USE ClusterStartupAssumption
<1>0. /\ AdminType /\ MasterType /\ ProcessType
      /\ IsFiniteSet(posted) /\ 1 .. starts \subseteq Nat
  BY DEF IdentityType, AdminType
<1>1. CASE Start
  <2>1. Ids' = IF role = "gateway" THEN posted ELSE 1 .. (starts + 1)
    BY <1>1 DEF Start, Ids
  <2>2. Ids \subseteq Ids' /\ (role # "gateway" => starts + 1 \in Ids')
    BY <1>0, <1>1, <2>1 DEF Start, Ids, AdminType
  <2>3. AdminType'
    BY <1>0, <1>1, <2>2 DEF Start, AdminType
  <2>4. MasterType'
    BY <1>0, <1>1, <2>2 DEF Start, MasterType, AdminType, Requests, Key
  <2>5. ProcessType'
    BY <1>0, <1>1, <2>2 DEF Start, ProcessType, Forked, Parameters, Key
  <2> QED
    BY <2>3, <2>4, <2>5 DEF IdentityType
<1>2. ASSUME NEW g \in Gateway, RegisterGateway(g) PROVE IdentityType'
  <2>1. role = "gateway" /\ Ids' = posted \cup {g} /\ Ids \subseteq Ids'
    BY <1>2 DEF RegisterGateway, Ids
  <2>2. IsFiniteSet(posted')
    BY <1>0, <1>2, FS_AddElement DEF RegisterGateway
  <2>3. AdminType'
    BY <1>0, <1>2, <2>1, <2>2 DEF RegisterGateway, AdminType
  <2>4. MasterType'
    BY <1>0, <1>2, <2>1 DEF RegisterGateway, MasterType, Requests, Key
  <2>5. ProcessType'
    BY <1>0, <1>2, <2>1 DEF RegisterGateway, ProcessType
  <2> QED
    BY <2>3, <2>4, <2>5 DEF IdentityType
<1>3. ASSUME NEW r \in Requests, AskAdmin(r) PROVE IdentityType'
  <2>1. Ids' = Ids /\ ToldIdentity(r) \in Ids \cup {None}
    BY <1>0, <1>3 DEF AskAdmin, Ids, ToldIdentity, AdminType, MasterType, AnsweredByAdmin, seedEther
  <2>2. AdminType'
    BY <1>0, <1>3, <2>1 DEF AskAdmin, AdminType, MasterType, AnsweredByAdmin, seedEther, Requests
  <2>3. MasterType'
    BY <1>0, <1>3, <2>1 DEF AskAdmin, MasterType, AdminType, Requests, Key, ToldIdentity
  <2>4. ProcessType'
    BY <1>0, <1>3, <2>1 DEF AskAdmin, ProcessType
  <2> QED
    BY <2>2, <2>3, <2>4 DEF IdentityType
<1>4. CASE Count \/ Stop
  <2>1. Ids' = Ids
    BY <1>4 DEF Count, Stop, Ids
  <2>2. AdminType'
    BY <1>0, <1>4, <2>1 DEF Count, Stop, AdminType
  <2>3. MasterType'
    <3>1. CASE Count
      BY <1>0, <3>1, <2>1 DEF Count, MasterType, Parameters, Requests, Key
    <3>2. CASE Stop
      BY <1>0, <3>2, <2>1 DEF Stop, MasterType, Requests, Key
    <3> QED
      BY <1>4, <3>1, <3>2
  <2>4. ProcessType'
    BY <1>0, <1>4, <2>1 DEF Count, Stop, ProcessType, Down, Key
  <2> QED
    BY <2>2, <2>3, <2>4 DEF IdentityType
<1>5. ASSUME NEW k \in Key, Store(k) PROVE IdentityType'
  <2>1. Ids' = Ids
    BY <1>5 DEF Store, Ids
  <2>2. AdminType'
    BY <1>0, <1>5, <2>1 DEF Store, AdminType
  <2>3. MasterType'
    BY <1>0, <1>5, <2>1 DEF Store, MasterType, Requests, Key
  <2>4. ProcessType'
    BY <1>0, <1>5, <2>1 DEF Store, ProcessType, MasterType, Value
  <2> QED
    BY <2>2, <2>3, <2>4 DEF IdentityType
<1>6. ASSUME NEW w \in Worker, WorkerStep(w) \/ Die(w) PROVE IdentityType'
  <2>1. Ids' = Ids
    BY <1>6 DEF WorkerStep, Read, Die, Ids
  <2>2. AdminType'
    BY <1>0, <1>6, <2>1 DEF WorkerStep, Read, Die, AdminType
  <2>3. MasterType'
    BY <1>0, <1>6, <2>1 DEF WorkerStep, Read, Die, MasterType, Requests, Key
  <2>4. ProcessType'
    <3>1. CASE Die(w)
      BY <1>0, <3>1, <2>1 DEF Die, ProcessType, Forked, Parameters, Key
    <3>2. ASSUME NEW k \in Key, Read(w, k) PROVE ProcessType'
      <4>1. Outcome(w, k) \in {"forked", "failed", "serving"}
        BY DEF Outcome
      <4> QED
        BY <1>0, <3>2, <2>1, <4>1 DEF Read, ProcessType
    <3> QED
      BY <1>6, <3>1, <3>2 DEF WorkerStep
  <2> QED
    BY <2>2, <2>3, <2>4 DEF IdentityType
<1>7. CASE ClientStep
  <2>1. Ids' = Ids /\ UNCHANGED <<role, starts, posted, admin, master, memcached, workers, deaths>>
    BY <1>7 DEF ClientStep, ClientAsks, ClientMeets, ClientMeetsNobody, Ids
  <2>2. AdminType'
    BY <1>0, <2>1 DEF AdminType
  <2>3. MasterType'
    BY <1>0, <2>1 DEF MasterType, Requests, Key
  <2>4. client' \in [asked : Ids \cup {None}, met : Ids \cup {None}, failed : BOOLEAN]
    <3>1. CASE ClientAsks
      BY <1>0, <3>1 DEF ClientAsks, ProcessType, AdminType, Info
    <3>2. ASSUME NEW w \in Worker, ClientMeets(w)
          PROVE  client' \in [asked : Ids \cup {None}, met : Ids \cup {None}, failed : BOOLEAN]
      BY <1>0, <3>2 DEF ClientMeets, ProcessType, Key
    <3>3. CASE ClientMeetsNobody
      BY <1>0, <3>3 DEF ClientMeetsNobody, ProcessType
    <3> QED
      BY <1>7, <3>1, <3>2, <3>3 DEF ClientStep
  <2>5. ProcessType'
    BY <1>0, <2>1, <2>4 DEF ProcessType
  <2> QED
    BY <2>2, <2>3, <2>5 DEF IdentityType
<1>8. CASE UNCHANGED vars
  <2>1. Ids' = Ids
    BY <1>8 DEF vars, Ids
  <2>2. AdminType' /\ MasterType' /\ ProcessType'
    BY <1>0, <1>8, <2>1 DEF vars, AdminType, MasterType, ProcessType, Requests, Key
  <2> QED
    BY <2>2 DEF IdentityType
<1> QED
  BY <1>1, <1>2, <1>3, <1>4, <1>5, <1>6, <1>7, <1>8 DEF Next, MasterStep

LEMMA TypeImplied == IdentityType => TypeOK
<1> SUFFICES ASSUME AdminType, MasterType, ProcessType PROVE TypeOK
  BY DEF IdentityType
<1> USE ClusterStartupAssumption
<1>1. /\ Ids \subseteq Identity \ {None}
      /\ role = "gateway" => Ids \subseteq Gateway
      /\ role # "gateway" => Ids \subseteq 1 .. MaxStarts
      /\ None \in Identity /\ None \in 0 .. MaxStarts /\ 1 .. MaxStarts \subseteq 0 .. MaxStarts
  BY DEF AdminType, Ids, Identity
<1>2. admin \in [gateway : Gateway \cup {None}, device : 0 .. MaxStarts,
                 isps : SUBSET (1 .. MaxStarts), vendors : SUBSET (1 .. MaxStarts),
                 seeded : SUBSET (Identity \ {None})]
  <2>1. CASE role = "gateway"
    BY <1>1, <2>1 DEF AdminType
  <2>2. CASE role # "gateway"
    BY <1>1, <2>2 DEF AdminType
  <2> QED
    BY <2>1, <2>2
<1>3. master \in [at : {"stopped", "asking", "storing", "listening", "failed"},
                  id : Identity, todo : SUBSET (Requests \cup Key)]
  BY <1>1 DEF MasterType
<1>4. Ids \cup {None, 1} \subseteq Identity \cup {1}
  BY <1>1
<1>5. /\ memcached \in [Key -> Identity \cup {1}]
      /\ workers \in [Worker -> [at : {"down", "forked", "serving", "failed"}, todo : SUBSET Key,
                                 read : [Key -> Identity \cup {1}]]]
  <2>1. [Key -> Ids \cup {None, 1}] \subseteq [Key -> Identity \cup {1}]
    BY <1>4
  <2> QED
    BY <2>1 DEF ProcessType
<1>6. client \in [asked : Identity, met : Identity, failed : BOOLEAN]
  BY <1>1 DEF ProcessType
<1> QED
  BY <1>2, <1>3, <1>5, <1>6 DEF TypeOK, AdminType, ProcessType

\* Every variable keeps its type.
THEOREM TypeCorrect == Spec => []TypeOK
  BY IdentityTypeInit, IdentityTypeStep, TypeImplied, PTL DEF Spec

-------------------------------------------------------------------------------
(* What the admin knows.                                                   *)

\* The identities that the admin was told of and has sent ether to.
Known == Registered \cap admin.seeded

\* A request that is answered has had its effect, and the gateway asks for ether last.
AnswersArrived ==
    /\ role = "isp" /\ "registerIsp" \notin master.todo => master.id \in admin.isps
    /\ role = "vendor" /\ "registerVendor" \notin master.todo => master.id \in admin.vendors
    /\ role = "gateway" /\ "getGatewayInfo" \in master.todo => "seedEther" \in master.todo
    /\ "seedEther" \notin master.todo => master.id \in admin.seeded \cup {None}

\* ServesWhatIsRegistered, with all the places an identity passes on its way to it.
IdentityPath ==
    /\ master.at = "asking" => AnswersArrived
    /\ master.at \in {"storing", "listening"} => master.id \in Known
    /\ memcached["identity"] \in Known \cup {None}
    /\ \A w \in Worker : /\ workers[w].read["identity"] \in Known \cup {None}
                         /\ Serving(w) => workers[w].read["identity"] # None

\* What the admin knows only grows.
LEMMA KnownGrows == ASSUME IdentityType, [Next]_vars PROVE Known \subseteq Known'
<1> USE DEF Known, Registered
<1>1. CASE Start \/ Count \/ Stop
  BY <1>1 DEF Start, Count, Stop
<1>2. ASSUME NEW g \in Gateway, RegisterGateway(g) PROVE Known \subseteq Known'
  BY <1>2 DEF RegisterGateway, IdentityType, AdminType
<1>3. ASSUME NEW r \in Requests, AskAdmin(r) PROVE Known \subseteq Known'
  BY <1>3 DEF AskAdmin, AnsweredByAdmin, seedEther, IdentityType, AdminType
<1>4. ASSUME NEW k \in Key, Store(k) PROVE Known \subseteq Known'
  BY <1>4 DEF Store
<1>5. ASSUME NEW w \in Worker, WorkerStep(w) \/ Die(w) PROVE Known \subseteq Known'
  BY <1>5 DEF WorkerStep, Read, Die
<1>6. CASE ClientStep \/ UNCHANGED vars
  BY <1>6 DEF ClientStep, ClientAsks, ClientMeets, ClientMeetsNobody, vars
<1> QED
  BY <1>1, <1>2, <1>3, <1>4, <1>5, <1>6 DEF Next, MasterStep

LEMMA IdentityPathInit == Init => IdentityPath
  BY DEF Init, IdentityPath, Down, Key, Serving

LEMMA IdentityPathStep == IdentityType /\ IdentityPath /\ [Next]_vars => IdentityPath'
<1> SUFFICES ASSUME IdentityType, IdentityPath, [Next]_vars PROVE IdentityPath'
  OBVIOUS
<1>0. /\ AdminType /\ MasterType /\ ProcessType /\ role \in {"isp", "vendor", "gateway"}
      /\ Known \subseteq Known' /\ IdentityPath
  BY KnownGrows, ClusterStartupAssumption DEF IdentityType, AdminType
<1>1. CASE Start
  BY <1>0, <1>1 DEF Start, IdentityPath, AnswersArrived, Forked, Key, Requests, Serving
<1>2. ASSUME NEW g \in Gateway, RegisterGateway(g) PROVE IdentityPath'
  <2>1. AnswersArrived => AnswersArrived'
    BY <1>0, <1>2 DEF RegisterGateway, AnswersArrived, AdminType
  <2> QED
    BY <1>0, <1>2, <2>1 DEF RegisterGateway, IdentityPath, Serving
<1>3. ASSUME NEW r \in Requests, AskAdmin(r) PROVE IdentityPath'
  <2>1. AnswersArrived
    BY <1>0, <1>3 DEF AskAdmin, IdentityPath
  <2>2. AnswersArrived'
    <3>1. CASE role = "gateway"
      BY <1>0, <1>3, <2>1, <3>1 DEF AskAdmin, AnswersArrived, AnsweredByAdmin, seedEther,
         AdminType, MasterType, Requests, ToldIdentity
    <3>2. CASE role = "isp"
      BY <1>0, <1>3, <2>1, <3>2 DEF AskAdmin, AnswersArrived, AnsweredByAdmin, seedEther,
         AdminType, MasterType, Requests, ToldIdentity
    <3>3. CASE role = "vendor"
      BY <1>0, <1>3, <2>1, <3>3 DEF AskAdmin, AnswersArrived, AnsweredByAdmin, seedEther,
         AdminType, MasterType, Requests, ToldIdentity
    <3> QED
      BY <1>0, <3>1, <3>2, <3>3
  <2>3. master'.at = "asking" /\ UNCHANGED <<memcached, workers>>
    BY <1>0, <1>3 DEF AskAdmin, MasterType
  <2> QED
    BY <1>0, <2>2, <2>3 DEF IdentityPath, Serving
<1>4. CASE Count
  <2>1. master.id # None => master.id \in Known
    BY <1>0, <1>4 DEF Count, IdentityPath, AnswersArrived, MasterType, AdminType, Known, Registered, Ids
  <2>2. /\ Known' = Known /\ UNCHANGED <<memcached, workers>>
        /\ master'.id = master.id
        /\ master'.at = IF master.id = None THEN "failed" ELSE "storing"
    BY <1>0, <1>4 DEF Count, Known, Registered, MasterType
  <2> QED
    BY <1>0, <2>1, <2>2 DEF IdentityPath, Serving
<1>5. CASE Stop
  BY <1>0, <1>5 DEF Stop, IdentityPath, Down, Key, Serving
<1>6. ASSUME NEW k \in Key, Store(k) PROVE IdentityPath'
  <2>1. /\ memcached'["identity"] \in {memcached["identity"], master.id} /\ master.id \in Known
        /\ master'.id = master.id /\ master'.at \in {"storing", "listening"} /\ workers' = workers
    BY <1>0, <1>6 DEF Store, IdentityPath, ProcessType, MasterType, Value, Key
  <2> QED
    BY <1>0, <2>1 DEF IdentityPath, Serving
<1>7. ASSUME NEW w \in Worker, Die(w) PROVE IdentityPath'
  <2>1. /\ workers'[w].read["identity"] = None /\ workers'[w].at = "forked"
        /\ \A v \in Worker \ {w} : workers'[v] = workers[v]
        /\ UNCHANGED <<role, master, memcached, admin>>
    BY <1>0, <1>7 DEF Die, ProcessType, Forked, Key
  <2>2. AnswersArrived' = AnswersArrived
    BY <2>1 DEF AnswersArrived
  <2> QED
    BY <1>0, <2>1, <2>2 DEF IdentityPath, Serving
<1>8. ASSUME NEW w \in Worker, NEW k \in Key, Read(w, k) PROVE IdentityPath'
  <2>1. /\ workers'[w].read["identity"] \in {workers[w].read["identity"], memcached["identity"]}
        /\ workers'[w].at = Outcome(w, k)
        /\ workers'[w].read["identity"] =
              IF k = "identity" THEN memcached["identity"] ELSE workers[w].read["identity"]
        /\ \A v \in Worker \ {w} : workers'[v] = workers[v]
        /\ UNCHANGED <<role, master, memcached, admin>>
    BY <1>0, <1>8 DEF Read, ProcessType, Key
  <2>2. Outcome(w, k) = "serving" => workers'[w].read["identity"] # None
    BY <2>1 DEF Outcome, Parameters, Key
  <2>3. AnswersArrived' = AnswersArrived
    BY <2>1 DEF AnswersArrived
  <2> QED
    BY <1>0, <2>1, <2>2, <2>3 DEF IdentityPath, Serving
<1>9. CASE ClientStep \/ UNCHANGED vars
  <2>1. UNCHANGED <<role, master, memcached, workers, admin>>
    BY <1>9 DEF ClientStep, ClientAsks, ClientMeets, ClientMeetsNobody, vars
  <2> QED
    BY <1>0, <2>1 DEF IdentityPath, AnswersArrived, Serving
<1> QED
  BY <1>1, <1>2, <1>3, <1>4, <1>5, <1>6, <1>7, <1>8, <1>9 DEF Next, MasterStep, WorkerStep

\* Workers serve, and the master listens, only with an identity the admin was told of
\* and has sent ether to, whatever restarts, deaths and registrations come in between.
THEOREM RegisteredIsServed == Spec => []ServesWhatIsRegistered
<1>1. IdentityPath => ServesWhatIsRegistered
  BY DEF IdentityPath, ServesWhatIsRegistered, Known
<1> QED
  BY <1>1, IdentityTypeInit, IdentityTypeStep, IdentityPathInit, IdentityPathStep, PTL DEF Spec

-------------------------------------------------------------------------------
(* One identity.                                                           *)

LEMMA SameIdentityIsOne ==
    ASSUME IdentityType, SameIdentity PROVE \E x : Ids = {x}
<1>1. CASE role = "gateway"
  BY <1>1, FS_Singleton DEF SameIdentity, Ids, IdentityType, AdminType
<1>2. CASE role # "gateway"
  <2>1. 1 .. 1 = {1}
    OBVIOUS
  <2> QED
    BY <1>2, <2>1 DEF SameIdentity, Ids
<1> QED
  BY <1>1, <1>2

\* With one identity no client is rejected, and those that go on talk about the one
\* that the master listens for.
THEOREM OneIdentitySuffices == Spec => []OneIdentityIsHeard
<1>1. ASSUME IdentityType, IdentityPath PROVE OneIdentityIsHeard
  <2> SUFFICES ASSUME SameIdentity
               PROVE  /\ ~Rejected
                      /\ GoesOn /\ master.at = "listening" => client.met = master.id
    BY DEF OneIdentityIsHeard
  <2>1. PICK x : Ids = {x}
    BY <1>1, SameIdentityIsOne
  <2>2. client.asked \in {x, None} /\ client.met \in {x, None}
    BY <1>1, <2>1 DEF IdentityType, ProcessType
  <2>3. master.at = "listening" => master.id = x
    BY <1>1, <2>1 DEF IdentityType, AdminType, IdentityPath, Known
  <2> QED
    BY <2>2, <2>3 DEF Rejected, GoesOn
<1> QED
  BY <1>1, IdentityTypeInit, IdentityTypeStep, IdentityPathInit, IdentityPathStep, PTL DEF Spec

-------------------------------------------------------------------------------
(* The first start.                                                        *)

\* What one start leaves about it: nothing before it has an identity, then only that.
OneStart(id) ==
    \A k \in {"identity", "device"} :
        /\ memcached[k] \in {None, id}
        /\ \A w \in Worker : workers[w].read[k] \in {None, id}

FirstStart ==
    /\ starts = 0 => master.at = "stopped" /\ OneStart(None) /\ \A w \in Worker : ~Serving(w)
    /\ starts = 1 /\ master.at # "stopped" =>
          /\ OneStart(IF master.at \in {"asking", "failed"} THEN None ELSE master.id)
          /\ \A w \in Worker : Serving(w) => \A k \in Parameters : workers[w].read[k] # None

LEMMA FirstStartInit == Init => FirstStart
  BY DEF Init, FirstStart, OneStart, Down, Key, Serving

LEMMA FirstStartStep == IdentityType /\ FirstStart /\ [Next]_vars => FirstStart'
<1> SUFFICES ASSUME IdentityType, FirstStart, [Next]_vars PROVE FirstStart'
  OBVIOUS
<1>0. /\ MasterType /\ ProcessType /\ FirstStart /\ starts \in Nat
  BY ClusterStartupAssumption DEF IdentityType, AdminType
<1>1. CASE Start
  BY <1>0, <1>1 DEF Start, FirstStart, OneStart, Forked, Key, Serving
<1>2. ASSUME NEW r \in Requests, AskAdmin(r) PROVE FirstStart'
  BY <1>0, <1>2 DEF AskAdmin, FirstStart, OneStart, Serving, MasterType, Parameters
<1>3. CASE Count
  BY <1>0, <1>3 DEF Count, FirstStart, OneStart, Serving, MasterType, Parameters
<1>4. CASE Stop
  BY <1>0, <1>4 DEF Stop, FirstStart
<1>5. ASSUME NEW k \in Key, Store(k) PROVE FirstStart'
  <2>1. /\ master.at = "storing" /\ master'.at \in {"storing", "listening"}
        /\ master'.id = master.id /\ UNCHANGED <<role, starts, workers>>
        /\ \A j \in {"identity", "device"} : memcached'[j] \in {memcached[j], master.id}
    BY <1>0, <1>5 DEF Store, MasterType, ProcessType, Value, Key
  <2> QED
    BY <1>0, <2>1 DEF FirstStart, OneStart, Serving, Parameters
<1>6. ASSUME NEW w \in Worker, Die(w) PROVE FirstStart'
  <2>1. /\ \A k \in {"identity", "device"} : workers'[w].read[k] = None
        /\ workers'[w].at = "forked"
        /\ \A v \in Worker \ {w} : workers'[v] = workers[v]
        /\ UNCHANGED <<role, starts, master, memcached>>
    BY <1>0, <1>6 DEF Die, ProcessType, Forked, Key
  <2> QED
    BY <1>0, <2>1 DEF FirstStart, OneStart, Serving, Parameters
<1>7. ASSUME NEW w \in Worker, NEW k \in Key, Read(w, k) PROVE FirstStart'
  <2>1. /\ \A j \in Key : workers'[w].read[j] = IF j = k THEN memcached[k] ELSE workers[w].read[j]
        /\ workers'[w].at = Outcome(w, k) /\ workers[w].at = "forked"
        /\ \A v \in Worker \ {w} : workers'[v] = workers[v]
        /\ UNCHANGED <<role, starts, master, memcached>>
    BY <1>0, <1>7 DEF Read, ProcessType, Key
  <2>2. Outcome(w, k) = "serving" => \A p \in Parameters : workers'[w].read[p] # None
    BY <2>1 DEF Outcome, Parameters, Key
  <2>3. OneStart(None) => OneStart(None)'
    BY <2>1 DEF OneStart, Key
  <2>4. OneStart(master.id) => OneStart(master.id)'
    BY <2>1 DEF OneStart, Key
  <2>5. Parameters' = Parameters /\ starts' = starts /\ master' = master
    BY <2>1 DEF Parameters
  <2>6. CASE starts = 0
    <3>1. OneStart(None)' /\ Outcome(w, k) # "serving"
      BY <1>0, <2>2, <2>3, <2>6 DEF FirstStart, OneStart, Parameters, Key
    <3> QED
      BY <1>0, <2>1, <2>5, <2>6, <3>1 DEF FirstStart, Serving
  <2>7. CASE starts = 1
    <3>1. CASE master.at \in {"asking", "failed"}
      BY <1>0, <2>1, <2>2, <2>3, <2>5, <2>7, <3>1 DEF FirstStart, Serving
    <3>2. CASE master.at \notin {"asking", "failed"} /\ master.at # "stopped"
      <4>1. OneStart(master.id)'
        BY <1>0, <2>4, <2>7, <3>2 DEF FirstStart
      <4> QED
        BY <1>0, <2>1, <2>2, <2>5, <2>7, <3>2, <4>1 DEF FirstStart, Serving
    <3>3. CASE master.at = "stopped"
      BY <2>5, <2>7, <3>3 DEF FirstStart
    <3> QED
      BY <3>1, <3>2, <3>3
  <2>8. CASE starts \notin {0, 1}
    BY <2>5, <2>8 DEF FirstStart
  <2> QED
    BY <2>6, <2>7, <2>8
<1>8. CASE ClientStep \/ UNCHANGED vars \/ \E g \in Gateway : RegisterGateway(g)
  <2>1. UNCHANGED <<role, starts, master, memcached, workers>>
    BY <1>8 DEF ClientStep, ClientAsks, ClientMeets, ClientMeetsNobody, vars, RegisterGateway
  <2> QED
    BY <1>0, <2>1 DEF FirstStart, OneStart, Serving, Parameters
<1> QED
  BY <1>1, <1>2, <1>3, <1>4, <1>5, <1>6, <1>7, <1>8 DEF Next, MasterStep, WorkerStep

\* Until the first restart a worker that serves has read what its master listens for.
THEOREM FirstWorkersAreCurrent == Spec => []NothingStaleAtFirst
<1>1. IdentityType /\ FirstStart => NothingStaleAtFirst
  BY DEF FirstStart, OneStart, NothingStaleAtFirst, Current, Serving, Parameters, Key
<1> QED
  BY <1>1, IdentityTypeInit, IdentityTypeStep, FirstStartInit, FirstStartStep, PTL DEF Spec
===============================================================================
