---------------------------- MODULE ClusterStartup ----------------------------
(***************************************************************************)
(* How the program of an ISP, a vendor or a gateway comes up               *)
(* (src/actors/isp/run.js, vendor/run.js, gateway/run.js, admin.js).       *)
(*                                                                         *)
(* The master forks the workers first.  Then it creates an identity (the   *)
(* gateway asks the admin for the one an owner registered), registers it   *)
(* at the admin, stores it and the contract's ABI in memcached and listens *)
(* for events about it.  A worker reads identity and ABI when it is forked *)
(* and serves with them until it dies; if it finds nothing it stays alive  *)
(* and never listens.  A dead worker is replaced.  When the master stops   *)
(* its workers stop too, and memcached does not.                           *)
(*                                                                         *)
(* The programs meet only at the admin and there touch different slots, so *)
(* one program is modelled, of the role chosen at the start, with one of   *)
(* its clients: an owner that registers at the ISP, a device that gets its *)
(* properties from the admin, a service that compares the gateway it asks  *)
(* with the one the admin names.                                           *)
(***************************************************************************)
EXTENDS Integers, FiniteSets

CONSTANTS Role,       \* the programs: some of isp, vendor and gateway
          Worker,     \* the places of the workers, os.cpus().length in the code
          Gateway,    \* identities of the gateways that owners create
          MaxStarts,  \* bound: starts of the master
          MaxDeaths   \* bound: deaths of workers

None == 0  \* undefined, or no answer

ASSUME ClusterStartupAssumption ==
    /\ Role \subseteq {"isp", "vendor", "gateway"}
    /\ Gateway \subseteq Nat \ {None}
    /\ MaxStarts \in Nat /\ MaxDeaths \in Nat

VARIABLES role,       \* which program it is
          starts,     \* starts of the master so far
          deaths,     \* deaths of workers so far
          master,     \* how far the master has come, with which identity
          memcached,  \* the identity, the vendor's device and the ABI
          workers,    \* workers[w]: how far it has come, and what it has read
          admin,      \* the slots and the maps of the admin
          posted,     \* the gateways that owners have registered
          client      \* what the client has been told, by the admin and by a worker

vars == <<role, starts, deaths, master, memcached, workers, admin, posted, client>>

Key == {"identity", "device", "abi"}

\* What a worker waits for.
Parameters == IF role = "vendor" THEN Key ELSE Key \ {"device"}

\* What the master asks of the admin and waits for.
Requests == {"seedEther"} \cup (IF role = "isp" THEN {"registerIsp"}
                                ELSE IF role = "vendor" THEN {"registerDevice", "registerVendor"}
                                ELSE {"getGatewayInfo"})

Down == [at |-> "down", todo |-> {}, read |-> [k \in Key |-> None]]

Forked == [at |-> "forked", todo |-> Parameters, read |-> [k \in Key |-> None]]

Init == /\ role \in Role
        /\ starts = 0 /\ deaths = 0
        /\ master = [at |-> "stopped", id |-> None, todo |-> {}]
        /\ memcached = [k \in Key |-> None]
        /\ workers = [w \in Worker |-> Down]
        /\ admin = [gateway |-> None, device |-> None, isps |-> {}, vendors |-> {}, seeded |-> {}]
        /\ posted = {}
        /\ client = [asked |-> None, met |-> None, failed |-> FALSE]

-------------------------------------------------------------------------------
(* The master.                                                             *)

\* The workers are forked; an ISP or a vendor, with its device, is a new one.
Start == /\ master.at = "stopped" /\ starts < MaxStarts
         /\ starts' = starts + 1
         /\ master' = [at |-> "asking", todo |-> Requests,
                       id |-> IF role = "gateway" THEN None ELSE starts + 1]
         /\ workers' = [w \in Worker |-> Forked]
         /\ UNCHANGED <<role, deaths, memcached, admin, posted, client>>

\* GET /seed-ether at the admin: ether is sent to whom it was asked for, and the
\* answer does not wait for it.
seedEther == admin' = [admin EXCEPT !.seeded = @ \cup ({master.id} \ {None})]

\* Fault: what is registered has no address yet.
WithoutAddress(r) == admin' = [admin EXCEPT !.isps = @ \cup {None}]

\* GET /gateway, POST /isp, /device and /vendor, at the admin.
AnsweredByAdmin(r) ==
    \/ r = "getGatewayInfo" /\ UNCHANGED admin
    \/ r = "seedEther" /\ seedEther
    \/ r = "registerIsp" /\ admin' = [admin EXCEPT !.isps = @ \cup {master.id}]
    \/ r = "registerDevice" /\ admin' = [admin EXCEPT !.device = master.id]
    \/ r = "registerVendor" /\ admin' = [admin EXCEPT !.vendors = @ \cup {master.id}]

\* Fault: the gateway is a new one, too.
OwnIdentity(r) == IF r = "getGatewayInfo" THEN starts ELSE master.id

\* Only the gateway learns from the admin who it is, and asks for ether afterwards.
ToldIdentity(r) == IF r = "getGatewayInfo" THEN admin.gateway ELSE master.id

AskAdmin(r) == /\ master.at = "asking" /\ r \in master.todo
               /\ r = "seedEther" => "getGatewayInfo" \notin master.todo
               /\ AnsweredByAdmin(r)
               /\ master' = [master EXCEPT !.todo = @ \ {r}, !.id = ToldIdentity(r)]
               /\ UNCHANGED <<role, starts, deaths, memcached, workers, posted, client>>

\* Fault: nobody waits for the admin's answers.
CountEarly == /\ master.at = "asking"
              /\ master' = [master EXCEPT !.at = IF master.id = None THEN "failed" ELSE "storing",
                                          !.todo = Parameters]
              /\ UNCHANGED <<role, starts, deaths, memcached, workers, admin, posted, client>>

\* All have answered; getTransactionCount throws for a gateway nobody registered.
Count == /\ master.at = "asking" /\ master.todo = {}
         /\ master' = [master EXCEPT !.at = IF master.id = None THEN "failed" ELSE "storing",
                                     !.todo = Parameters]
         /\ UNCHANGED <<role, starts, deaths, memcached, workers, admin, posted, client>>

\* Fault: the gateway is asked for once more when it is stored.
LatestValue(k) == IF k = "abi" THEN 1 ELSE IF role = "gateway" THEN admin.gateway ELSE master.id

\* Fault: what is there is kept.
FirstValue(k) == IF memcached[k] # None THEN memcached[k] ELSE IF k = "abi" THEN 1 ELSE master.id

\* The ABI of the one contract that is deployed; otherwise the start's identity.
Value(k) == IF k = "abi" THEN 1 ELSE master.id

\* One of the stores is done; after the last the listeners are attached.
Store(k) == /\ master.at = "storing" /\ k \in master.todo
            /\ memcached' = [memcached EXCEPT ![k] = Value(k)]
            /\ master' = [master EXCEPT !.todo = @ \ {k},
                                        !.at = IF master.todo = {k} THEN "listening" ELSE @]
            /\ UNCHANGED <<role, starts, deaths, workers, admin, posted, client>>

Stop == /\ master.at # "stopped"
        /\ master' = [at |-> "stopped", id |-> None, todo |-> {}]
        /\ workers' = [w \in Worker |-> Down]
        /\ UNCHANGED <<role, starts, deaths, memcached, admin, posted, client>>

-------------------------------------------------------------------------------
(* The workers.                                                            *)

\* A worker whose reads are all answered serves, or throws and stays alive.
Outcome(w, k) ==
    IF workers[w].todo # {k} THEN "forked"
    ELSE IF \E p \in Parameters \ {k} : workers[w].read[p] = None THEN "failed"
    ELSE IF memcached[k] = None THEN "failed" ELSE "serving"

Read(w, k) == /\ workers[w].at = "forked" /\ k \in workers[w].todo
              /\ workers' = [workers EXCEPT ![w] = [at |-> Outcome(w, k), todo |-> @.todo \ {k},
                                                    read |-> [@.read EXCEPT ![k] = memcached[k]]]]
              /\ UNCHANGED <<role, starts, deaths, master, memcached, admin, posted, client>>

\* The master replaces a worker that exits.
Die(w) == /\ workers[w].at # "down" /\ deaths < MaxDeaths
          /\ deaths' = deaths + 1
          /\ workers' = [workers EXCEPT ![w] = Forked]
          /\ UNCHANGED <<role, starts, master, memcached, admin, posted, client>>

Serving(w) == workers[w].at = "serving"

-------------------------------------------------------------------------------
(* Owners and clients.                                                     *)

\* POST /gateway at the admin, when an owner sees its gateway approved.
RegisterGateway(g) == /\ role = "gateway" /\ g \notin posted
                      /\ admin' = [admin EXCEPT !.gateway = g]
                      /\ posted' = posted \cup {g}
                      /\ UNCHANGED <<role, starts, deaths, master, memcached, workers, client>>

\* What the admin tells a client: a service the gateway, a device its properties,
\* which name the vendor that created it.
Info == IF role = "gateway" THEN admin.gateway ELSE admin.device

ClientAsks == /\ role # "isp" /\ client.asked = None /\ ~client.failed
              /\ client' = [client EXCEPT !.asked = Info, !.failed = (Info = None)]
              /\ UNCHANGED <<role, starts, deaths, master, memcached, workers, admin, posted>>

\* The owner registers and the device authenticates at a worker (the device through
\* its gateway); the service gets a list of accesses that the worker has signed.
ClientMeets(w) == /\ client.met = None /\ ~client.failed
                  /\ role = "vendor" => client.asked # None
                  /\ Serving(w)
                  /\ client' = [client EXCEPT !.met = workers[w].read["identity"]]
                  /\ UNCHANGED <<role, starts, deaths, master, memcached, workers, admin, posted>>

ClientMeetsNobody == /\ client.met = None /\ ~client.failed
                     /\ role = "vendor" => client.asked # None
                     /\ \A w \in Worker : ~Serving(w)
                     /\ client' = [client EXCEPT !.failed = TRUE]
                     /\ UNCHANGED <<role, starts, deaths, master, memcached, workers, admin, posted>>

\* The service compares the list's signer with the gateway, the vendor's worker the
\* signer of the device with itself; an owner believes what the ISP says it is.
Rejected == client.asked # None /\ client.met # None /\ client.asked # client.met

GoesOn == /\ client.met # None /\ ~client.failed
          /\ role = "isp" \/ client.asked = client.met

-------------------------------------------------------------------------------

MasterStep == (\E r \in Requests : AskAdmin(r)) \/ Count \/ (\E k \in Key : Store(k))

WorkerStep(w) == \E k \in Key : Read(w, k)

ClientStep == ClientAsks \/ (\E w \in Worker : ClientMeets(w)) \/ ClientMeetsNobody

Next == \/ Start \/ MasterStep \/ Stop
        \/ \E w \in Worker : WorkerStep(w) \/ Die(w)
        \/ \E g \in Gateway : RegisterGateway(g)
        \/ ClientStep

Spec == Init /\ [][Next]_vars

\* A program that was started goes on, as long as it is not stopped.
FairSpec == Spec /\ WF_vars(MasterStep) /\ \A w \in Worker : WF_vars(WorkerStep(w))

-------------------------------------------------------------------------------
(* Properties.                                                             *)

Identity == 0 .. MaxStarts \cup Gateway

\* Every variable has its type.
TypeOK ==
    /\ role \in Role /\ starts \in 0 .. MaxStarts /\ deaths \in 0 .. MaxDeaths
    /\ master \in [at : {"stopped", "asking", "storing", "listening", "failed"},
                   id : Identity, todo : SUBSET (Requests \cup Key)]
    /\ memcached \in [Key -> Identity \cup {1}]
    /\ workers \in [Worker -> [at : {"down", "forked", "serving", "failed"}, todo : SUBSET Key,
                               read : [Key -> Identity \cup {1}]]]
    /\ admin \in [gateway : Gateway \cup {None}, device : 0 .. MaxStarts,
                  isps : SUBSET (1 .. MaxStarts), vendors : SUBSET (1 .. MaxStarts),
                  seeded : SUBSET (Identity \ {None})]
    /\ posted \in SUBSET Gateway
    /\ client \in [asked : Identity, met : Identity, failed : BOOLEAN]

\* The identities that the admin has been told of.
Registered == admin.isps \cup admin.vendors \cup posted

\* A worker serves, and a master listens, only with an identity that the admin was
\* told of and has sent ether to: memcached never gets it earlier, and no restart,
\* death or other registration in between brings up one that the admin does not know.
ServesWhatIsRegistered ==
    /\ \A w \in Worker : Serving(w) => workers[w].read["identity"] \in Registered \cap admin.seeded
    /\ master.at = "listening" => master.id \in Registered \cap admin.seeded

\* What the worker has read is the identity of the master that runs now, all of it.
Current(w) == \A k \in Parameters \ {"abi"} : workers[w].read[k] = master.id

\* Before the first restart a worker that serves does so with the identity its master
\* listens for, all of it: one that is forked too early may find nothing, but never
\* something else.  A restart ends this: a worker may then read the identity of the
\* previous start, or one half of each.
NothingStaleAtFirst ==
    starts = 1 /\ master.at # "stopped" => \A w \in Worker : Serving(w) => Current(w)

\* An ISP and a vendor change their identity with every start, a gateway when another
\* one is registered.
SameIdentity == IF role = "gateway" THEN Cardinality(posted) = 1 ELSE starts = 1

\* Clients are only ever misled by a second identity: with one, however often workers
\* die and a gateway's master is started again, none is rejected and each that goes on
\* talks about the identity whose events the master listens for.
OneIdentityIsHeard ==
    SameIdentity => /\ ~Rejected
                    /\ GoesOn /\ master.at = "listening" => client.met = master.id

\* A worker that is forked while the master listens replaces the stale ones: it comes
\* to serve, with the master's identity, unless the master is stopped.
NewWorkersServe ==
    \A w \in Worker :
        master.at = "listening" /\ workers[w] = Forked ~>
            (Serving(w) /\ Current(w)) \/ master.at = "stopped"
===============================================================================
