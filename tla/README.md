# A TLA+ model of border-chain

border-chain is an access-control prototype for IoT domains.  A smart contract
keeps what the parties have vouched for, and seven kinds of Node.js programs
("actors") follow its event log: they authenticate a gateway (owner and ISP),
authenticate a device (device, gateway and vendor), and grant a service access to
a device (service and gateway).  This directory models that system in TLA+,
checks the models with TLC and proves the main results with TLAPS.

Paths below are relative to the repository; `contract` is
`src/contracts/RegistryContract.sol` and the actors are in `src/actors/`.
In the source tree this project was written against, the repository is the
directory `src`, so `PROJECT.json` writes `src/src/actors/...`.

## Inventory

| Component | State it keeps | Operations | Talks to |
|---|---|---|---|
| Registry contract | `payloads`, `trustedGateways`, `trustedDevices`, the event log | `storePayload`, three `approve...`, three `revoke...`, three views | everybody, by transactions, calls and events |
| Owner | one payload entry and its identities in memcached; the state of `main()` | register, publish, handle `PayloadAdded` and `GatewayApproved` | ISP and admin (HTTP), contract |
| ISP | users, payload entries, nonce counter, identity in memcached; a cluster of workers | `POST /register`, `POST /authenticate`, the same two events | owner (HTTP), contract |
| Admin | one gateway, one device, maps of ISPs and vendors, in memory | GET and POST for each, seeding of ether, the ABI | all actors (HTTP) |
| Gateway | payload entries, accesses, tokens, handshake nonces and secrets, nonce counter; a cluster | `POST /authenticate`, `/authorize`, `/handshake`, `/resource`, three events | vendor, device, service (HTTP), contract |
| Vendor | payload entries, its devices, nonce counter; a cluster | `POST /authenticate`, two events | gateway (HTTP), contract |
| Device | its identity and its authentication payload | authenticate, answer `GET` requests | gateway, admin (HTTP) |
| IoT service | payload entry, token and secret | publish, handle two events, handshake, ask for the resource | gateway (HTTP), contract |
| Transaction nonces | `txNonce` in each cluster's memcached, the account's count at the node | read, use, increment; overwritten when a master starts | workers, master, Ethereum node |

Helpers (`src/actors/utils`) wrap memcached, HTTP, web3 and cryptography.  The
benchmarks, the migrations and the virtual machines keep no state of the system.

### What is hard

* **Interleaving.**  Every `await` yields.  The handlers of one event stream, of
  two streams and of HTTP requests of several worker processes interleave at
  every memcached round trip; most handlers check first and write later.
* **Ordering.**  Each actor has its own subscription.  Nothing makes an actor see
  an event before a message that another actor sends because of that event.
* **No answers, no retries.**  Database helpers throw for a missing key; in a
  handler the exception is an unhandled rejection, which Node 10 only reports, so
  an HTTP request is left without an answer, and no client asks twice.
* **Fire and forget.**  Transactions are signed with a nonce from a shared
  counter and sent without waiting; an actor answers 200 before anything is mined.
* **Restarts.**  memcached outlives the processes: a new master overwrites the
  counter and, in the ISP and the vendor, the identity, while workers already run.
* **Untyped payloads.**  The contract does not distinguish a gateway's, a device's
  and a service's payload: any method can be used on any of them.
* **Width.**  `block.timestamp + expiredIn` is unchecked 256-bit arithmetic.

`PROJECT.json` lists each of these where it bites ("hazards"), with the properties
that cover it.

## Modules

| Module | Models |
|---|---|
| `PayloadLifecycle` | Abstract specification: a payload is stored, approved, revoked, once each and in this order, by parties that never change |
| `RegistryContract` | The contract: every modifier, transaction, event and view.  Its refinement mapping to `PayloadLifecycle` is at its end |
| `TxNonce` | The shared nonce counter, its users, the master and the node |
| `ActorEvents` | What all actors do with the contract: subscriptions, event handlers as tasks, transactions sent and not awaited.  `EXTENDS RegistryContract` |
| `Authentication` | Abstract specification: an application is announced, vouched for by an approver that knows the applicant, approved and recorded, once each and in this order |
| `GatewayAuthentication` | Owners, ISP and admin, composed with the contract: `EXTENDS ActorEvents` and calls the contract's transactions when they are mined.  Its refinement mapping to `Authentication` is at its end |
| `DeviceAuthentication` | Devices, gateway and vendor, composed with the contract in the same way, and refined to the same `Authentication` |
| `AccessGrant` | Abstract specification: an access token is approved, opens a session and serves a resource, once each, for no more than the list grants and not after it expired |
| `AccessAuthorization` | Services and gateway, composed with the contract in the same way.  Its refinement mapping to `AccessGrant` is at its end |
| `ClusterStartup` | A master and its workers, memcached and the admin, from the first start through deaths and restarts, for the three programs that are clusters |
| `MC...` | Instances for TLC of the module they name |
| `...Proofs` | Theorems: `RegistryProofs` and `RegistryLogProofs` (the contract), `TxNonceProofs`, `ClusterStartupProofs`, `GatewayAuthenticationProofs`, `DeviceAuthenticationProofs`, `AccessAuthorizationProofs` |

Operators written as "Fault" in a comment are the plausible bugs that the
properties are tested against: each replaces the operator that follows it, and TLC
must then find the property violated.

### RegistryContract

One action per method; a `require` that fails reverts the transaction, so each
modifier is a guard and a reverted transaction is a step that is not enabled.
`Next` lets any account call any method with any target, approver, router IP and
duration, the zero values included: the actors call it in far fewer ways, and what
holds here holds for them.  `log` is the chain's event log, `now` the block
timestamp.  Unsigned arithmetic wraps at `UintSize` (2^256 in the code).  Gas,
the constructor's `owner` and the public getter are left out: nothing reads them.

The properties:

* `LogMatchesPayloads` — the actors rebuild their databases by replaying the log
  from block 0 (`fromBlock: 0` in every listener).  The replay gives exactly the
  flags and parties the contract has, and every payload has one announcement, with its
  parties (`Announces`).
* `ChainOfTrust` — a device is approved, an access granted, only behind a gateway
  whose own approval is in the log with no revocation after it.
* `AccessNeverRevives`, `TrustNeedsFreshApproval` — what ended does not come back:
  an access for good, a gateway until a payload that was never approved is.
* `DevicesReplayFromLog`, `TrustedDeviceHasChain` — the device table is what the
  log says, and a trusted device has approved payloads for itself and its gateway.
  The second excludes devices with no gateway on purpose: `isTrustedDevice` looks
  up the router of address zero for them, and says yes if somebody had the zero
  address approved as a gateway.
* `LifecycleSpec` — the contract implements `PayloadLifecycle`.

### TxNonce

The three steps `getCurrentTxNonce`, `approve…/storePayload` (sent, not awaited) and
`incrementTxNonce` of a handler are three actions, since other handlers run between
them.  `WorkerDies` drops one handler, `Restart` all of them; memcached keeps its
counter until the new master's `storeTxNonce`.  What a transaction does once it is
sent is the node's: `Mine` takes the account's next nonce, `Refuse` drops a used one
and, if `KeepsFuture` is FALSE (ganache, which the README of the repository starts),
also one that is too high.

`AnsweredNonceIsPast` says what the counter does guarantee, `GapNeverCloses` what a
race costs: after a skipped nonce nothing the account sends is mined.  `NoncesInSequence` is
what the code takes for granted: it fails as soon as two handlers overlap, and is proved,
with `NothingSkipped`, for a cluster where they do not (see Proofs).

### GatewayAuthentication

| Model | Code |
|---|---|
| `main[o]`, `Register`, `Publish`, `OwnerStoresPayload` | `owner/run.js` `main()`: the registration is awaited, the transaction and the database write are not |
| `tasks` (in `ActorEvents`), `OwnerDelivers`, `IspDelivers`, `ForOwner` | started event handlers; a listener starts one for each event its `if` lets through |
| `OwnerPayloadAdded`, `OwnerGatewayApproved` | `owner/processor.js:19-51`, one alternative per `await` |
| `IspPayloadAdded`, `IspGatewayApproved` | `isp/processor.js:10-18` |
| `request[o]`, `ReadPayload`, `CheckUser`, `SendApproval` | `isp/processor.js:35-69`; `"hung"` is a request whose handler threw; the two awaits on the nonce counter (lines 64 and 66) are in `TxNonce` |
| `ownerDb`, `ispDb`, `users` | the payload and user databases |
| `pool`, `MineStore`, `MineApproval`, `Refuse` | the node, which may refuse any transaction: the ISP's because of its nonce, which `TxNonce` explains, the owner's because `admin.js:36` answers before the account has its ether and `owner/contract.js:59-73` sends without waiting |
| `OtherTransacts` | an account that uses the contract for itself, with a payload about the same gateway |
| `admin` | `REGISTERED_GATEWAY` in `admin.js` |

Signatures and encryption are abstracted: the ISP accepts what the owner whose
payload it is signed.  Events of one subscription are delivered in any order, which
includes the order of the log.  Each event is delivered once: a restart, which
subscribes again from block 0, is in `DeviceAuthentication` only.

`DatabasesBehindChain` relates what each actor remembers to the contract,
`ApprovedWasRequested` the approval to the owner's own steps, `RegisteredWasApproved`
the admin's slot to the contract.  `AuthenticationEnds` is the liveness property: an
authentication comes to one of the ends in `Ended`.  `SettledHasEnded` is its safety half:
where nothing is left to do for an owner (`Settled`: no program, request, transaction,
handler or undelivered event), one of these ends has been reached: the gateway is
registered; the owner's own transaction was refused, so its payload was never announced
(`NeverAnnounced`); the announcement came before the owner's database write; the ISP never
answered; or the ISP's transaction was refused after it answered 200.  A handler that wrongly
took its work for done, or a request denied for no reason, would violate it.
`AuthenticationSpec` is the refinement: `users` are those the ISP knows, `AuthStage` reads
how far an owner is from its database, the contract and the ISP's answer.

### DeviceAuthentication

| Model | Code |
|---|---|
| `request[r]`, `ReceiveRequest`, `StoreNewPayload`, `SendStore` | `gateway/processor.js:81-106`; the device's side is one HTTP request (`device/processor.js:88-104`) |
| `GatewayPayloadAdded`, `GatewayDeviceApproved` | `gateway/processor.js:31-64`, one alternative per `await`; the gateway reads its entry once more before it sends, which can give nothing new for copies of one request |
| `VendorPayloadAdded`, `VendorDeviceApproved` | `vendor/processor.js:13-21` |
| `relayed`, `VendorReadsPayload`, `VendorSendsApproval` | `vendor/processor.js:23-72`; one record per hash and per start of the gateway |
| `option`, `carried`, `device`, `preparePayload`, `verifyDeviceAuthPayload` | the four authentication options, `device/processor.js:32-86` and `vendor/processor.js:74-119`: what the sender really has, what the vendor built in, and what each payload shows of it |
| `Signed`, `ValidPayload` | the vendor's signature on the device's address, and the vendor's check of signature and option |
| `gwDb`, `vendorDb` | the payload databases; an entry's `approver` is empty until the event tells it |
| `IsForDevice` | the device that the request named, which the database compares with the event's (`gateway/db/payload-db.js:59`, `:84`); it always is the same one, because requests with one hash have one content |
| `RestartGateway` | the master and the workers stop and start again: handlers and requests are lost, memcached stays, every event is delivered again |
| `MineStore`, `MineApproval`, `Refuse`, `OwnerRevokesGateway` | the node (a failed `require` is mined and has no effect) and the owner's account |

The model starts when the gateway is approved.  Requests with the same hash are
copies of one request.  The vendor is not restarted: it would come back with a new
identity and a new device, which is in `ClusterStartup`.

`TrustedDevicesProved` says that nothing but a signed device that has what its option
asks for ends up in the contract's table (`Genuine` is stated apart from the code's
checks), `ApprovalKept` that read-modify-write handlers that run at
the same time after a restart do not undo each other, `AuthenticationEnds` lists
the ways an accepted request may end and `SettledHasEnded` says that there is no other
way to stop, through restarts and replays.  `TrustedDeviceHasChain` of the contract is
checked here again: what the contract alone cannot promise (see `RegistryContract`) holds
when these actors use it.  `AuthenticationSpec` maps to the same `Authentication` as the
gateways do; an applicant is a payload hash, `vetted` those of genuine, signed devices.
Only there does a restart matter: the abstract specification has no step back, so nothing
that is replayed may undo or repeat one.

### AccessAuthorization

| Model | Code |
|---|---|
| `main[s]`, `GetAccessList`, `Publish`, `ServiceStoresPayload` | `iot-service/run.js` `main()`: the list is awaited, the transaction and the database write are not |
| `ServicePayloadAdded`, `ServiceAccessApproved`, `RequestForResource` | `iot-service/processor.js`: one alternative per `await`; the handshake follows the approval, the resource request the handshake |
| `request[s]` | the latest HTTP request of the service and where the gateway's handler of it is; `"hung"` is one that is never answered |
| `GatewayPayloadAdded`, `GatewayAccessApproved` | `gateway/processor.js:110-139` |
| `AuthorizeReadsToken`, `SetAccesses`, `SendApproval` | `gateway/processor.js:141-182` and `setAccesses` in `db/token-db.js` |
| `StoreNewNonce`, `HandshakeChecksToken`, `UpdateSecret`, `ServeResource` | `gateway/processor.js:184-269` |
| `serviceDb`, `accessDb`, `tokenDb`, `nonceDb` | the payload database of the service; the access, token and nonce databases of the gateway |
| `clock`, `now`, `Skew` | `Date.now()` at the gateway, `block.timestamp`, and how far they may be apart |
| `RestartGateway`, `Refuse`, `Revoke` | as in `DeviceAuthentication`; the accounts may revoke an access or the gateway, no program does |

A handshake always has a fresh nonce, so the check for a used one passes; keys are
abstracted to who has them.  The service's program is one process that is not
restarted.

`TokenKeepsAccesses` and `ApprovalLostToReplayOnly` say which updates of a token can be
lost: none before a restart, and afterwards an approval only to the replayed
`PayloadAdded`.  `ServedUntilExpiry` bounds how stale the gateway's view may get: a
revocation never reaches it, the expiry does, give or take the clocks' difference.
`GrantSpec` is the refinement, `AuthorizationEnds` the liveness property, and
`SettledHasEnded` says that a service for which nothing is left to do has its resource or
ended in one of the ways in `Ended`.

### ClusterStartup

| Model | Code |
|---|---|
| `Start`, `AskAdmin`, `Count`, `Store` | `runMaster` and `initiateSystemSharedParameters` in `isp/run.js`, `vendor/run.js` and `gateway/run.js`: the workers are forked first, the requests to the admin run at the same time, and so do the stores |
| `Read`, `Outcome`, `Die` | `runWorkers`, `getSystemSharedParameters`: a missing value throws, the worker stays alive without listening; a dead worker is replaced |
| `memcached` | identity, device and ABI; the other shared value, the nonce counter, is in `TxNonce` |
| `admin`, `AnsweredByAdmin`, `seedEther`, `RegisterGateway` | the slots, the maps and the handlers of `admin.js` |
| `ClientAsks`, `ClientMeets`, `Rejected`, `GoesOn` | what an owner, a device and a service learn from the admin and from a worker, and the comparison that the device's vendor and the service make |

`role` chooses which of the programs runs.  They touch different slots of the admin, so
running several at once would show nothing more.  A worker's death is any exit; when
the master stops its workers stop too.

`ServesWhatIsRegistered` relates what workers serve with to what the admin knows.
`NothingStaleAtFirst` and `OneIdentityIsHeard` say under which condition the identities
in use agree (one start, one registered gateway); without it they do not, which is how
a restart of the ISP or the vendor misleads clients.  `NewWorkersServe` is the liveness
property: only a worker forked after the master listens is sure to serve.

## Runs

| Run | Shows | Bounds |
|---|---|---|
| `registry` | the contract's main properties under arbitrary calls | 2 payloads, 2 accounts and the zero address, 1 router IP and 0x0, time 0..2 of a 4-value integer, symmetry in payloads and accounts |
| `registry_roles` | the trust tables with two gateways and a device that moves between them | 4 payloads with the parties the actors give them, no time |
| `registry_revoked_gateway`, `registry_current_gateway` | two findings (violations) | as `registry_roles`, with an access payload for the first |
| `nonce` | what the counter guarantees | 4 requests, 3 at a time, 1 death, 1 restart |
| `nonce_sequence` | a finding | 2 requests |
| `gateway_authentication` | owner, ISP and admin with a bystander, liveness and refinement included | 1 owner, 2 payloads, refused transactions of the owner and of the ISP |
| `device_authentication` | device, gateway and vendor, liveness and refinement included | a genuine device, one without proof, one without the vendor's signature, by three of the options; 1 restart, refused transactions, a revocation |
| `device_repeated`, `device_forwarded` | two findings | 2 copies of a request; 1 request and 1 restart |
| `access_authorization` | service and gateway, liveness and refinement included | 1 service that asks for what is on the list or for more, 2 restarts, refused transactions, revocations, clocks one apart, time 0..3 of a 5-value integer |
| `cluster_startup` | what the three programs serve with | 2 workers, 2 starts, 1 death, 2 gateways, one client |

Why they are enough: every method of the contract touches one payload and at most
two table entries, so two payloads suffice for one to interfere with another and
the roles run adds the second gateway that a device needs to move.  A 4-value
integer wraps within the time bound.  Three overlapping handlers are one more than
a race needs, the fourth request comes after it.  Two owners would share nothing
but the admin's slot (their entries have keys of their own), so one owner and a
bystander that touches the same gateway show more; the same holds for two services.
The three device requests cover each branch of the gateway's and the vendor's checks;
one restart lets every event be handled twice.  An access needs two: the first to have
an approval overwritten by a replay, the second to have it recorded again.  Time reaches
the expiry and passes it on both clocks.  Two starts give a worker something stale to
read, two workers let one be early and one be late, and a death replaces either.

`CHECK_DEADLOCK FALSE` is set where the system may stop: when every hash is
revoked, every request handled, or every start used, nothing is left to do.

### Fairness

`GatewayAuthentication`, `DeviceAuthentication` and `AccessAuthorization` assume that
programs and started handlers go on, subscriptions deliver, and the node mines or
refuses.  Node's event loop, a live websocket and a mining node justify these; no
request has to arrive, no restart, revocation, tick of a clock or other account's
transaction has to happen.  `ClusterStartup` assumes that a master and a worker that
were started go on.  All fairness is weak: nothing relies on an action that is enabled
only now and then.  `AuthenticationEnds` and `AuthorizationEnds` list every way an
authentication or authorization can get stuck under this fairness, so a new way would
be reported.  That there is no other way to stop needs no fairness: it is the invariant
`SettledHasEnded` of each of the three modules, and proved.  What fairness adds is that the
system does get to where nothing is left to do.

## Findings

* A revoked gateway's accesses stay valid; the contract's TODO names the missing
  check and the test file says otherwise (`RevokedGatewayEndsAccess`).
* Revoking the old payload of a device that has moved removes it from its current
  gateway (`DeviceKeepsCurrentGateway`).  `revokeGateway` has the same form.
* Two overlapping requests use one nonce and skip the next
  (`NoncesInSequence`).
* Two overlapping copies of a device's request pass the gateway's replay check
  (`HashProcessedOnce`).
* A restart of the gateway between recording a payload as stored and sending it to
  the vendor loses it, although the device was told that it is being forwarded
  (`ForwardedToVendor`).

The liveness properties and their escapes name more of what the code does, without a
line in the repository that says otherwise:

* A request that overtakes the receiver's own event is never answered, at the ISP, the
  vendor and the gateway: the 404 after `getPayload` or `getTokenObject` is behind a
  call that throws.  No client asks again.
* A service whose handshake overtakes the gateway's own `AccessApproved` is denied for
  good.
* A payload whose event arrives before the database write that `main()` did not wait
  for ends in an exception, for owners and services.
* After a restart the gateway may overwrite a token that it has approved, with the
  accesses tied to it, because `PayloadAdded` is delivered again.
* Workers are forked before the parameters they read are stored.  Those that are too
  early at the first start never listen; at a later start they serve with the last
  identity, the vendor's possibly with one half of each.
* The admin answers that an account has ether before the transfer is mined.  An owner's or
  a service's first transaction may then be refused; neither waits for it nor sees it
  fail, `main()` ends, and the payload is never announced.

## Proofs

All theorems are of the form `Spec => []P`, `Spec => [][A]_vars` or `Spec =>
Abstract!Spec`, for every value of the constants allowed by the modules'
assumptions: any sets of hashes and addresses, any width, any finite set of
requests, any number of owners, services, workers and restarts.  The assumptions are

* `RegistryAssumption`: the zero values are not among the others, time fits the width;
* `TxNonceAssumption`: the set of requests is finite, the bounds are natural numbers;
* `ClusterStartupAssumption`: identities are numbers, the roles are the three;
* `GatewayAuthenticationAssumption`: the ISP is no owner, owners have different payload
  hashes, the actors are addresses;
* `DeviceAuthenticationAssumption`: gateway and vendor differ, requests with one hash
  have the same content, none has the gateway's own hash;
* `AccessAuthorizationAssumption`: services have different payload hashes, gateway, owner
  and ISP are no services, the list the gateway hands out is not empty, and an expiry
  within the modelled time does not overflow.

The contract:

* `TypeCorrect` (contract): `TypeOK` is inductive; the events need their own lemma.
* `ChainOfTrustHolds`: `ChainOfTrust` alone is not inductive, because a transaction
  checks `trustedGateways` and not the log.  `TrustIsLogged` connects the two: a
  gateway in the table has an approval in the log with no revocation after it.
  Two lemmas say how "vouched for" changes when the log grows.
* `LogReplays`: the conjuncts of `LogMatchesPayloads` are inductive together.  A
  step appends one event and raises the rank of one payload (`PayloadStep`).
* `EndedAccessStaysEnded`, `TrustIsNeverReused`: from the same invariant, with the
  facts that approvals are never undone and time does not decrease.
* `ImplementsLifecycle`: every transaction maps to `Store`, `Approve` or `Revoke`
  of its payload, `Tick` to a stutter; the order of the flags is needed to know
  from which stage a payload comes.
* `DevicesAreReplayed`: inductive with the types; each event moves at most one device
  (`Moved`), and the last move of a device in a longer log is the new event or the old
  last one.
* `DeviceChainHolds`: true only where every payload is used with the methods of one
  kind, so that is a hypothesis (`[]MethodsMatch(kind)`, for any assignment of kinds).
  The invariant says what an approved payload of each kind stands for in the tables.

The nonce counter:

* `AnsweredNonceStaysPast`: the inductive invariant says that until a restart the
  counter exceeds the nonce of every answered request, and that a handler before
  its increment holds a nonce not above the counter.
* `GapStaysOpen`: an action property, from the type invariant.
* `OneAtATimeInSequence`: where one request is handled at a time, no worker dies and the
  cluster is not restarted (`OneAtATime`),
  no nonce is given twice.  `Serial` says that the one handler under way has the counter's
  value and all answered requests have less.
* `OneAtATimeSkipsNothing`: if moreover the node keeps transactions that come early, none is
  refused and there is never a gap.  `Ordered` says which requests' transactions are where;
  the account may be one ahead of the counter, when a transaction is mined before its
  handler has incremented.

The clusters (`ClusterStartupProofs`):

* `RegisteredIsServed`: what is in memcached was stored by a master all of whose
  requests were answered; `IdentityPath` follows an identity from the master to
  memcached to the workers, with what the admin knows at each place.
* `OneIdentitySuffices`: with one identity every place has that one or none.
* `FirstWorkersAreCurrent`: in the first start memcached and the workers have what the
  master has, or nothing.

Gateway authentication (`GatewayAuthenticationProofs`) and device authentication
(`DeviceAuthenticationProofs`).  Both have the same shape.  The contract's invariant
`LogInv` holds of the composition, since each of its steps is a step of the contract or
leaves it alone (`ChainSteps`); from the log a handler learns facts that stay true
(`EventFacts`, `ChainGrows`).  `ActorInv` then says of each place where knowledge is
held what the chain says too:

* `DatabasesFollowChain` needs what each task holds (an entry that is about to be
  written back was read earlier, and is still behind the chain).
* `ApprovalFollowsRequest` and `AdminKnowsApproved` need how far the owner is when its
  request is at the ISP, and that an owner handles each event once.
* `TrustedDevicesAreProved` follows a proof along its way: every relayed request that
  the vendor accepted, every approval on its way into a block, is about a payload that
  a genuine device sent (`Proven`), and every stored payload is an accepted request's
  (`StoredFor`).  `ProofIsGenuine` is the step from the vendor's check to what the
  device has.
* `ApprovalIsKept` holds where no hash is requested twice (`HashesDiffer`, a hypothesis;
  `device_repeated` shows what happens otherwise).  The vendor hears of a payload after
  the gateway recorded it as stored (`StoredFirst`), so the handler of `PayloadAdded` has
  written before an approval can exist, and when it runs again it stops at its check
  (`HandlersInOrder`).
* `SettledOwnerHasEnded`, `SettledRequestHasEnded`: the invariant `TrackInv` says that what
  an actor recorded one of its handlers did, and that a handler that ended has asked for
  what comes next.  Where the chain has no payload, or no approval, and no transaction is
  left, one was refused, which is an end.  Otherwise the lemmas of the log
  (`FlagsAreLogged`, `PartiesAreLogged`) then name the event that would still have to be
  handled if the end had not been reached.  The second holds under `HashesDiffer`.
* `DevicesHaveTheirChain`: `MethodsMatch`, the hypothesis of the contract's
  `DeviceChainHolds`, is proved of the composed system, so here it is needed no more.
* `ImplementsAuthentication`, of both.  For gateways, `ActorInv` suffices: the request is
  `"ok"` before a transaction that approves can be in the pool, and the owner handles its
  approval once.  For devices the approval that the chain has must have been vouched for
  (`VouchedFirst`), and no restart may undo a stage: `NothingUndone`, the step lemma of
  `ApprovalIsKept`, gives that the database only moves on.  It holds under `HashesDiffer`,
  since a second request with the same hash resets the entry.

Access authorization (`AccessAuthorizationProofs`).  The shape is the same again, with
two invariants.  `ActorInv` ties each service's requests to its handlers and to the
chain: a service has one handler per event and each asks the gateway once
(`AsksInOrder`), and a key exists only where the contract approved the token
(`SessionFits`).  `TokenInv` says what the gateway's token entry goes through.

* `DatabasesFollowChain`: an entry held between a read and a write, by a handler or by a
  request, is behind the chain too, approval and expiry included; what the chain says of
  an approved payload never changes.
* `ServedInTime`: a token that passes `validToken` is approved on the chain with the same
  expiry, and block time is at most `Skew` ahead of the gateway's clock.
* `ImplementsGrant`: each step maps to `AccessGrant`'s for one token or to a stutter;
  `SessionFits` gives the stage that the token comes from.
* `TokensKeepAccesses`: without a restart the gateway handles one `PayloadAdded` per
  token, so a token is stored afresh once, before any request knows it
  (`FirstToStore`); the approval is asked for only after the accesses are tied, so
  whatever is on its way to the database has them (`TaskTied`, `RequestTied`).
* `ApprovalLostOnReplay`: from the same invariant.  The request that ties accesses writes
  an entry whose approval nobody has asked for, the handler of the approval keeps it, so
  only a `PayloadAdded` that is handled again is left.
* `SettledServiceHasEnded`: `TrackInv` as above, for the service.  Its handler of
  `AccessApproved` never throws, since a service that asked for access has its entry.

Only model-checked: liveness (`AuthenticationEnds`, `AuthorizationEnds`,
`NewWorkersServe`), which is out of the prover's reach; of the first two the safety half
is proved (`SettledHasEnded`).  Every other property of a passing run is proved.

## Not modelled

* Cryptography: a hash is a name, a valid signature is a message that was sent, a key
  is known to those who made it.  Hash collisions and forged signatures are therefore
  out of the question.
* The encoding of HTTP bodies, logging, gas; ether only as far as it was asked for.
* The benchmarks and the benchmark modes of gateway, owner and service, which switch a
  replay check off so that one payload can be sent many times.
* Restarts of the admin, which keeps its slots in memory and has no code for it, and of
  owner and service, which run once and end.
* What is written and never read: the identities that owner and service keep in
  memcached, the revocation flags of their databases.
* Lost connections to memcached and expired keys, Truffle's migrations, the virtual
  machines.
