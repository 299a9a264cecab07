-------------------------------- MODULE TxNonce --------------------------------
(***************************************************************************)
(* How the gateway (and, with the same code, the ISP and the vendor) picks *)
(* the nonce of an Ethereum transaction.  The cluster's workers share one  *)
(* counter in memcached.  A request handler reads it, sends a transaction  *)
(* with that nonce without waiting for it, increments the counter and      *)
(* answers 200.  The read and the increment are separate round trips, so   *)
(* handlers of the same or of different workers interleave between them;   *)
(* a worker may die at any point of a handler, and the whole cluster may   *)
(* be restarted: its master then counts the account's transactions on the  *)
(* node and overwrites the counter, while the new workers already serve    *)
(* requests with the value memcached still holds.                          *)
(***************************************************************************)
EXTENDS Integers, FiniteSets

CONSTANTS Request,       \* the requests that make the handler send a transaction
          MaxInFlight,   \* bound: how many of them are handled at the same time
          MaxDeaths,     \* bound: workers that die while they handle a request
          MaxRestarts,   \* bound: restarts of the cluster
          KeepsFuture    \* the node keeps a transaction whose nonce is too high
                         \* (a pool) instead of refusing it (ganache)

ASSUME TxNonceAssumption ==
    /\ IsFiniteSet(Request)
    /\ MaxInFlight \in Nat \ {0}
    /\ MaxDeaths \in Nat /\ MaxRestarts \in Nat
    /\ KeepsFuture \in BOOLEAN

VARIABLES pc,        \* pc[r]: where the handler of request r is
          nonce,     \* nonce[r]: what the handler of r read, -1 before it did
          counter,   \* memcached's txNonce
          sent,      \* requests whose transaction is on its way to the node or pooled
          refused,   \* requests whose transaction the node refused
          mined,     \* requests whose transaction was mined
          account,   \* the number of transactions of the account that were mined
          master,    \* the cluster's master: running, or restarting
          deaths,    \* workers that died so far
          restarts   \* restarts so far

vars == <<pc, nonce, counter, sent, refused, mined, account, master, deaths, restarts>>

Handling == {"reading", "sending", "incrementing", "replying"}

Running == [state |-> "running", count |-> 0]

Starting == [state |-> "starting", count |-> 0]

Init == /\ pc = [r \in Request |-> "idle"]
        /\ nonce = [r \in Request |-> -1]
        /\ counter = 0
        /\ sent = {}
        /\ refused = {}
        /\ mined = {}
        /\ account = 0
        /\ master = Running
        /\ deaths = 0
        /\ restarts = 0

InFlight == {r \in Request : pc[r] \in Handling}

Goto(r, from, to) == pc[r] = from /\ pc' = [pc EXCEPT ![r] = to]

\* A request passed the handler's checks: it is about to ask for the nonce.
Receive(r) == /\ Cardinality(InFlight) < MaxInFlight
              /\ Goto(r, "idle", "reading")
              /\ UNCHANGED <<nonce, counter, sent, refused, mined, account, master, deaths, restarts>>

\* Fault: the nonce comes from the node instead of the shared counter.
ReadFromNode(r) == /\ Goto(r, "reading", "sending")
                   /\ nonce' = [nonce EXCEPT ![r] = account]
                   /\ UNCHANGED <<counter, sent, refused, mined, account, master, deaths, restarts>>

getCurrentTxNonce(r) == /\ Goto(r, "reading", "sending")
                        /\ nonce' = [nonce EXCEPT ![r] = counter]
                        /\ UNCHANGED <<counter, sent, refused, mined, account, master, deaths, restarts>>

\* The transaction is signed and sent; nobody waits for it or sees it fail.
sendTransaction(r) == /\ Goto(r, "sending", "incrementing")
                      /\ sent' = sent \cup {r}
                      /\ UNCHANGED <<nonce, counter, refused, mined, account, master, deaths, restarts>>

\* Fault: the increment is lost.
IncrementNothing(r) == /\ Goto(r, "incrementing", "replying")
                       /\ UNCHANGED <<nonce, counter, sent, refused, mined, account, master, deaths, restarts>>

\* memcached's incr is atomic.
incrementTxNonce(r) == /\ Goto(r, "incrementing", "replying")
                       /\ counter' = counter + 1
                       /\ UNCHANGED <<nonce, sent, refused, mined, account, master, deaths, restarts>>

Reply(r) == /\ Goto(r, "replying", "answered")
            /\ UNCHANGED <<nonce, counter, sent, refused, mined, account, master, deaths, restarts>>

\* The worker that handles r dies; what it already sent is not taken back.
WorkerDies(r) == /\ deaths < MaxDeaths
                 /\ pc[r] \in Handling
                 /\ pc' = [pc EXCEPT ![r] = "lost"]
                 /\ deaths' = deaths + 1
                 /\ UNCHANGED <<nonce, counter, sent, refused, mined, account, master, restarts>>

\* The cluster is restarted: every handler is lost, memcached is not.
Restart == /\ restarts < MaxRestarts
           /\ pc' = [r \in Request |-> IF r \in InFlight THEN "lost" ELSE pc[r]]
           /\ master' = Starting
           /\ restarts' = restarts + 1
           /\ UNCHANGED <<nonce, counter, sent, refused, mined, account, deaths>>

\* The next nonce the node expects, the pooled transactions included.
PendingCount ==
    CHOOSE n \in account .. (account + Cardinality(sent)) :
        /\ \A m \in account .. (n - 1) : \E r \in sent : nonce[r] = m
        /\ \A r \in sent : nonce[r] # n

\* Fault: the number of the last transaction instead of the next one.
CountFromLast == /\ master.state = "starting"
                 /\ \E n \in account .. PendingCount :
                       master' = [state |-> "counted", count |-> n - 1]
                 /\ UNCHANGED <<pc, nonce, counter, sent, refused, mined, account, deaths, restarts>>

\* The new master asks for the count.  What is on its way to the node may or may
\* not have arrived.
getTransactionCount == /\ master.state = "starting"
                       /\ \E n \in account .. PendingCount :
                             master' = [state |-> "counted", count |-> n]
                       /\ UNCHANGED <<pc, nonce, counter, sent, refused, mined, account, deaths, restarts>>

storeTxNonce == /\ master.state = "counted"
                /\ counter' = master.count
                /\ master' = Running
                /\ UNCHANGED <<pc, nonce, sent, refused, mined, account, deaths, restarts>>

\* The node mines the transaction that has the account's next nonce.
Mine(r) == /\ r \in sent
           /\ nonce[r] = account
           /\ account' = account + 1
           /\ mined' = mined \cup {r}
           /\ sent' = sent \ {r}
           /\ UNCHANGED <<pc, nonce, counter, refused, master, deaths, restarts>>

\* It refuses a nonce already used, and one too high unless it keeps those.
Refuse(r) == /\ r \in sent
             /\ nonce[r] < account \/ (~KeepsFuture /\ nonce[r] > account)
             /\ sent' = sent \ {r}
             /\ refused' = refused \cup {r}
             /\ UNCHANGED <<pc, nonce, counter, mined, account, master, deaths, restarts>>

Handle(r) == \/ getCurrentTxNonce(r) \/ sendTransaction(r)
             \/ incrementTxNonce(r) \/ Reply(r)

Node(r) == Mine(r) \/ Refuse(r)

Next == \/ \E r \in Request : Receive(r) \/ Handle(r) \/ WorkerDies(r) \/ Node(r)
        \/ Restart \/ getTransactionCount \/ storeTxNonce

Spec == Init /\ [][Next]_vars

-------------------------------------------------------------------------------
(* Properties.                                                             *)

\* Every variable has its type.
TypeOK ==
    /\ pc \in [Request -> Handling \cup {"idle", "answered", "lost"}]
    /\ nonce \in [Request -> Int]
    /\ counter \in Nat
    /\ sent \subseteq Request /\ refused \subseteq Request /\ mined \subseteq Request
    /\ account \in Nat
    /\ master \in [state : {"running", "starting", "counted"}, count : Nat]
    /\ deaths \in 0 .. MaxDeaths /\ restarts \in 0 .. MaxRestarts

\* Until the cluster is restarted, a request that asks for its nonce after another
\* one was answered gets a later nonce, whatever else is handled meanwhile and
\* whichever workers die: two transactions share a nonce only if their handlers
\* overlapped or one of them was cut short.
AnsweredNonceIsPast ==
    [][\A r, s \in Request :
         restarts' = 0 /\ pc[s] = "answered" /\ pc[r] = "reading" /\ pc'[r] = "sending"
         => nonce'[r] > nonce[s]]_vars

\* The counter has run ahead of the account and no handler or transaction has
\* the nonce the node waits for.
Gap == /\ master = Running
       /\ counter > account
       /\ \A r \in Request : pc[r] \in {"sending"} \/ r \in sent => nonce[r] # account

\* A gap never closes by itself: once the counter skipped a nonce, no transaction
\* of the account is mined any more, however many requests are answered with
\* 200, until the cluster is restarted.
GapNeverCloses == [][Gap => Gap' \/ restarts' # restarts]_vars

\* Transactions are sent with sequential nonces: no two requests get the same.
NoncesInSequence ==
    \A r, s \in Request : r # s /\ nonce[r] = nonce[s] => nonce[r] = -1

\* What one handler at a time, without failures, would make of the counter: nothing that
\* was sent is refused and no nonce is skipped, so whatever was answered can be mined.
NothingSkipped == refused = {} /\ ~Gap
===============================================================================
