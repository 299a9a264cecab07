----------------------------- MODULE TxNonceProofs -----------------------------
(***************************************************************************)
(* Proofs about TxNonce, for any number of requests, workers, deaths and   *)
(* restarts, and for either kind of node.                                  *)
(***************************************************************************)
EXTENDS TxNonce, FiniteSetTheorems, TLAPS

USE DEF Handling, Running, Starting, Goto

\* Each step keeps every variable's type.
LEMMA TypeStep == TypeOK /\ [Next]_vars => TypeOK'
<1> SUFFICES ASSUME TypeOK, [Next]_vars PROVE TypeOK'
  OBVIOUS
<1> USE TxNonceAssumption DEF TypeOK
<1>1. ASSUME NEW r \in Request, Receive(r) \/ Handle(r) \/ WorkerDies(r) \/ Node(r)
      PROVE  TypeOK'
  <2>1. CASE Receive(r)
    BY <2>1 DEF Receive
  <2>2. CASE getCurrentTxNonce(r)
    BY <2>2 DEF getCurrentTxNonce
  <2>3. CASE sendTransaction(r)
    BY <2>3 DEF sendTransaction
  <2>4. CASE incrementTxNonce(r)
    BY <2>4 DEF incrementTxNonce
  <2>5. CASE Reply(r)
    BY <2>5 DEF Reply
  <2>6. CASE WorkerDies(r)
    BY <2>6 DEF WorkerDies
  <2>7. CASE Mine(r)
    BY <2>7 DEF Mine
  <2>8. CASE Refuse(r)
    BY <2>8 DEF Refuse
  <2> QED
    BY <1>1, <2>1, <2>2, <2>3, <2>4, <2>5, <2>6, <2>7, <2>8 DEF Handle, Node
<1>2. CASE Restart
  BY <1>2 DEF Restart, InFlight
<1>3. CASE getTransactionCount
  BY <1>3 DEF getTransactionCount
<1>4. CASE storeTxNonce
  BY <1>4 DEF storeTxNonce
<1>5. CASE UNCHANGED vars
  BY <1>5 DEF vars
<1> QED
  BY <1>1, <1>2, <1>3, <1>4, <1>5 DEF Next

LEMMA TypeInit == Init => TypeOK
  BY TxNonceAssumption DEF Init, TypeOK

\* Every variable keeps its type: in particular the counter never goes below 0.
THEOREM TypeCorrect == Spec => []TypeOK
  BY TypeInit, TypeStep, PTL DEF Spec

\* Without a restart the counter is past the nonce of every request that has
\* incremented it, and has reached that of every request that has read it.
CounterPast ==
    restarts = 0 =>
        /\ master = Running
        /\ \A r \in Request :
              /\ pc[r] \in {"replying", "answered"} => nonce[r] < counter
              /\ pc[r] \in {"sending", "incrementing"} => nonce[r] <= counter

NonceInv == TypeOK /\ CounterPast

LEMMA NonceInvStep == NonceInv /\ [Next]_vars => NonceInv'
<1> SUFFICES ASSUME NonceInv, [Next]_vars PROVE CounterPast'
  BY TypeStep DEF NonceInv
<1> USE DEF NonceInv, TypeOK, CounterPast
<1>1. ASSUME NEW r \in Request, Receive(r) \/ Handle(r) \/ WorkerDies(r) \/ Node(r)
      PROVE  CounterPast'
  <2>1. CASE Receive(r)
    BY <2>1 DEF Receive
  <2>2. CASE getCurrentTxNonce(r)
    BY <2>2 DEF getCurrentTxNonce
  <2>3. CASE sendTransaction(r)
    BY <2>3 DEF sendTransaction
  <2>4. CASE incrementTxNonce(r)
    BY <2>4 DEF incrementTxNonce
  <2>5. CASE Reply(r)
    BY <2>5 DEF Reply
  <2>6. CASE WorkerDies(r)
    BY <2>6 DEF WorkerDies
  <2>7. CASE Mine(r)
    BY <2>7 DEF Mine
  <2>8. CASE Refuse(r)
    BY <2>8 DEF Refuse
  <2> QED
    BY <1>1, <2>1, <2>2, <2>3, <2>4, <2>5, <2>6, <2>7, <2>8 DEF Handle, Node
<1>2. CASE Restart
  BY <1>2, TxNonceAssumption DEF Restart
<1>3. CASE getTransactionCount
  BY <1>3 DEF getTransactionCount
<1>4. CASE storeTxNonce
  BY <1>4 DEF storeTxNonce
<1>5. CASE UNCHANGED vars
  BY <1>5 DEF vars
<1> QED
  BY <1>1, <1>2, <1>3, <1>4, <1>5 DEF Next

LEMMA NonceInvariant == Spec => []NonceInv
<1>1. Init => NonceInv
  BY TypeInit DEF NonceInv, CounterPast, Init
<1> QED
  BY <1>1, NonceInvStep, PTL DEF Spec

\* A request that asks for its nonce after another one was answered gets a later
\* one: only overlapping or interrupted handlers can send the same nonce.
THEOREM AnsweredNonceStaysPast == Spec => AnsweredNonceIsPast
<1> DEFINE Later ==
      \A r, s \in Request :
         restarts' = 0 /\ pc[s] = "answered" /\ pc[r] = "reading" /\ pc'[r] = "sending"
         => nonce'[r] > nonce[s]
<1>1. ASSUME NonceInv, [Next]_vars PROVE [Later]_vars
  <2> SUFFICES ASSUME Next, NEW r \in Request, NEW s \in Request, restarts' = 0,
                      pc[s] = "answered", pc[r] = "reading", pc'[r] = "sending"
               PROVE  nonce'[r] > nonce[s]
    BY <1>1
  <2> USE DEF NonceInv, TypeOK
  <2>1. getCurrentTxNonce(r)
    BY <1>1 DEF Next, Handle, Node, Receive, getCurrentTxNonce, sendTransaction,
       incrementTxNonce, Reply, WorkerDies, Mine, Refuse, Restart, getTransactionCount,
       storeTxNonce
  <2>2. nonce'[r] = counter /\ restarts = 0
    BY <1>1, <2>1 DEF getCurrentTxNonce
  <2> QED
    BY <1>1, <2>2 DEF CounterPast
<1> QED
  BY <1>1, NonceInvariant, PTL DEF Spec, AnsweredNonceIsPast

\* Once the counter has skipped a nonce, the account is stuck until a restart.
THEOREM GapStaysOpen == Spec => GapNeverCloses
<1>1. ASSUME TypeOK, [Next]_vars PROVE [Gap => Gap' \/ restarts' # restarts]_vars
  <2> SUFFICES ASSUME Gap, Next PROVE Gap' \/ restarts' # restarts
    BY <1>1
  <2> USE <1>1 DEF TypeOK, Gap
  <2>1. ASSUME NEW r \in Request, Receive(r) \/ Handle(r) \/ WorkerDies(r) \/ Node(r)
        PROVE  Gap'
    <3>1. CASE Receive(r)
      BY <3>1 DEF Receive
    <3>2. CASE getCurrentTxNonce(r)
      BY <3>2 DEF getCurrentTxNonce
    <3>3. CASE sendTransaction(r)
      BY <3>3 DEF sendTransaction
    <3>4. CASE incrementTxNonce(r)
      BY <3>4 DEF incrementTxNonce
    <3>5. CASE Reply(r)
      BY <3>5 DEF Reply
    <3>6. CASE WorkerDies(r)
      BY <3>6 DEF WorkerDies
    <3>7. CASE Mine(r)
      BY <3>7 DEF Mine
    <3>8. CASE Refuse(r)
      BY <3>8 DEF Refuse
    <3> QED
      BY <2>1, <3>1, <3>2, <3>3, <3>4, <3>5, <3>6, <3>7, <3>8 DEF Handle, Node
  <2>2. CASE Restart
    BY <2>2 DEF Restart
  <2>3. CASE getTransactionCount
    BY <2>3 DEF getTransactionCount
  <2>4. CASE storeTxNonce
    BY <2>4 DEF storeTxNonce
  <2> QED
    BY <2>1, <2>2, <2>3, <2>4 DEF Next
<1> QED
  BY <1>1, TypeCorrect, PTL DEF Spec, GapNeverCloses

-------------------------------------------------------------------------------
(* What a cluster that handles one request at a time and never fails does. *)

\* One request at a time, no worker dies and the cluster is never restarted.
OneAtATime == MaxInFlight = 1 /\ MaxDeaths = 0 /\ MaxRestarts = 0

\* The only handler under way has the next nonce, all that were answered have earlier ones.
Serial ==
    /\ restarts = 0 /\ deaths = 0 /\ master = Running
    /\ \A r \in Request :
          /\ pc[r] # "lost"
          /\ pc[r] \in {"idle", "reading"} => nonce[r] = -1
          /\ pc[r] \in {"sending", "incrementing"} => nonce[r] = counter
          /\ pc[r] \in {"replying", "answered"} => nonce[r] >= 0 /\ nonce[r] < counter
    /\ \A r, s \in Request : pc[r] \in Handling /\ pc[s] \in Handling => r = s
    /\ NoncesInSequence

\* The transactions are those of the requests that sent one.  What waits at the node has
\* a nonce that the node did not see yet, and no nonce below the counter was skipped.
Ordered ==
    /\ refused = {}
    /\ \A r \in Request : /\ r \in sent \/ r \in mined
                             <=> pc[r] \in {"incrementing", "replying", "answered"}
                          /\ r \in sent => nonce[r] >= account
                          /\ r \in mined => nonce[r] < account
    /\ account <= counter + 1
    /\ (\A r \in Request : pc[r] # "incrementing") => account <= counter
    /\ \A n \in Nat : n < counter => \E r \in Request : nonce[r] = n

\* A request is taken only when no other is being handled.
LEMMA OnlyOne == ASSUME OneAtATime, NEW r \in Request, Receive(r)
                 PROVE  \A s \in Request : pc[s] \notin Handling
<1>1. IsFiniteSet(InFlight)
  BY FS_Subset, TxNonceAssumption DEF InFlight
<1>2. Cardinality(InFlight) = 0
  BY <1>1, FS_CardinalityType DEF Receive, OneAtATime
<1> QED
  BY <1>1, <1>2, FS_EmptySet DEF InFlight

LEMMA SerialStep == ASSUME OneAtATime PROVE TypeOK /\ Serial /\ [Next]_vars => Serial'
<1> SUFFICES ASSUME TypeOK, Serial, [Next]_vars PROVE Serial'
  OBVIOUS
<1> USE DEF TypeOK, Serial, NoncesInSequence
<1>1. ASSUME NEW r \in Request, Receive(r) \/ Handle(r) \/ WorkerDies(r) \/ Node(r)
      PROVE  Serial'
  <2>1. CASE Receive(r)
    BY <2>1, OnlyOne DEF Receive
  <2>2. CASE getCurrentTxNonce(r)
    BY <2>2 DEF getCurrentTxNonce
  <2>3. CASE sendTransaction(r)
    BY <2>3 DEF sendTransaction
  <2>4. CASE incrementTxNonce(r)
    BY <2>4 DEF incrementTxNonce
  <2>5. CASE Reply(r)
    BY <2>5 DEF Reply
  <2>6. CASE WorkerDies(r)
    BY <2>6 DEF WorkerDies, OneAtATime
  <2>7. CASE Mine(r)
    BY <2>7 DEF Mine
  <2>8. CASE Refuse(r)
    BY <2>8 DEF Refuse
  <2> QED
    BY <1>1, <2>1, <2>2, <2>3, <2>4, <2>5, <2>6, <2>7, <2>8 DEF Handle, Node
<1>2. CASE Restart
  BY <1>2 DEF Restart, OneAtATime
<1>3. CASE getTransactionCount
  BY <1>3 DEF getTransactionCount
<1>4. CASE storeTxNonce
  BY <1>4 DEF storeTxNonce
<1>5. CASE UNCHANGED vars
  BY <1>5 DEF vars
<1> QED
  BY <1>1, <1>2, <1>3, <1>4, <1>5 DEF Next

LEMMA SerialInit == Init => Serial
  BY DEF Init, Serial, NoncesInSequence

\* A cluster that handles one request at a time, and neither loses a worker nor is
\* restarted, gives no nonce twice: the race of the finding needs two handlers at once.
THEOREM OneAtATimeInSequence == ASSUME OneAtATime PROVE Spec => []NoncesInSequence
<1>1. Serial => NoncesInSequence
  BY DEF Serial
<1> QED
  BY <1>1, SerialInit, SerialStep, TypeInit, TypeStep, PTL DEF Spec

LEMMA OrderedStep ==
    ASSUME OneAtATime, KeepsFuture = TRUE
    PROVE  TypeOK /\ Serial /\ Ordered /\ [Next]_vars => Ordered'
<1> SUFFICES ASSUME TypeOK, Serial, Ordered, [Next]_vars PROVE Ordered'
  OBVIOUS
<1> USE DEF TypeOK, Serial, NoncesInSequence, Ordered
<1>1. ASSUME NEW r \in Request, Receive(r) \/ Handle(r) \/ WorkerDies(r) \/ Node(r)
      PROVE  Ordered'
  <2>1. CASE Receive(r)
    BY <2>1 DEF Receive
  <2>2. CASE getCurrentTxNonce(r)
    BY <2>2 DEF getCurrentTxNonce
  <2>3. CASE sendTransaction(r)
    BY <2>3 DEF sendTransaction
  <2>4. CASE incrementTxNonce(r)
    BY <2>4 DEF incrementTxNonce
  <2>5. CASE Reply(r)
    BY <2>5 DEF Reply
  <2>6. CASE WorkerDies(r)
    BY <2>6 DEF WorkerDies, OneAtATime
  <2>7. CASE Mine(r)
    BY <2>7 DEF Mine
  <2>8. CASE Refuse(r)
    BY <2>8 DEF Refuse
  <2> QED
    BY <1>1, <2>1, <2>2, <2>3, <2>4, <2>5, <2>6, <2>7, <2>8 DEF Handle, Node
<1>2. CASE Restart
  BY <1>2 DEF Restart, OneAtATime
<1>3. CASE getTransactionCount
  BY <1>3 DEF getTransactionCount
<1>4. CASE storeTxNonce
  BY <1>4 DEF storeTxNonce
<1>5. CASE UNCHANGED vars
  BY <1>5 DEF vars
<1> QED
  BY <1>1, <1>2, <1>3, <1>4, <1>5 DEF Next

\* If moreover the node keeps transactions whose nonce is too high, which may overtake
\* earlier ones on their way, then none is refused and the counter never skips a nonce:
\* whatever was answered with 200 has been or can still be mined.
THEOREM OneAtATimeSkipsNothing ==
    ASSUME OneAtATime, KeepsFuture = TRUE PROVE Spec => []NothingSkipped
<1>1. Init => Ordered
  BY DEF Init, Ordered
<1>2. ASSUME TypeOK, Serial, Ordered PROVE NothingSkipped
  <2> SUFFICES ASSUME counter > account
               PROVE  \E r \in Request : r \in sent /\ nonce[r] = account
    BY <1>2 DEF NothingSkipped, Gap, Ordered
  <2>1. PICK r \in Request : nonce[r] = account
    BY <1>2 DEF Ordered, TypeOK
  <2>2. pc[r] \in {"sending", "incrementing", "replying", "answered"}
    BY <1>2, <2>1 DEF Serial, TypeOK
  <2>3. pc[r] \in {"incrementing", "replying", "answered"}
    BY <1>2, <2>1, <2>2 DEF Serial, TypeOK
  <2>4. r \notin mined
    BY <1>2, <2>1 DEF Ordered, TypeOK
  <2> QED
    BY <1>2, <2>1, <2>3, <2>4 DEF Ordered
<1> QED
  BY <1>1, <1>2, OrderedStep, SerialInit, SerialStep, TypeInit, TypeStep, PTL DEF Spec
===============================================================================
