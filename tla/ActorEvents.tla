------------------------------ MODULE ActorEvents ------------------------------
(***************************************************************************)
(* What every actor of border-chain does with the contract: it subscribes  *)
(* to events, starts an asynchronous handler for each one its listener     *)
(* lets through, and sends transactions without waiting for them.          *)
(*                                                                         *)
(* A handler is a task: it is at the await it returns from next, and holds *)
(* the database entry it read.  Handlers of different events interleave at *)
(* every await.  An exception ends a handler ("failed"): Node 10 reports   *)
(* the unhandled rejection and nothing runs the handler again.             *)
(***************************************************************************)
EXTENDS RegistryContract

VARIABLES tasks,  \* the event handlers that were started, of all actors
          pool    \* transactions on their way into a block

chain == <<payloads, trustedGateways, trustedDevices, now, log>>

Task(actor, i, at, entry) == [actor |-> actor, event |-> i, at |-> at, entry |-> entry]

\* The subscription of an actor delivers event i, once; the handler's first await
\* is the question whether the event was processed before.
Deliver(actor, i, noEntry) ==
    /\ \A t \in tasks : ~(t.actor = actor /\ t.event = i)
    /\ tasks' = tasks \cup {Task(actor, i, "check", noEntry)}

Step(t, at, entry) == tasks' = (tasks \ {t}) \cup {Task(t.actor, t.event, at, entry)}

EventOf(t) == log[t.event]

\* How a handler that updates an entry begins: it asks whether the event was
\* processed before, and reads the entry, which must be one it may update.
Look(t, processed, updatable, entry, noEntry) ==
    \/ t.at = "check" /\ Step(t, IF processed THEN "done" ELSE "get", noEntry)
    \/ /\ t.at = "get"
       /\ IF updatable THEN Step(t, "replace", entry) ELSE Step(t, "failed", noEntry)

\* sendTransaction: signed and sent, not awaited.
Send(tx) == pool' = pool \cup {tx}

\* The node takes a transaction out of the pool, to mine, revert or refuse it.
Take(tx) == tx \in pool /\ pool' = pool \ {tx}
===============================================================================
