--------------------------- MODULE PayloadLifecycle ---------------------------
(***************************************************************************)
(* What the registry promises about a payload, and all that the actors     *)
(* rely on when they follow its events: a payload hash is stored once,     *)
(* with parties that never change afterwards, approved at most once and    *)
(* only after it was stored, revoked at most once and only after it was    *)
(* approved.  RegistryContract implements this specification; who may take *)
(* a step, and what a step does to the trust tables, is left to it.        *)
(***************************************************************************)
CONSTANTS Hash,       \* the payload hashes
          Party,      \* the addresses a payload may name
          NoParties   \* the parties of a payload that was never stored

VARIABLES stage,      \* stage[h]: how far payload h has come
          parties     \* parties[h]: source, target and approver of h

vars == <<stage, parties>>

Stage == {"absent", "stored", "approved", "revoked"}

Parties == [source : Party, target : Party, approver : Party]

Init == /\ stage = [h \in Hash |-> "absent"]
        /\ parties = [h \in Hash |-> NoParties]

Store(h) == /\ stage[h] = "absent"
            /\ stage' = [stage EXCEPT ![h] = "stored"]
            /\ \E p \in Parties : parties' = [parties EXCEPT ![h] = p]

Approve(h) == /\ stage[h] = "stored"
              /\ stage' = [stage EXCEPT ![h] = "approved"]
              /\ UNCHANGED parties

Revoke(h) == /\ stage[h] = "approved"
             /\ stage' = [stage EXCEPT ![h] = "revoked"]
             /\ UNCHANGED parties

Next == \E h \in Hash : Store(h) \/ Approve(h) \/ Revoke(h)

Spec == Init /\ [][Next]_vars
===============================================================================
