------------------------------ MODULE AccessGrant ------------------------------
(***************************************************************************)
(* What a domain promises about the access tokens of IoT services: a token *)
(* is approved only if it asks for no more than the gateway's list grants, *)
(* a session is opened only with an approved token, and a resource is      *)
(* served only in a session, and not after the token has expired by the    *)
(* gateway's clock.  Each happens once.                                    *)
(*                                                                         *)
(* AccessAuthorization implements this.  Who knows what when, what is lost *)
(* and what is denied is left to it.  A revocation is not mentioned: the   *)
(* gateway never learns of one.                                            *)
(***************************************************************************)
EXTENDS Integers

CONSTANTS Token,     \* the access tokens: hashes of authorization payloads
          Resource,  \* what can be asked for
          assigned,  \* the gateway's list
          Time       \* times a token can expire at

VARIABLES asks,      \* asks[k]: the accesses token k asks for
          stage,     \* stage[k]: how far token k has come
          expiry,    \* expiry[k]: when it expires, once approved
          clock      \* the gateway's clock

vars == <<asks, stage, expiry, clock>>

Init == /\ asks \in [Token -> SUBSET Resource]
        /\ stage = [k \in Token |-> "none"]
        /\ expiry = [k \in Token |-> 0]
        /\ clock = 0

Approve(k, time) == /\ stage[k] = "none" /\ asks[k] \subseteq assigned
                    /\ stage' = [stage EXCEPT ![k] = "approved"]
                    /\ expiry' = [expiry EXCEPT ![k] = time]
                    /\ UNCHANGED <<asks, clock>>

Use(k, from, to) == /\ stage[k] = from
                    /\ stage' = [stage EXCEPT ![k] = to]
                    /\ UNCHANGED <<asks, expiry, clock>>

Open(k) == Use(k, "approved", "open")

Serve(k) == Use(k, "open", "served") /\ clock <= expiry[k]

Tick == clock' > clock /\ UNCHANGED <<asks, stage, expiry>>

Next == \/ \E k \in Token : (\E time \in Time : Approve(k, time)) \/ Open(k) \/ Serve(k)
        \/ Tick

Spec == Init /\ [][Next]_vars
===============================================================================
