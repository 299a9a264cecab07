---------------------------- MODULE Authentication ----------------------------
(***************************************************************************)
(* What a domain promises about those who authenticate themselves, the     *)
(* gateways of owners and the devices of vendors alike: an application is  *)
(* announced on the chain, the approver vouches for it only then and only  *)
(* if it knows the applicant, the chain has it approved only when it was   *)
(* vouched for, and it is taken for approved only when the chain says so.  *)
(* Each happens once, and nothing of it is undone.                         *)
(*                                                                         *)
(* GatewayAuthentication and DeviceAuthentication implement this.  Who     *)
(* knows what when, what is lost and what is denied is left to them.       *)
(***************************************************************************)
CONSTANT Applicant

VARIABLES vetted,  \* whom the approver knows: its users, or the devices it made
          stage    \* stage[k]: how far the application of k has come

vars == <<vetted, stage>>

Init == vetted \in SUBSET Applicant /\ stage = [k \in Applicant |-> "none"]

\* The approver comes to know the applicant.
Enroll(k) == vetted' = vetted \cup {k} /\ UNCHANGED stage

Move(k, from, to) == stage[k] = from /\ stage' = [stage EXCEPT ![k] = to] /\ UNCHANGED vetted

Announce(k) == Move(k, "none", "announced")

Vouch(k) == k \in vetted /\ Move(k, "announced", "vouched")

Approve(k) == Move(k, "vouched", "approved")

Record(k) == Move(k, "approved", "recorded")

Next == \E k \in Applicant : Enroll(k) \/ Announce(k) \/ Vouch(k) \/ Approve(k) \/ Record(k)

Spec == Init /\ [][Next]_vars
===============================================================================
