------------------------- MODULE MCAccessAuthorization -------------------------
(***************************************************************************)
(* An instance of AccessAuthorization for TLC: one service, whose payload  *)
(* asks for what is on the list or for more.  Services share nothing but   *)
(* the gateway's transaction nonces: their entries have keys of their own. *)
(***************************************************************************)
EXTENDS AccessAuthorization

CONSTANTS s1, hs, resource1, resource4

MCTokenOf == [s \in Service |-> hs]

MCChoice == {{resource1}, {resource1, resource4}}
===============================================================================
