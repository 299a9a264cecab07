------------------------ MODULE MCGatewayAuthentication ------------------------
(***************************************************************************)
(* Instances of GatewayAuthentication for TLC: one owner, and another      *)
(* account that has a payload hx about the same gateway.  Two owners share *)
(* nothing but the admin's slot: their payloads have entries of their own. *)
(***************************************************************************)
EXTENDS GatewayAuthentication

CONSTANTS o1, g1, h1, hx

MCHashOf == [o \in Owner |-> h1]

MCGatewayOf == [o \in Owner |-> g1]
===============================================================================
