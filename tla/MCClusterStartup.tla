--------------------------- MODULE MCClusterStartup ---------------------------
(***************************************************************************)
(* An instance of ClusterStartup for TLC: each of the three programs with  *)
(* two workers, two starts, one worker's death, and two gateways that      *)
(* owners register.  The gateways' identities are numbers beyond those of  *)
(* the starts.                                                             *)
(***************************************************************************)
EXTENDS ClusterStartup

CONSTANTS w1, w2

MCRole == {"isp", "vendor", "gateway"}

===============================================================================
