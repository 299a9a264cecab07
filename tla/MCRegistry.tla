------------------------------ MODULE MCRegistry ------------------------------
(***************************************************************************)
(* Instances of RegistryContract for TLC.                                  *)
(***************************************************************************)
EXTENDS RegistryContract, TLC

Symmetry == Permutations(Hash) \cup Permutations(Address)
===============================================================================
