------------------------------ MODULE MCReload ------------------------------
(***************************************************************************)
(* Reload with its constants for TLC: the hashes of two identities always  *)
(* fall into one bucket.                                                   *)
(***************************************************************************)
EXTENDS Reload

CONSTANTS a, b, c

HashValues == [x \in Identities |-> IF x = c THEN 1 ELSE 0]
=============================================================================
