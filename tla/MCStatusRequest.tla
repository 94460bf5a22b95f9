-------------------------- MODULE MCStatusRequest --------------------------
(***************************************************************************)
(* Two sources, as the requests of healthcheck_status have them.           *)
(***************************************************************************)
EXTENDS StatusRequest

TwoAndOne == <<2, 1>>
=============================================================================
