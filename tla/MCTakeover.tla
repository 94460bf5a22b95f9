----------------------------- MODULE MCTakeover -----------------------------
(***************************************************************************)
(* Two workers, and two peers that do not fit into one batch.  The worker  *)
(* that is preferred for both peers cannot claim any.                      *)
(***************************************************************************)
EXTENDS Takeover

FirstPreferred == [p \in Peers |-> [w \in Workers |-> NumWorkers - w]]
=============================================================================
