---------------------------- MODULE MCSchedule ----------------------------
(***************************************************************************)
(* Two workers and one peer: worker 0 is the peer's home, worker 1 stands  *)
(* by.  The configurations choose an interval, a timeout and a grace that  *)
(* leave room for a slow check, and for takeovers before and after the     *)
(* interval has passed.                                                    *)
(***************************************************************************)
EXTENDS Schedule, TLC

CONSTANTS pidA, pidB, pidC

TwoPids == {pidA, pidB}
ThreePids == {pidA, pidB, pidC}

NoPeer == {}
AllPeers == Peers

Symmetry == Permutations(Pids)
=============================================================================
