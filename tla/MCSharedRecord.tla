-------------------------- MODULE MCSharedRecord --------------------------
(***************************************************************************)
(* Two places for workers and three pids leave room for one death.  With   *)
(* reused pids, three places show a contender that sleeps between its kill *)
(* and its compare-and-swap while two others move on.                      *)
(***************************************************************************)
EXTENDS SharedRecord, TLC

CONSTANTS p1, p2, p3, pidA, pidB, pidC, pidD

TwoProcs == {p1, p2}
ThreeProcs == {p1, p2, p3}

ThreePids == {pidA, pidB, pidC}
FourPids == {pidA, pidB, pidC, pidD}

SymmetryThree == Permutations(ThreeProcs) \union Permutations(FourPids)

=============================================================================
