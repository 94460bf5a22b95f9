---------------------------- MODULE PeerRounds ----------------------------
(***************************************************************************)
(* What the scheduler promises for each peer, whatever happens to workers: *)
(* rounds are numbered one after the other; each is worked on by the one   *)
(* process that started it; its result is counted at most once, by that    *)
(* process, and never once a later round has started; and the verdict      *)
(* changes exactly when enough consecutive results agree.                  *)
(***************************************************************************)
EXTENDS Naturals

CONSTANTS Workers, Peers, RiseCount, FallCount

VARIABLES round,     \* number of the latest round
          working,   \* the worker that may still count its result, if any
          down,      \* the verdict
          rise,      \* consecutive successes counted, up to RiseCount
          fall       \* consecutive failures counted, up to FallCount

pvars == <<round, working, down, rise, fall>>

PInit ==
    /\ round = [p \in Peers |-> 0]
    /\ working = [p \in Peers |-> {}]
    /\ down \in [Peers -> BOOLEAN]
    /\ rise \in [Peers -> 0..RiseCount]
    /\ fall \in [Peers -> 0..FallCount]

\* A worker starts a round; an earlier one not counted yet is lost.
Start(p) ==
    /\ round' = [round EXCEPT ![p] = @ + 1]
    /\ \E w \in Workers : working' = [working EXCEPT ![p] = {w}]
    /\ UNCHANGED <<down, rise, fall>>

\* One more success, n of them in a row now, ends a series of failures.
Success(p) ==
    \E n \in 1..RiseCount :
        /\ n = rise[p] + 1 \/ (rise[p] = RiseCount /\ n = RiseCount)
        /\ rise' = [rise EXCEPT ![p] = n]
        /\ fall' = [fall EXCEPT ![p] = 0]
        /\ down' = [down EXCEPT ![p] = @ /\ n # RiseCount]

\* One more failure, n of them in a row now, ends a series of successes.
Failure(p) ==
    \E n \in 1..FallCount :
        /\ n = fall[p] + 1 \/ (fall[p] = FallCount /\ n = FallCount)
        /\ fall' = [fall EXCEPT ![p] = n]
        /\ rise' = [rise EXCEPT ![p] = 0]
        /\ down' = [down EXCEPT ![p] = @ \/ n = FallCount]

\* The worker's result is counted, and its work on the round ends.
Count(p) ==
    /\ working[p] # {}
    /\ working' = [working EXCEPT ![p] = {}]
    /\ Success(p) \/ Failure(p)
    /\ UNCHANGED round

\* A worker quits or dies and leaves its rounds uncounted.
Leave ==
    /\ \E lost \in SUBSET Peers :
          working' = [p \in Peers |-> IF p \in lost THEN {} ELSE working[p]]
    /\ UNCHANGED <<round, down, rise, fall>>

PNext == Leave \/ \E p \in Peers : Start(p) \/ Count(p)

PSpec == PInit /\ [][PNext]_pvars
=============================================================================
