--------------------------- MODULE StatusReport ---------------------------
(***************************************************************************)
(* What a status request promises while the peers' verdicts change: each   *)
(* peer is looked at once, one after the other; what was seen stays as it  *)
(* was; and the answer, if there is one, shows and counts exactly what was *)
(* seen of every peer.                                                     *)
(***************************************************************************)
EXTENDS Naturals, Sequences, FiniteSets

CONSTANTS Sizes,    \* the number of peers of each source
          Filters

Sources == DOMAIN Sizes
Peers == UNION {{s} \X (1..Sizes[s]) : s \in Sources}

VARIABLES down,     \* the published verdict of each peer
          filter,   \* which peers the client asked for
          seen,     \* what was seen of the first peers of each source
          outcome,  \* "open", "answered" or "failed"
          shown     \* of each source the peers in the answer, and how many are up

rvars == <<down, filter, seen, outcome, shown>>

Selected(f, verdict) ==
    f = "all" \/ (f = "down" /\ verdict) \/ (f = "up" /\ ~verdict)

\* The selected peers of a source, in order.
Chosen(f, s, verdicts) ==
    LET chosen[n \in 0..Len(verdicts)] ==
            IF n = 0 THEN <<>>
            ELSE IF Selected(f, verdicts[n])
                 THEN Append(chosen[n - 1], [peer |-> <<s, n>>, down |-> verdicts[n]])
                 ELSE chosen[n - 1]
    IN  chosen[Len(verdicts)]

UpCount(verdicts) == Cardinality({n \in DOMAIN verdicts : ~verdicts[n]})

Answer(f, verdicts) ==
    [rows |-> [s \in Sources |-> Chosen(f, s, verdicts[s])],
     up |-> [s \in Sources |-> UpCount(verdicts[s])]]

Nothing == [rows |-> [s \in Sources |-> <<>>], up |-> [s \in Sources |-> 0]]

AllSeen(s) == Len(seen[s]) = Sizes[s]

RInit ==
    /\ down \in [Peers -> BOOLEAN]
    /\ filter \in Filters
    /\ seen = [s \in Sources |-> <<>>] /\ outcome = "open" /\ shown = Nothing

\* A check changes the verdict of a peer.
Change ==
    /\ \E p \in Peers : down' = [down EXCEPT ![p] = ~@]
    /\ UNCHANGED <<filter, seen, outcome, shown>>

\* The next peer is looked at, one source after the other.
See ==
    /\ outcome = "open"
    /\ \E s \in Sources :
          /\ ~AllSeen(s) /\ \A t \in Sources : t < s => AllSeen(t)
          /\ seen' = [seen EXCEPT ![s] = Append(@, down[<<s, Len(@) + 1>>])]
    /\ UNCHANGED <<down, filter, outcome, shown>>

Finish ==
    /\ outcome = "open"
    /\ \/ /\ \A s \in Sources : AllSeen(s)
          /\ outcome' = "answered" /\ shown' = Answer(filter, seen)
       \/ outcome' = "failed" /\ UNCHANGED shown
    /\ UNCHANGED <<down, filter, seen>>

RSpec == RInit /\ [][Change \/ See \/ Finish]_rvars
=============================================================================
