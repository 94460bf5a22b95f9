---------------------------- MODULE MCSequential ----------------------------
(***************************************************************************)
(* The three sequential parts, each on its own: part says which of them a  *)
(* behaviour is about.                                                     *)
(*                                                                         *)
(* Sums go up to 15 and delays up to 7, half of that: the total and the    *)
(* number of samples both reach their limits, in either order, and one     *)
(* halving is not always enough.                                           *)
(*                                                                         *)
(* Directives have up to three of the parameters below, the most that any  *)
(* constraint relates, with the limits of the code but for the longest     *)
(* lifetime and idle time, which are 100 s and 50 s.  The values lie on    *)
(* both sides of every limit: the smallest interval, whole seconds,        *)
(* lifetimes equal to the interval and to the idle time, and the longest   *)
(* lifetime.                                                               *)
(*                                                                         *)
(* Answers are about up to two peers of each source in every combination   *)
(* of verdicts, in blocks of three units: a row falls into one block or    *)
(* two, and most calls end within a block.                                 *)
(***************************************************************************)
EXTENDS DelayStats, CheckConfig, StatusOutput

VARIABLE part

Off == [mode |-> "off", seconds |-> 0]
Default == [mode |-> "default", seconds |-> 0]
For(n) == [mode |-> "time", seconds |-> n]

Named(name, values) == {[name |-> name, value |-> v] : v \in values}

Alive(handshake, idle, intvl, cnt) ==
    [on |-> TRUE, handshake |-> handshake, idle |-> idle, intvl |-> intvl, cnt |-> cnt]

SomeParameters ==
    Named("type", Types)
        \cup Named("interval", {0, 99, 100, 1000, 1500, 60000, 100000})
        \cup Named("timeout", {99, 1000, 6000})
        \cup Named("port", {65536}) \cup Named("rise", {0, 1}) \cup Named("fall", {5}) \cup Named("down", {TRUE})
        \cup Named("reuse", {Off, Default, For(0), For(1), For(2), For(101)})
        \cup Named("keepalive",
                {[on |-> FALSE, handshake |-> Off, idle |-> 0, intvl |-> 0, cnt |-> 0]}
                    \cup {Alive(h, i, 0, 0) : h \in {Off, Default, For(1), For(2)},
                                              i \in {0, 1, 2, 50}}
                    \cup {Alive(Default, i, 2, 127) : i \in {0, 1, 51}})

\* A directive that is over: its properties are not evaluated along the others.
NoDirective == args = NoArgs /\ number = 0 /\ conf = Refused

SequentialInit ==
    /\ Init /\ OutputInit
    /\ \/ part = "directive" /\ DirectiveInit
       \/ part \in {"delay", "answer"} /\ NoDirective

SequentialNext ==
    /\ UNCHANGED part
    /\ \/ part = "delay" /\ Next /\ UNCHANGED <<directive, output>>
       \/ part = "directive" /\ DirectiveNext /\ UNCHANGED <<stats, output>>
       \/ part = "answer" /\ OutputNext /\ UNCHANGED <<stats, directive>>

SequentialSpec ==
    SequentialInit /\ [][SequentialNext]_<<stats, directive, output, part>>
=============================================================================
