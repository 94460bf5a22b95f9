---------------------------- MODULE CheckConfig ----------------------------
(***************************************************************************)
(* The check directive of an upstream (configuration/ngx_healthcheck_      *)
(* config.c): its parameters are parsed one by one into args, defaults and *)
(* constraints between parameters are computed for the whole directive,    *)
(* and the result is what the checks of the upstream run with.             *)
(*                                                                         *)
(* Times in milliseconds; in a parameter, handshakes and keepalive times   *)
(* are whole seconds, and 0 stands for a field left empty.  Reading the    *)
(* text of a value is abstracted to the values it can have, and to Invalid *)
(* for all others.  A directive that is repeated starts afresh and sets    *)
(* every field its readers use, so one directive is modelled.              *)
(***************************************************************************)
EXTENDS Integers, FiniteSets

CONSTANTS
    Parameters,        \* the parameters directives are made of
    MaxParameters,     \* bound: parameters of one directive
    Second,            \* 1000 ms
    IntervalDefault, IntervalMin, TimeoutDefaultMax, FallDefault, RiseDefault,
    RehandshakeMin, RehandshakeMax, KeepintvlDefault, KeepcntDefault,
    KeepaliveTimeMax, KeepcntMax,
    Tunable            \* NGX_HAVE_KEEPALIVE_TUNABLE

Types == {"tcp", "udp"}

\* 0: the port of the server itself.
Ports == 0..65535

\* off, on (or empty), or a time in seconds.
Handshakes == [mode : {"off", "default", "time"}, seconds : Nat]

Keepalives == [on : BOOLEAN, handshake : Handshakes, idle : Nat, intvl : Nat, cnt : Nat]

ParameterTypes ==
    [name : {"type"}, value : Types]
        \cup [name : {"port", "interval", "timeout", "rise", "fall"}, value : Nat]
        \cup [name : {"down"}, value : BOOLEAN]
        \cup [name : {"reuse"}, value : Handshakes]
        \cup [name : {"keepalive"}, value : Keepalives]

ASSUME ConfigAssumption ==
    /\ Parameters \subseteq ParameterTypes
    /\ MaxParameters \in Nat
    /\ Second \in Nat \ {0}
    /\ IntervalMin \in Nat /\ IntervalMin >= 10
    /\ IntervalDefault \in Nat
    /\ TimeoutDefaultMax \in Nat \ {0}
    /\ FallDefault \in Nat \ {0} /\ RiseDefault \in Nat \ {0}
    /\ RehandshakeMin \in Nat /\ RehandshakeMax \in Nat
    /\ KeepintvlDefault \in Nat \ {0} /\ KeepcntDefault \in 1..KeepcntMax
    /\ KeepaliveTimeMax \in Nat \ {0} /\ KeepcntMax \in Nat
    /\ KeepintvlDefault <= KeepaliveTimeMax
    /\ Tunable \in BOOLEAN

VARIABLES args,    \* the parameters parsed so far
          number,  \* how many there were
          conf     \* the configuration, a refusal, or none yet

directive == <<args, number, conf>>

\* A handshake and the keepalive parameters as they are parsed; the time of an
\* earlier handshake stays in its field when a later one has no time.
Times == [mode : {"off", "default", "time"}, time : Nat]

Alives == [on : BOOLEAN, handshake : Times, idle : Nat, intvl : Nat, cnt : Nat]

Args == [type : Types, port : Ports, interval : Nat, timeout : Nat, rise : Nat,
         fall : Nat, down : BOOLEAN, reuse : Times, keepalive : Alives]

NoTime == [mode |-> "off", time |-> 0]

\* A timeout of 0 is one that was not set.
NoArgs == [type |-> "tcp", port |-> 0, interval |-> IntervalDefault, timeout |-> 0,
           rise |-> RiseDefault, fall |-> FallDefault, down |-> FALSE,
           reuse |-> NoTime,
           keepalive |-> [on |-> FALSE, handshake |-> NoTime,
                          idle |-> 0, intvl |-> 0, cnt |-> 0]]

\* The lifetime of a connection and the keepalive options are 0 when unused.
Confs == [type : Types, port : Ports, interval : Nat, timeout : Nat, rise : Nat, fall : Nat,
          down : BOOLEAN, keep_connection : BOOLEAN, rehandshake : Nat,
          keepalive : BOOLEAN, idle : Nat, intvl : Nat, cnt : Nat]

NoConf == [result |-> "parsing"]
Refused == [result |-> "refused"]

DirectiveInit == args = NoArgs /\ number = 0 /\ conf = NoConf

----------------------------------------------------------------------------
(***************************************************************************)
(* Parsing                                                                 *)
(***************************************************************************)
ValidHandshake(h) ==
    h.mode = "time" => h.seconds # 0 /\ h.seconds <= RehandshakeMax \div Second

ValidKeepalive(k) ==
    k.on => /\ ValidHandshake(k.handshake)
            /\ k.idle <= KeepaliveTimeMax /\ k.intvl <= KeepaliveTimeMax
            /\ k.cnt <= KeepcntMax

Valid(x) ==
    /\ x.name \in {"interval", "timeout", "rise", "fall"} => x.value # 0
    /\ x.name = "port" => x.value \in Ports \ {0}
    /\ x.name = "reuse" => ValidHandshake(x.value)
    /\ x.name = "keepalive" => ValidKeepalive(x.value)

Handshake(old, h) ==
    [mode |-> h.mode, time |-> IF h.mode = "time" THEN h.seconds * Second ELSE old.time]

\* A plausible bug: fields left empty keep what an earlier parameter set.
NotReset(old, k) ==
    IF ~k.on THEN [old EXCEPT !.on = FALSE]
    ELSE [on |-> TRUE, handshake |-> Handshake(old.handshake, k.handshake),
          idle |-> IF k.idle = 0 THEN old.idle ELSE k.idle,
          intvl |-> k.intvl, cnt |-> k.cnt]

Keepalive(old, k) ==
    IF ~k.on THEN [old EXCEPT !.on = FALSE]
    ELSE [on |-> TRUE, handshake |-> Handshake(old.handshake, k.handshake),
          idle |-> k.idle, intvl |-> k.intvl, cnt |-> k.cnt]

\* What a parameter makes of its field.
Value(old, x) ==
    CASE x.name = "reuse" -> Handshake(old, x.value)
      [] x.name = "keepalive" -> Keepalive(old, x.value)
      [] OTHER -> x.value

\* A plausible bug: the default of the timeout is settled with the interval.
TimeoutAtOnce(a, x) ==
    IF x.name = "interval"
    THEN [a EXCEPT !.interval = x.value, !.timeout = x.value - x.value \div 10]
    ELSE [a EXCEPT ![x.name] = Value(@, x)]

\* The arguments with one more parameter.
Parsed(a, x) == [a EXCEPT ![x.name] = Value(@, x)]

----------------------------------------------------------------------------
(***************************************************************************)
(* Defaults and constraints                                                *)
(***************************************************************************)
Smaller(m, n) == IF m <= n THEN m ELSE n
Larger(m, n) == IF m >= n THEN m ELSE n

Timeout(a) == IF a.timeout # 0 THEN a.timeout
              ELSE Smaller(TimeoutDefaultMax, a.interval - a.interval \div 10)

DefaultRehandshake(a) ==
    Smaller(Larger(RehandshakeMin, 2 * a.interval), RehandshakeMax)

\* The finite lifetimes a handshake gives a connection: none, or one.
Lifetimes(a, h) ==
    CASE h.mode = "off" -> {}
      [] h.mode = "default" -> {DefaultRehandshake(a)}
      [] h.mode = "time" -> {h.time}

AllLifetimes(a) ==
    Lifetimes(a, a.reuse)
        \cup (IF a.keepalive.on THEN Lifetimes(a, a.keepalive.handshake) ELSE {})

\* The smaller of the lifetimes; 0 stands for a connection that is never renewed.
Rehandshake(a) ==
    IF AllLifetimes(a) = {} THEN 0
    ELSE CHOOSE t \in AllLifetimes(a) : \A u \in AllLifetimes(a) : t <= u

\* A plausible bug: an idle time that ends together with the connection.
IdleUpTo(a) ==
    LET rounded == (a.interval + Second - 1) \div Second
        fitting == IF Rehandshake(a) = 0 THEN rounded
                   ELSE Smaller(rounded, Rehandshake(a) \div Second)
    IN  Smaller(fitting, KeepaliveTimeMax)

\* The interval in seconds, rounded up, but before the connection is renewed.
DefaultIdle(a) ==
    LET rounded == (a.interval + Second - 1) \div Second
        fitting == IF Rehandshake(a) = 0 THEN rounded
                   ELSE Smaller(rounded, (Rehandshake(a) - 1) \div Second)
    IN  Smaller(fitting, KeepaliveTimeMax)

Idle(a) == IF a.keepalive.idle # 0 THEN a.keepalive.idle ELSE DefaultIdle(a)

Given(n, default) == IF n # 0 THEN n ELSE default

Intvl(a) == Given(a.keepalive.intvl, KeepintvlDefault)

KeepsConnection(a) == a.reuse.mode # "off" \/ a.keepalive.on

\* finish_keepalive
KeepaliveAccepted(a) ==
    /\ Tunable
    /\ a.keepalive.idle # 0 /\ Rehandshake(a) # 0 =>
          a.keepalive.idle * Second < Rehandshake(a)
    /\ Idle(a) >= 1
    /\ Intvl(a) <= Idle(a)

\* finish_conf
Accepted(a) ==
    /\ a.interval >= IntervalMin
    /\ a.timeout < a.interval
    /\ a.type # "tcp" => ~KeepsConnection(a)
    /\ \A t \in AllLifetimes(a) : t > a.interval
    /\ a.keepalive.on => KeepaliveAccepted(a)

Conf(a) ==
    LET option(n) == IF a.keepalive.on THEN n ELSE 0
    IN  [type |-> a.type, port |-> a.port, interval |-> a.interval, timeout |-> Timeout(a),
         rise |-> a.rise, fall |-> a.fall, down |-> a.down,
         keep_connection |-> KeepsConnection(a), rehandshake |-> Rehandshake(a),
         keepalive |-> a.keepalive.on, idle |-> option(Idle(a)),
         intvl |-> option(Intvl(a)),
         cnt |-> option(Given(a.keepalive.cnt, KeepcntDefault))]

Outcome(a) == IF Accepted(a) THEN Conf(a) ELSE Refused

----------------------------------------------------------------------------
Parameter(x) ==
    /\ conf = NoConf /\ number < MaxParameters
    /\ number' = number + 1
    /\ IF Valid(x) THEN args' = Parsed(args, x) /\ UNCHANGED conf
       ELSE conf' = Refused /\ UNCHANGED args

\* A parameter of no such name, or a value that is none.
Invalid ==
    /\ conf = NoConf /\ number < MaxParameters
    /\ conf' = Refused
    /\ UNCHANGED <<args, number>>

\* The directive has at least one parameter.
Finish ==
    /\ conf = NoConf /\ number > 0
    /\ conf' = Outcome(args)
    /\ UNCHANGED <<args, number>>

DirectiveNext == Invalid \/ Finish \/ \E x \in Parameters : Parameter(x)

DirectiveSpec == DirectiveInit /\ [][DirectiveNext]_directive

----------------------------------------------------------------------------
(***************************************************************************)
(* Properties                                                              *)
(***************************************************************************)
\* Every variable keeps its type.
DirectiveTypeOK ==
    /\ args \in Args
    /\ number \in 0..MaxParameters
    /\ conf \in Confs \cup {NoConf, Refused}

\* A round fits into its interval, a kept connection outlives one, and the
\* kernel probes an idle connection before it is renewed.
Sound(c) ==
    /\ c.interval >= IntervalMin
    /\ 0 < c.timeout /\ c.timeout < c.interval
    /\ c.rise # 0 /\ c.fall # 0
    /\ c.type = "udp" => ~c.keep_connection
    /\ c.keepalive \/ c.rehandshake # 0 => c.keep_connection
    /\ c.rehandshake # 0 => c.interval < c.rehandshake
    /\ c.keepalive =>
          /\ 1 <= c.intvl /\ c.intvl <= c.idle /\ c.idle <= KeepaliveTimeMax
          /\ 1 <= c.cnt /\ c.cnt <= KeepcntMax
          /\ c.rehandshake # 0 => c.idle * Second < c.rehandshake

\* What the scheduler and the probes rely on holds of every accepted
\* directive, whichever parameters are given and which are defaults.
ConfSound == conf \notin {NoConf, Refused} => Sound(conf)

\* README: "Defaults and cross-parameter checks are evaluated after the whole
\* directive is parsed, so parameter order does not matter".
OrderFree ==
    conf = NoConf =>
        \A x, y \in {z \in Parameters : Valid(z)} : x.name # y.name =>
            Outcome(Parsed(Parsed(args, x), y)) = Outcome(Parsed(Parsed(args, y), x))

\* Of a parameter given twice the last value counts and nothing of the earlier
\* one is left.
LastCounts ==
    conf = NoConf =>
        \A x, y \in {z \in Parameters : Valid(z)} : x.name = y.name =>
            Outcome(Parsed(Parsed(args, x), y)) = Outcome(Parsed(args, y))

=============================================================================
