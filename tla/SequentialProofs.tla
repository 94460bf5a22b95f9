------------------------- MODULE SequentialProofs -------------------------
(***************************************************************************)
(* Proofs about the sequential parts: the check directive, for all         *)
(* parameters, limits and lengths of a directive (what is accepted is      *)
(* sound, and the order of different parameters does not matter), and the  *)
(* delay statistics, for every width of the sums and every sequence of     *)
(* samples, and the answers to status requests, for every size of a block, *)
(* every filter, and any peers.                                            *)
(***************************************************************************)
EXTENDS DelayStats, CheckConfig, StatusOutput, SequenceTheorems, WellFoundedInduction, TLAPS

----------------------------------------------------------------------------
(***************************************************************************)
(* The check directive                                                     *)
(***************************************************************************)
\* The arguments keep within the limits the parser checks.
WithinLimits(a) ==
    /\ a.rise # 0 /\ a.fall # 0
    /\ a.keepalive.idle <= KeepaliveTimeMax
    /\ a.keepalive.cnt <= KeepcntMax

\* The inductive invariant.
DirectiveInv ==
    /\ DirectiveTypeOK
    /\ WithinLimits(args)
    /\ ConfSound

----------------------------------------------------------------------------
(***************************************************************************)
(* Arithmetic                                                              *)
(***************************************************************************)
\* A quotient times its divisor does not exceed the dividend.
LEMMA QuotientBound ==
    ASSUME NEW n \in Nat, NEW d \in Nat \ {0}
    PROVE  n \div d \in Nat /\ (n \div d) * d <= n
  OBVIOUS

\* Smaller divisors of a bound keep below it.
LEMMA ProductMonotone ==
    ASSUME NEW m \in Nat, NEW n \in Nat, NEW d \in Nat, m <= n
    PROVE  m * d <= n * d
  OBVIOUS

----------------------------------------------------------------------------
(***************************************************************************)
(* Parsing                                                                 *)
(***************************************************************************)
\* A handshake is parsed to a mode and a time.
LEMMA HandshakeType ==
    ASSUME NEW old \in Times, NEW h \in Handshakes
    PROVE  Handshake(old, h) \in Times
<1>1. old.time \in Nat /\ h.mode \in {"off", "default", "time"} /\ h.seconds \in Nat
  BY DEF Times, Handshakes
<1>2. h.seconds * Second \in Nat
  BY <1>1, ConfigAssumption
<1>3. QED
  BY <1>1, <1>2 DEF Handshake, Times

\* The keepalive parameter is parsed to its fields.
LEMMA KeepaliveType ==
    ASSUME NEW old \in Alives, NEW k \in Keepalives
    PROVE  Keepalive(old, k) \in Alives
<1>1. old.handshake \in Times /\ k.handshake \in Handshakes
  BY DEF Alives, Keepalives
<1>2. Handshake(old.handshake, k.handshake) \in Times
  BY <1>1, HandshakeType
<1>3. QED
  BY <1>2 DEF Keepalive, Alives, Keepalives

\* What the name of a parameter says of its value.
LEMMA ParameterValue ==
    ASSUME NEW x \in Parameters
    PROVE  /\ x.name \in {"type", "port", "interval", "timeout", "rise", "fall",
                          "down", "reuse", "keepalive"}
           /\ x.name = "type" => x.value \in Types
           /\ x.name \in {"port", "interval", "timeout", "rise", "fall"} => x.value \in Nat
           /\ x.name = "down" => x.value \in BOOLEAN
           /\ x.name = "reuse" => x.value \in Handshakes
           /\ x.name = "keepalive" => x.value \in Keepalives
<1>1. x \in ParameterTypes
  BY ConfigAssumption
<1>2. CASE x \in [name : {"type"}, value : Types]
  BY <1>2
<1>3. CASE x \in [name : {"port", "interval", "timeout", "rise", "fall"}, value : Nat]
  BY <1>3
<1>4. CASE x \in [name : {"down"}, value : BOOLEAN]
  BY <1>4
<1>5. CASE x \in [name : {"reuse"}, value : Handshakes]
  BY <1>5
<1>6. CASE x \in [name : {"keepalive"}, value : Keepalives]
  BY <1>6
<1>7. QED
  BY <1>1, <1>2, <1>3, <1>4, <1>5, <1>6 DEF ParameterTypes

\* One more valid parameter leaves arguments of their type within the limits.
LEMMA ParsedType ==
    ASSUME NEW a \in Args, WithinLimits(a),
           NEW x \in Parameters, Valid(x)
    PROVE  Parsed(a, x) \in Args /\ WithinLimits(Parsed(a, x))
<1>1. CASE x.name = "reuse"
  <2> DEFINE v == Handshake(a.reuse, x.value)
             b == [a EXCEPT !.reuse = v]
  <2>1. x.value \in Handshakes
    BY <1>1, ParameterValue
  <2>8. a.reuse \in Times
    BY DEF Args
  <2>2. v \in Times
    BY <2>1, <2>8, HandshakeType
  <2>3. Parsed(a, x) = b
    BY <1>1 DEF Parsed, Value
  <2> HIDE DEF v
  <2>4. b \in Args
    BY <2>2 DEF Args
  <2>5. b.rise = a.rise /\ b.fall = a.fall /\ b.keepalive = a.keepalive
    BY DEF Args
  <2> HIDE DEF b
  <2>6. WithinLimits(b)
    BY <2>5 DEF WithinLimits
  <2>7. QED
    BY <2>3, <2>4, <2>6
<1>2. CASE x.name = "keepalive"
  <2> DEFINE v == Keepalive(a.keepalive, x.value)
             b == [a EXCEPT !.keepalive = v]
  <2>1. x.value \in Keepalives
    BY <1>2, ParameterValue
  <2>9. a.keepalive \in Alives
    BY DEF Args
  <2>2. v \in Alives
    BY <2>1, <2>9, KeepaliveType
  <2>3. v.idle <= KeepaliveTimeMax /\ v.cnt <= KeepcntMax
    <3>1. ValidKeepalive(x.value)
      BY <1>2 DEF Valid
    <3>2. CASE x.value.on
      <4>1. v.idle = x.value.idle /\ v.cnt = x.value.cnt
        BY <3>2 DEF Keepalive
      <4>2. QED
        BY <3>1, <3>2, <4>1 DEF ValidKeepalive
    <3>3. CASE ~x.value.on
      <4>1. v.idle = a.keepalive.idle /\ v.cnt = a.keepalive.cnt
        BY <2>9, <3>3 DEF Keepalive, Alives
      <4>2. QED
        BY <4>1 DEF WithinLimits
    <3>4. QED
      BY <3>2, <3>3
  <2>4. Parsed(a, x) = b
    BY <1>2 DEF Parsed, Value
  <2> HIDE DEF v
  <2>5. b \in Args
    BY <2>2 DEF Args
  <2>6. b.rise = a.rise /\ b.fall = a.fall /\ b.keepalive = v
    BY DEF Args
  <2> HIDE DEF b
  <2>7. WithinLimits(b)
    BY <2>3, <2>6 DEF WithinLimits
  <2>8. QED
    BY <2>4, <2>5, <2>7
<1>3. CASE x.name \notin {"reuse", "keepalive"}
  <2> DEFINE b == [a EXCEPT ![x.name] = x.value]
  <2>1. Parsed(a, x) = b
    BY <1>3 DEF Parsed, Value
  <2>2. b.keepalive = a.keepalive
    BY <1>3 DEF Args
  <2>3. b \in Args /\ b.rise # 0 /\ b.fall # 0
    <3>1. a.rise # 0 /\ a.fall # 0
      BY DEF WithinLimits
    <3>2. CASE x.name = "type"
      <4>1. x.value \in Types
        BY <3>2, ParameterValue
      <4>2. QED
        BY <3>1, <3>2, <4>1 DEF Args
    <3>3. CASE x.name = "port"
      <4>1. x.value \in Ports
        BY <3>3 DEF Valid
      <4>2. QED
        BY <3>1, <3>3, <4>1 DEF Args
    <3>4. CASE x.name \in {"interval", "timeout", "rise", "fall"}
      <4>1. x.value \in Nat
        BY <3>4, ParameterValue
      <4>2. x.value # 0
        BY <3>4 DEF Valid
      <4>3. b \in Args
        BY <3>4, <4>1 DEF Args
      <4>4. b.rise \in {a.rise, x.value} /\ b.fall \in {a.fall, x.value}
        BY <3>4 DEF Args
      <4>5. QED
        BY <3>1, <4>2, <4>3, <4>4
    <3>5. CASE x.name = "down"
      <4>1. x.value \in BOOLEAN
        BY <3>5, ParameterValue
      <4>2. QED
        BY <3>1, <3>5, <4>1 DEF Args
    <3>6. QED
      BY <1>3, <3>2, <3>3, <3>4, <3>5, ParameterValue
  <2> HIDE DEF b
  <2>4. WithinLimits(b)
    BY <2>2, <2>3 DEF WithinLimits
  <2>5. QED
    BY <2>1, <2>3, <2>4
<1>4. QED
  BY <1>1, <1>2, <1>3

----------------------------------------------------------------------------
(***************************************************************************)
(* Accepted directives                                                     *)
(***************************************************************************)
\* A handshake gives no lifetime, or one.
LEMMA LifetimesType ==
    ASSUME NEW a \in Args, NEW h \in Times
    PROVE  Lifetimes(a, h) = {} \/ \E t \in Nat : Lifetimes(a, h) = {t}
<1>1. CASE h.mode = "off"
  BY <1>1 DEF Lifetimes
<1>2. CASE h.mode = "default"
  <2>1. a.interval \in Nat
    BY DEF Args
  <2>2. DefaultRehandshake(a) \in Nat
    BY <2>1, ConfigAssumption DEF DefaultRehandshake, Smaller, Larger
  <2>3. Lifetimes(a, h) = {DefaultRehandshake(a)}
    BY <1>2 DEF Lifetimes
  <2>4. QED
    BY <2>2, <2>3
<1>3. CASE h.mode = "time"
  <2>1. h.time \in Nat
    BY DEF Times
  <2>2. Lifetimes(a, h) = {h.time}
    BY <1>3 DEF Lifetimes
  <2>3. QED
    BY <2>1, <2>2
<1>4. QED
  BY <1>1, <1>2, <1>3 DEF Times

\* The lifetime in force is 0, or one of the finite ones.
LEMMA RehandshakeChosen ==
    ASSUME NEW a \in Args
    PROVE  /\ Rehandshake(a) \in Nat
           /\ Rehandshake(a) = 0 \/ Rehandshake(a) \in AllLifetimes(a)
<1> DEFINE L == Lifetimes(a, a.reuse)
           K == IF a.keepalive.on THEN Lifetimes(a, a.keepalive.handshake) ELSE {}
<1>1. a.reuse \in Times /\ a.keepalive.handshake \in Times
  BY DEF Args, Alives
<1>2. L = {} \/ \E t \in Nat : L = {t}
  BY <1>1, LifetimesType
<1>3. K = {} \/ \E t \in Nat : K = {t}
  <2>1. Lifetimes(a, a.keepalive.handshake) = {}
            \/ \E t \in Nat : Lifetimes(a, a.keepalive.handshake) = {t}
    BY <1>1, LifetimesType
  <2>2. QED
    BY <2>1
<1>4. AllLifetimes(a) = L \cup K
  BY DEF AllLifetimes
<1> HIDE DEF L, K
<1>5. CASE L \cup K = {}
  BY <1>4, <1>5 DEF Rehandshake
<1>6. CASE L \cup K # {}
  <2> DEFINE Least(t) == \A u \in L \cup K : t <= u
  <2>1. \E t \in L \cup K : Least(t)
    <3>1. CASE L = {}
      BY <1>3, <1>6, <3>1
    <3>2. CASE K = {}
      BY <1>2, <1>6, <3>2
    <3>3. CASE L # {} /\ K # {}
      <4>1. PICK t \in Nat : L = {t}
        BY <1>2, <3>3
      <4>2. PICK u \in Nat : K = {u}
        BY <1>3, <3>3
      <4>3. t <= u \/ u <= t
        OBVIOUS
      <4>4. QED
        BY <4>1, <4>2, <4>3
    <3>4. QED
      BY <3>1, <3>2, <3>3
  <2>2. Rehandshake(a) = CHOOSE t \in L \cup K : Least(t)
    BY <1>4, <1>6 DEF Rehandshake
  <2> HIDE DEF Least
  <2>3. Rehandshake(a) \in L \cup K
    BY <2>1, <2>2
  <2>4. L \cup K \subseteq Nat
    BY <1>2, <1>3
  <2>5. QED
    BY <1>4, <2>3, <2>4
<1>7. QED
  BY <1>5, <1>6

\* The timeout is positive and shorter than the interval.
LEMMA TimeoutFits ==
    ASSUME NEW a \in Args, a.interval >= IntervalMin, a.timeout < a.interval
    PROVE  Timeout(a) \in Nat /\ 0 < Timeout(a) /\ Timeout(a) < a.interval
<1>1. a.interval \in Nat /\ a.timeout \in Nat
  BY DEF Args
<1>2. a.interval >= 10
  BY <1>1, ConfigAssumption
<1> DEFINE d == a.interval - a.interval \div 10
<1>3. d \in Nat /\ 0 < d /\ d < a.interval
  BY <1>1, <1>2
<1>4. Timeout(a) = IF a.timeout # 0 THEN a.timeout ELSE Smaller(TimeoutDefaultMax, d)
  BY DEF Timeout
<1> HIDE DEF d
<1>5. QED
  BY <1>1, <1>3, <1>4, ConfigAssumption DEF Smaller

\* The default idle time ends before the lifetime does.
LEMMA DefaultIdleFits ==
    ASSUME NEW a \in Args
    PROVE  /\ DefaultIdle(a) \in Nat
           /\ DefaultIdle(a) <= KeepaliveTimeMax
           /\ Rehandshake(a) # 0 => DefaultIdle(a) * Second < Rehandshake(a)
<1> DEFINE r == Rehandshake(a)
           n == (a.interval + Second - 1) \div Second
           f == IF r = 0 THEN n ELSE Smaller(n, (r - 1) \div Second)
<1>1. a.interval \in Nat /\ r \in Nat /\ Second \in Nat \ {0}
  BY RehandshakeChosen, ConfigAssumption DEF Args
<1>2. a.interval + Second - 1 \in Nat
  BY <1>1
<1>3. n \in Nat
  BY <1>1, <1>2, QuotientBound
<1>4. DefaultIdle(a) = Smaller(f, KeepaliveTimeMax)
  BY DEF DefaultIdle
<1>5. KeepaliveTimeMax \in Nat
  BY ConfigAssumption
<1>6. CASE r = 0
  <2>1. f = n
    BY <1>6
  <2> HIDE DEF f, n, r
  <2>2. QED
    BY <1>3, <1>4, <1>5, <1>6, <2>1 DEF Smaller, r
<1>7. CASE r # 0
  <2> DEFINE q == (r - 1) \div Second
  <2>1. r - 1 \in Nat
    BY <1>1, <1>7
  <2>2. q \in Nat /\ q * Second <= r - 1
    BY <1>1, <2>1, QuotientBound
  <2>3. f = Smaller(n, q)
    BY <1>7
  <2> HIDE DEF f, n, q
  <2>4. DefaultIdle(a) \in Nat /\ DefaultIdle(a) <= q /\ DefaultIdle(a) <= KeepaliveTimeMax
    BY <1>3, <1>4, <1>5, <2>2, <2>3 DEF Smaller
  <2>5. DefaultIdle(a) * Second <= q * Second
    BY <1>1, <2>2, <2>4, ProductMonotone
  <2>6. DefaultIdle(a) * Second \in Nat /\ q * Second \in Nat
    BY <1>1, <2>2, <2>4
  <2>7. DefaultIdle(a) * Second < r
    BY <1>1, <2>2, <2>5, <2>6
  <2>8. QED
    BY <2>4, <2>7
<1>8. QED
  BY <1>6, <1>7

\* An accepted directive makes a sound configuration.
LEMMA AcceptedSound ==
    ASSUME NEW a \in Args, WithinLimits(a), Accepted(a)
    PROVE  Conf(a) \in Confs /\ Sound(Conf(a))
<1> DEFINE c == Conf(a)
           r == Rehandshake(a)
<1>1. /\ a.type \in Types /\ a.port \in Ports /\ a.interval \in Nat
      /\ a.timeout \in Nat /\ a.rise \in Nat /\ a.fall \in Nat
      /\ a.down \in BOOLEAN /\ a.keepalive \in Alives
  BY DEF Args
<1>2. /\ a.keepalive.on \in BOOLEAN /\ a.keepalive.idle \in Nat
      /\ a.keepalive.intvl \in Nat /\ a.keepalive.cnt \in Nat
  BY <1>1 DEF Alives
<1>3. a.interval >= IntervalMin /\ a.timeout < a.interval
  BY DEF Accepted
<1>4. Timeout(a) \in Nat /\ 0 < Timeout(a) /\ Timeout(a) < a.interval
  BY <1>3, TimeoutFits
<1>5. r \in Nat /\ (r = 0 \/ r \in AllLifetimes(a))
  BY RehandshakeChosen
<1>6. r # 0 => a.interval < r
  <2>1. \A t \in AllLifetimes(a) : t > a.interval
    BY DEF Accepted
  <2>2. QED
    BY <1>1, <1>5, <2>1
<1>7. r # 0 => KeepsConnection(a)
  <2>1. ~KeepsConnection(a) => AllLifetimes(a) = {}
    BY DEF KeepsConnection, AllLifetimes, Lifetimes
  <2>2. QED
    BY <1>5, <2>1
<1>8. Idle(a) \in Nat /\ Intvl(a) \in Nat /\ Given(a.keepalive.cnt, KeepcntDefault) \in Nat
  BY <1>2, DefaultIdleFits, ConfigAssumption DEF Idle, Intvl, Given
<1>9. Idle(a) <= KeepaliveTimeMax
  BY <1>2, DefaultIdleFits DEF Idle, WithinLimits
<1>10. a.keepalive.on /\ r # 0 => Idle(a) * Second < r
  <2>1. a.keepalive.on => KeepaliveAccepted(a)
    BY DEF Accepted
  <2>2. CASE a.keepalive.idle # 0
    BY <2>1, <2>2 DEF KeepaliveAccepted, Idle
  <2>3. CASE a.keepalive.idle = 0
    BY <2>3, DefaultIdleFits DEF Idle
  <2>4. QED
    BY <2>2, <2>3
<1>11. a.keepalive.on => 1 <= Intvl(a) /\ Intvl(a) <= Idle(a)
  <2>1. 1 <= Intvl(a)
    BY <1>2, ConfigAssumption DEF Intvl, Given
  <2>2. a.keepalive.on => Intvl(a) <= Idle(a)
    BY DEF Accepted, KeepaliveAccepted
  <2>3. QED
    BY <2>1, <2>2
<1>12. /\ 1 <= Given(a.keepalive.cnt, KeepcntDefault)
       /\ Given(a.keepalive.cnt, KeepcntDefault) <= KeepcntMax
  BY <1>2, ConfigAssumption DEF Given, WithinLimits
<1>13. a.type = "udp" => ~KeepsConnection(a)
  BY <1>1 DEF Accepted, Types
<1>14. KeepsConnection(a) \in BOOLEAN /\ (a.keepalive.on => KeepsConnection(a))
  BY <1>2 DEF KeepsConnection
<1>15. /\ c.type = a.type /\ c.port = a.port /\ c.interval = a.interval
       /\ c.timeout = Timeout(a) /\ c.rise = a.rise /\ c.fall = a.fall
       /\ c.down = a.down /\ c.keep_connection = KeepsConnection(a)
       /\ c.rehandshake = r /\ c.keepalive = a.keepalive.on
       /\ a.keepalive.on => /\ c.idle = Idle(a) /\ c.intvl = Intvl(a)
                            /\ c.cnt = Given(a.keepalive.cnt, KeepcntDefault)
  BY DEF Conf
<1>16. c \in Confs
  BY <1>1, <1>2, <1>4, <1>5, <1>8, <1>14 DEF Conf, Confs
<1> HIDE DEF c, r
<1>17. Sound(c)
  <2>1. /\ c.interval >= IntervalMin
        /\ 0 < c.timeout /\ c.timeout < c.interval
        /\ c.rise # 0 /\ c.fall # 0
    BY <1>3, <1>4, <1>15 DEF WithinLimits
  <2>2. c.type = "udp" => ~c.keep_connection
    BY <1>13, <1>15
  <2>3. c.keepalive \/ c.rehandshake # 0 => c.keep_connection
    <3>1. r # 0 => KeepsConnection(a)
      BY <1>7 DEF r
    <3>2. QED
      BY <1>14, <1>15, <3>1
  <2>4. c.rehandshake # 0 => c.interval < c.rehandshake
    <3>1. r # 0 => a.interval < r
      BY <1>6 DEF r
    <3>2. QED
      BY <1>15, <3>1
  <2>5. c.keepalive => /\ 1 <= c.intvl /\ c.intvl <= c.idle
                       /\ c.idle <= KeepaliveTimeMax
                       /\ 1 <= c.cnt /\ c.cnt <= KeepcntMax
    BY <1>9, <1>11, <1>12, <1>15
  <2>6. c.keepalive => (c.rehandshake # 0 => c.idle * Second < c.rehandshake)
    <3>1. a.keepalive.on /\ r # 0 => Idle(a) * Second < r
      BY <1>10 DEF r
    <3>2. QED
      BY <1>15, <3>1
  <2>7. QED
    BY <2>1, <2>2, <2>3, <2>4, <2>5, <2>6 DEF Sound
<1>18. QED
  BY <1>16, <1>17 DEF c

----------------------------------------------------------------------------
(***************************************************************************)
(* Safety                                                                  *)
(***************************************************************************)
\* Whatever a directive says, the arguments keep their types and limits, and
\* what is accepted is sound.
LEMMA DirectiveInductive == DirectiveSpec => []DirectiveInv
<1>1. DirectiveInit => DirectiveInv
  <2> SUFFICES ASSUME DirectiveInit PROVE DirectiveInv
    OBVIOUS
  <2>1. NoTime \in Times
    BY DEF NoTime, Times
  <2>2. NoArgs.keepalive \in Alives
    BY <2>1 DEF NoArgs, Alives
  <2>3. 0 \in Ports /\ "tcp" \in Types
    BY DEF Ports, Types
  <2>4. NoArgs \in Args
    BY <2>1, <2>2, <2>3, ConfigAssumption DEF NoArgs, Args
  <2>5. WithinLimits(NoArgs)
    <3>1. /\ NoArgs.rise = RiseDefault /\ NoArgs.fall = FallDefault
          /\ NoArgs.keepalive.idle = 0 /\ NoArgs.keepalive.cnt = 0
      BY DEF NoArgs
    <3>2. QED
      BY <3>1, ConfigAssumption DEF WithinLimits
  <2>6. number \in 0..MaxParameters
    BY ConfigAssumption DEF DirectiveInit
  <2>7. QED
    BY <2>4, <2>5, <2>6 DEF DirectiveInit, DirectiveInv, DirectiveTypeOK, ConfSound
<1>2. DirectiveInv /\ [DirectiveNext]_directive => DirectiveInv'
  <2> SUFFICES ASSUME DirectiveInv, [DirectiveNext]_directive PROVE DirectiveInv'
    OBVIOUS
  <2> USE DEF DirectiveInv, DirectiveTypeOK
  <2>1. ASSUME NEW x \in Parameters, Parameter(x) PROVE DirectiveInv'
    <3>1. number' \in 0..MaxParameters
      BY <2>1, ConfigAssumption DEF Parameter
    <3>2. CASE Valid(x)
      <4>1. args' = Parsed(args, x) /\ conf' = conf /\ conf = NoConf
        BY <2>1, <3>2 DEF Parameter
      <4>2. Parsed(args, x) \in Args /\ WithinLimits(Parsed(args, x))
        BY <3>2, ParsedType
      <4>3. QED
        BY <3>1, <4>1, <4>2 DEF ConfSound
    <3>3. CASE ~Valid(x)
      <4>1. args' = args /\ conf' = Refused
        BY <2>1, <3>3 DEF Parameter
      <4>2. QED
        BY <3>1, <4>1 DEF ConfSound
    <3>4. QED
      BY <3>2, <3>3
  <2>2. CASE Invalid
    BY <2>2 DEF Invalid, ConfSound
  <2>3. CASE Finish
    <3>1. args' = args /\ number' = number /\ conf' = Outcome(args)
      BY <2>3 DEF Finish
    <3>2. CASE Accepted(args)
      <4>1. conf' = Conf(args)
        BY <3>1, <3>2 DEF Outcome
      <4>2. Conf(args) \in Confs /\ Sound(Conf(args))
        BY <3>2, AcceptedSound
      <4>3. Sound(conf')
        BY <4>1, <4>2
      <4>4. ConfSound'
        BY <4>3 DEF ConfSound, Sound
      <4>5. QED
        BY <3>1, <4>1, <4>2, <4>4
    <3>3. CASE ~Accepted(args)
      BY <3>1, <3>3 DEF Outcome, ConfSound
    <3>4. QED
      BY <3>2, <3>3
  <2>4. CASE UNCHANGED directive
    BY <2>4 DEF directive, ConfSound
  <2>5. QED
    BY <2>1, <2>2, <2>3, <2>4 DEF DirectiveNext
<1>3. QED
  BY <1>1, <1>2, PTL DEF DirectiveSpec

\* The directive's arguments and its configuration keep their types.
THEOREM DirectiveTypeSafety == DirectiveSpec => []DirectiveTypeOK
<1>1. DirectiveInv => DirectiveTypeOK
  BY DEF DirectiveInv
<1>2. QED
  BY <1>1, DirectiveInductive, PTL

\* Every accepted directive gives the scheduler and the probes what they rely
\* on, for all limits and all parameters.
THEOREM ConfSafety == DirectiveSpec => []ConfSound
<1>1. DirectiveInv => ConfSound
  BY DEF DirectiveInv
<1>2. QED
  BY <1>1, DirectiveInductive, PTL

----------------------------------------------------------------------------
(***************************************************************************)
(* Order and repetition of parameters                                      *)
(***************************************************************************)
\* Parameters of different names change different fields.
LEMMA ParsedCommutes ==
    ASSUME NEW a \in Args, NEW x \in Parameters, NEW y \in Parameters,
           x.name # y.name
    PROVE  Parsed(Parsed(a, x), y) = Parsed(Parsed(a, y), x)
<1> DEFINE f == x.name
           g == y.name
           u == Value(a[f], x)
           v == Value(a[g], y)
<1>1. f \in DOMAIN a /\ g \in DOMAIN a
  BY ParameterValue DEF Args
<1>2. Parsed(a, x) = [a EXCEPT ![f] = u] /\ Parsed(a, y) = [a EXCEPT ![g] = v]
  BY DEF Parsed
<1> HIDE DEF u, v
<1>3. [a EXCEPT ![f] = u][g] = a[g] /\ [a EXCEPT ![g] = v][f] = a[f]
  BY <1>1
<1>4. Parsed(Parsed(a, x), y) = [[a EXCEPT ![f] = u] EXCEPT ![g] = v]
  BY <1>2, <1>3 DEF Parsed, v
<1>5. Parsed(Parsed(a, y), x) = [[a EXCEPT ![g] = v] EXCEPT ![f] = u]
  BY <1>2, <1>3 DEF Parsed, u
<1>6. [[a EXCEPT ![f] = u] EXCEPT ![g] = v] = [[a EXCEPT ![g] = v] EXCEPT ![f] = u]
  BY <1>1
<1>7. QED
  BY <1>4, <1>5, <1>6

\* The order of different parameters does not matter, for any parameters.
THEOREM OrderFreeSafety == DirectiveSpec => []OrderFree
<1>1. DirectiveInv => OrderFree
  <2> SUFFICES ASSUME DirectiveInv,
                      NEW x \in {z \in Parameters : Valid(z)},
                      NEW y \in {z \in Parameters : Valid(z)}, x.name # y.name
               PROVE  Outcome(Parsed(Parsed(args, x), y)) = Outcome(Parsed(Parsed(args, y), x))
    BY DEF OrderFree
  <2>1. args \in Args
    BY DEF DirectiveInv, DirectiveTypeOK
  <2>2. Parsed(Parsed(args, x), y) = Parsed(Parsed(args, y), x)
    BY <2>1, ParsedCommutes
  <2>3. QED
    BY <2>2
<1>2. QED
  BY <1>1, DirectiveInductive, PTL

\* Two handshakes, or keepalive parameters, that mean the same: what a field
\* holds that is not in use may differ.
SameHandshake(h, k) == h.mode = k.mode /\ (h.mode = "time" => h.time = k.time)

SameKeepalive(k, l) ==
    /\ k.on = l.on
    /\ k.on => /\ SameHandshake(k.handshake, l.handshake)
               /\ k.idle = l.idle /\ k.intvl = l.intvl /\ k.cnt = l.cnt

Same(a, b) ==
    /\ a.type = b.type /\ a.port = b.port /\ a.interval = b.interval
    /\ a.timeout = b.timeout /\ a.rise = b.rise /\ a.fall = b.fall /\ a.down = b.down
    /\ SameHandshake(a.reuse, b.reuse)
    /\ SameKeepalive(a.keepalive, b.keepalive)

LEMMA SameLifetimes ==
    ASSUME NEW a \in Args, NEW b \in Args, a.interval = b.interval,
           NEW h \in Times, NEW k \in Times, SameHandshake(h, k)
    PROVE  Lifetimes(a, h) = Lifetimes(b, k)
<1>1. DefaultRehandshake(a) = DefaultRehandshake(b)
  BY DEF DefaultRehandshake
<1>2. h.mode \in {"off", "default", "time"}
  BY DEF Times
<1>3. QED
  BY <1>1, <1>2 DEF SameHandshake, Lifetimes

\* Arguments that mean the same have the same outcome.
LEMMA SameOutcome ==
    ASSUME NEW a \in Args, NEW b \in Args, Same(a, b)
    PROVE  Outcome(a) = Outcome(b)
<1>1. Lifetimes(a, a.reuse) = Lifetimes(b, b.reuse)
  BY SameLifetimes DEF Same, Args
<1>2. a.keepalive.on = b.keepalive.on /\ a.keepalive.on \in BOOLEAN
  BY DEF Same, SameKeepalive, Args, Alives
<1>3. a.keepalive.on =>
        Lifetimes(a, a.keepalive.handshake) = Lifetimes(b, b.keepalive.handshake)
  BY SameLifetimes DEF Same, SameKeepalive, Args, Alives
<1>4. AllLifetimes(a) = AllLifetimes(b)
  BY <1>1, <1>2, <1>3 DEF AllLifetimes
<1>5. Rehandshake(a) = Rehandshake(b)
  BY <1>4 DEF Rehandshake
<1>6. DefaultIdle(a) = DefaultIdle(b)
  BY <1>5 DEF DefaultIdle, Same
<1>7. a.keepalive.on =>
        /\ Idle(a) = Idle(b) /\ Intvl(a) = Intvl(b)
        /\ Given(a.keepalive.cnt, KeepcntDefault) = Given(b.keepalive.cnt, KeepcntDefault)
        /\ a.keepalive.idle = b.keepalive.idle
  BY <1>6 DEF Same, SameKeepalive, Idle, Intvl, Given
<1>8. KeepsConnection(a) = KeepsConnection(b)
  <2>1. a.reuse.mode = b.reuse.mode
    BY DEF Same, SameHandshake
  <2>2. QED
    BY <1>2, <2>1 DEF KeepsConnection
<1>9. Accepted(a) <=> Accepted(b)
  <2>1. a.keepalive.on => (KeepaliveAccepted(a) <=> KeepaliveAccepted(b))
    BY <1>5, <1>7 DEF KeepaliveAccepted
  <2>2. QED
    BY <1>2, <1>4, <1>8, <2>1 DEF Accepted, Same
<1>10. Conf(a) = Conf(b)
  <2>1. Timeout(a) = Timeout(b)
    BY DEF Timeout, Same
  <2>2. QED
    BY <1>2, <1>5, <1>7, <1>8, <2>1 DEF Conf, Same
<1>11. QED
  BY <1>9, <1>10 DEF Outcome

\* Of two values of one field nothing of the first is left in use.
LEMMA ParsedTwice ==
    ASSUME NEW a \in Args, NEW x \in Parameters, NEW y \in Parameters,
           x.name = y.name
    PROVE  Same(Parsed(Parsed(a, x), y), Parsed(a, y))
<1> DEFINE f == y.name
           u == Value(a[f], x)
           v == Value(u, y)
           w == Value(a[f], y)
<1>1. f \in DOMAIN a /\ f \in {"type", "port", "interval", "timeout", "rise", "fall",
                                "down", "reuse", "keepalive"}
  BY ParameterValue DEF Args
<1>2. Parsed(a, x) = [a EXCEPT ![f] = u] /\ Parsed(a, y) = [a EXCEPT ![f] = w]
  BY DEF Parsed
<1>3. f = "reuse" => SameHandshake(v, w)
  BY DEF Value, Handshake, SameHandshake
<1>4. f = "keepalive" => SameKeepalive(v, w)
  <2> SUFFICES ASSUME f = "keepalive" PROVE SameKeepalive(Keepalive(u, y.value), Keepalive(a[f], y.value))
    BY DEF Value
  <2>1. CASE y.value.on
    BY <2>1 DEF Keepalive, SameKeepalive, Handshake, SameHandshake
  <2>2. QED
    BY <2>1 DEF Keepalive, SameKeepalive
<1>5. f \notin {"reuse", "keepalive"} => v = w
  BY DEF Value
<1> HIDE DEF u, v, w
<1>6. Parsed(Parsed(a, x), y) = [a EXCEPT ![f] = v]
  <2>1. [a EXCEPT ![f] = u][f] = u
    BY <1>1
  <2>2. Parsed(Parsed(a, x), y) = [[a EXCEPT ![f] = u] EXCEPT ![f] = v]
    BY <1>2, <2>1 DEF Parsed, v
  <2>3. QED
    BY <1>1, <2>2
<1> DEFINE c == [a EXCEPT ![f] = v]
           d == [a EXCEPT ![f] = w]
<1>7. c[f] = v /\ d[f] = w /\ \A g \in DOMAIN a \ {f} : c[g] = d[g]
  BY <1>1
<1>8. DOMAIN a = {"type", "port", "interval", "timeout", "rise", "fall",
                  "down", "reuse", "keepalive"}
  BY DEF Args
<1> HIDE DEF c, d
<1>9. \A g \in DOMAIN a \ {"reuse", "keepalive"} : c[g] = d[g]
  BY <1>5, <1>7
<1>10. SameHandshake(c["reuse"], d["reuse"])
  BY <1>3, <1>7, <1>8 DEF SameHandshake
<1>11. SameKeepalive(c["keepalive"], d["keepalive"])
  BY <1>4, <1>7, <1>8 DEF SameKeepalive, SameHandshake
<1>12. Same(c, d)
  BY <1>8, <1>9, <1>10, <1>11 DEF Same
<1>13. QED
  BY <1>2, <1>6, <1>12 DEF c, d

\* Of a parameter given twice the last value counts, for any parameters.
THEOREM LastCountsSafety == DirectiveSpec => []LastCounts
<1>1. DirectiveInv => LastCounts
  <2> SUFFICES ASSUME DirectiveInv,
                      NEW x \in {z \in Parameters : Valid(z)},
                      NEW y \in {z \in Parameters : Valid(z)}, x.name = y.name
               PROVE  Outcome(Parsed(Parsed(args, x), y)) = Outcome(Parsed(args, y))
    BY DEF LastCounts
  <2>1. args \in Args /\ WithinLimits(args)
    BY DEF DirectiveInv, DirectiveTypeOK
  <2>2. /\ Parsed(args, x) \in Args /\ WithinLimits(Parsed(args, x))
        /\ Parsed(args, y) \in Args
    BY <2>1, ParsedType
  <2>3. Parsed(Parsed(args, x), y) \in Args
    BY <2>2, ParsedType
  <2>4. QED
    BY <2>1, <2>2, <2>3, ParsedTwice, SameOutcome
<1>2. QED
  BY <1>1, DirectiveInductive, PTL

----------------------------------------------------------------------------
(***************************************************************************)
(* Delay statistics                                                        *)
(***************************************************************************)
\* A set of natural numbers has a smallest element: the induction over data
\* below is by a smallest counterexample.
LEMMA SmallestExists ==
    ASSUME NEW S \in SUBSET Nat, S # {}
    PROVE  \E n \in S : \A m \in S : n <= m
<1>1. PICK n \in S : \A m \in S : ~(<<m, n>> \in OpToRel(<, Nat))
  BY NatLessThanWellFounded, WFMin, Zenon
<1>2. ASSUME NEW m \in S PROVE n <= m
  <2>1. n \in Nat /\ m \in Nat
    BY <1>1
  <2>2. <<m, n>> \in Nat \X Nat /\ <<m, n>>[1] = m /\ <<m, n>>[2] = n
    BY <2>1
  <2>3. ~(<<m, n>> \in OpToRel(<, Nat))
    BY <1>1, Zenon
  <2>4. ~(m < n)
    BY <2>2, <2>3, Zenon DEF OpToRel
  <2>5. QED
    BY <2>1, <2>4
<1>3. QED
  BY <1>1, <1>2

LEMMA HalfSmaller ==
    ASSUME NEW n \in Nat, n # 0
    PROVE  n \div 2 \in 0..(n - 1)
OBVIOUS

\* What \div means, by products.
LEMMA QuotientBounds ==
    ASSUME NEW n \in Nat, NEW m \in Nat \ {0}
    PROVE  /\ n \div m \in Nat
           /\ (n \div m) * m <= n
           /\ n < ((n \div m) + 1) * m
OBVIOUS

LEMMA QuotientAtLeast ==
    ASSUME NEW n \in Nat, NEW m \in Nat \ {0}, NEW q \in Nat, q * m <= n
    PROVE  q <= n \div m
<1> DEFINE p == n \div m
<1>1. p \in Nat /\ n < (p + 1) * m
  BY QuotientBounds
<1> HIDE DEF p
<1>2. q <= p
  BY <1>1
<1>3. QED
  BY <1>2 DEF p

LEMMA QuotientAtMost ==
    ASSUME NEW n \in Nat, NEW m \in Nat \ {0}, NEW q \in Nat, n < (q + 1) * m
    PROVE  n \div m <= q
<1> DEFINE p == n \div m
<1>1. p \in Nat /\ p * m <= n
  BY QuotientBounds
<1> HIDE DEF p
<1>2. p <= q
  BY <1>1
<1>3. QED
  BY <1>2 DEF p

\* Whether the loop stops at this number of samples.
Fits(c, delay) == OldAvg * c <= MaxTotal - delay

\* The loop ends: the function that Halved is read from exists.
LEMMA HalvedExists ==
    ASSUME NEW h \in Nat, NEW delay
    PROVE  \E f : f = [c \in 0..h |-> IF c = 0 \/ Fits(c, delay) THEN c ELSE f[c \div 2]]
<1> DEFINE Good(n) == \E f \in [0..n -> Nat] : \A c \in 0..n :
               f[c] = IF c = 0 \/ Fits(c, delay) THEN c ELSE f[c \div 2]
           Bad == {n \in Nat : ~Good(n)}
<1>1. Good(0)
  <2> DEFINE f == [c \in 0..0 |-> 0]
  <2>1. f \in [0..0 -> Nat]
    OBVIOUS
  <2>2. \A c \in 0..0 : c = 0 /\ f[c] = 0
    OBVIOUS
  <2> HIDE DEF f
  <2>3. QED
    BY <2>1, <2>2
<1>2. ASSUME NEW n \in Nat, n # 0, Good(n - 1) PROVE Good(n)
  <2>1. PICK f \in [0..(n - 1) -> Nat] : \A c \in 0..(n - 1) :
               f[c] = IF c = 0 \/ Fits(c, delay) THEN c ELSE f[c \div 2]
    BY <1>2
  <2>2. PICK v \in Nat : v = IF n = 0 \/ Fits(n, delay) THEN n ELSE f[n \div 2]
    BY <1>2, <2>1, HalfSmaller
  <2> DEFINE g == [c \in 0..n |-> IF c = n THEN v ELSE f[c]]
  <2>3. g \in [0..n -> Nat]
    BY <1>2
  <2>4. g[n] = v /\ \A c \in 0..(n - 1) : g[c] = f[c]
    BY <1>2
  <2> HIDE DEF g
  <2>5. ASSUME NEW c \in 0..n
        PROVE  g[c] = IF c = 0 \/ Fits(c, delay) THEN c ELSE g[c \div 2]
    <3>1. CASE c = n
      <4>1. g[n \div 2] = f[n \div 2]
        BY <1>2, <2>4, HalfSmaller
      <4>2. QED
        BY <2>2, <2>4, <3>1, <4>1
    <3>2. CASE c # n
      <4>1. c \in 0..(n - 1) /\ g[c] = f[c]
        BY <1>2, <2>4, <3>2
      <4>2. c # 0 => c \div 2 \in 0..(n - 1) /\ g[c \div 2] = f[c \div 2]
        BY <1>2, <2>4, <4>1, HalfSmaller
      <4>3. QED
        BY <2>1, <4>1, <4>2
    <3>3. QED
      BY <3>1, <3>2
  <2>6. QED
    BY <2>3, <2>5
<1> HIDE DEF Good
<1>3. Bad = {}
  <2> SUFFICES ASSUME Bad # {} PROVE FALSE
    OBVIOUS
  <2>1. Bad \in SUBSET Nat
    OBVIOUS
  <2>2. PICK n \in Bad : \A m \in Bad : n <= m
    BY <2>1, SmallestExists
  <2>3. n \in Nat /\ ~Good(n) /\ n # 0
    BY <1>1
  <2>4. n - 1 \in Nat /\ ~(n <= n - 1)
    BY <2>3
  <2>5. Good(n - 1)
    BY <2>2, <2>4
  <2>6. QED
    BY <1>2, <2>3, <2>5
<1>4. Good(h)
  BY <1>3
<1>5. PICK f \in [0..h -> Nat] : \A c \in 0..h :
               f[c] = IF c = 0 \/ Fits(c, delay) THEN c ELSE f[c \div 2]
  BY <1>4 DEF Good
<1>6. f = [c \in 0..h |-> IF c = 0 \/ Fits(c, delay) THEN c ELSE f[c \div 2]]
  BY <1>5
<1>7. QED
  BY <1>6

LEMMA HalvedEquation ==
    ASSUME NEW h \in Nat, NEW delay
    PROVE  \E f : /\ f = [c \in 0..h |-> IF c = 0 \/ Fits(c, delay) THEN c ELSE f[c \div 2]]
                  /\ Halved(h, delay) = f[h]
<1> DEFINE P(f) == f = [c \in 0..h |-> IF c = 0 \/ Fits(c, delay) THEN c ELSE f[c \div 2]]
           F == CHOOSE f : P(f)
<1>1. Halved(h, delay) = F[h]
  BY Zenon DEF Halved, Fits
<1>2. \E f : P(f)
  BY HalvedExists
<1> HIDE DEF P
<1>3. P(F)
  BY <1>2, Zenon
<1>4. QED
  BY <1>1, <1>3 DEF P

\* The loop ends with a number between 1 and the one it began with whose total
\* leaves room, if one sample does.
LEMMA HalvedFits ==
    ASSUME NEW h \in Nat \ {0}, NEW delay, Fits(1, delay)
    PROVE  /\ Halved(h, delay) \in 1..h
           /\ Fits(Halved(h, delay), delay)
<1>1. PICK f : /\ f = [c \in 0..h |-> IF c = 0 \/ Fits(c, delay) THEN c ELSE f[c \div 2]]
               /\ Halved(h, delay) = f[h]
  BY HalvedEquation
<1> DEFINE Good(c) == f[c] \in 1..c /\ Fits(f[c], delay)
           Bad == {c \in 1..h : ~Good(c)}
<1>2. ASSUME NEW c \in 1..h
      PROVE  f[c] = IF Fits(c, delay) THEN c ELSE f[c \div 2]
  <2>1. c \in 0..h /\ c # 0
    BY <1>2
  <2>2. QED
    BY <1>1, <2>1
<1>3. Bad = {}
  <2> SUFFICES ASSUME Bad # {} PROVE FALSE
    OBVIOUS
  <2>1. Bad \in SUBSET Nat
    OBVIOUS
  <2>2. PICK c \in Bad : \A b \in Bad : c <= b
    BY <2>1, SmallestExists
  <2>3. c \in 1..h /\ ~Good(c)
    OBVIOUS
  <2>4. ~Fits(c, delay)
    BY <1>2, <2>3
  <2>5. c # 1
    BY <2>4
  <2>6. c \div 2 \in 1..h /\ ~(c <= c \div 2) /\ c \div 2 <= c
    BY <2>3, <2>5
  <2>7. Good(c \div 2)
    BY <2>2, <2>6
  <2>8. f[c] = f[c \div 2]
    BY <1>2, <2>3, <2>4
  <2>9. f[c] \in 1..c
    BY <2>3, <2>6, <2>7, <2>8
  <2>10. QED
    BY <2>3, <2>7, <2>8, <2>9
<1> HIDE DEF Bad
<1>4. h \in 1..h
  OBVIOUS
<1>5. Good(h)
  BY <1>3, <1>4, Zenon DEF Bad
<1>6. QED
  BY <1>1, <1>5

----------------------------------------------------------------------------
\* The fields fit, the average is the quotient and within the extremes.
DelayInv == TypeOK /\ MeanWithinExtremes

LEMMA DelayBounds ==
    /\ MaxTotal \in Nat /\ MaxTotal >= 3 /\ MaxDelay \in Nat
    /\ \A d \in Delays : d \in Nat /\ d <= MaxDelay /\ 2 * d <= MaxTotal
    /\ \A d, e \in Delays : d + e <= MaxTotal /\ d \in 0..MaxTotal /\ d <= MaxTotal - e
BY DelayAssumption DEF Delays

\* The average in use before the rescaling is the published one.
LEMMA OldAvgIsAvg ==
    ASSUME DelayInv, stats.count # 0
    PROVE  /\ stats.count \in Nat \ {0} /\ stats.total \in Nat
           /\ OldAvg = stats.avg /\ OldAvg \in Delays
           /\ OldAvg * stats.count <= stats.total
           /\ stats.total < (OldAvg + 1) * stats.count
<1>1. stats.count \in Nat \ {0} /\ stats.total \in Nat /\ stats.avg \in Delays
  BY DelayBounds DEF DelayInv, TypeOK, Stats
<1>2. OldAvg = stats.avg
  BY DEF DelayInv, MeanWithinExtremes, OldAvg
<1>3. QED
  BY <1>1, <1>2, QuotientBounds DEF OldAvg

\* Neither the number the rescaling begins with nor the total rebuilt from it
\* exceeds the width, and there is at least one sample.
LEMMA HalfCountFits ==
    ASSUME DelayInv, stats.count # 0
    PROVE  /\ HalfCount \in 1..(MaxTotal - 1)
           /\ OldAvg * HalfCount <= MaxTotal
<1> DEFINE a == OldAvg
           half == stats.count \div 2 + 1
           most == MaxTotal \div a
<1>1. a \in Nat /\ a <= MaxTotal /\ stats.count \in 1..MaxTotal
  BY OldAvgIsAvg, DelayBounds DEF DelayInv, TypeOK, Stats
<1>2. half \in 1..(MaxTotal - 1)
  BY <1>1, DelayBounds
<1>3. ASSUME a # 0
      PROVE  most \in Nat /\ 1 <= most /\ most * a <= MaxTotal /\ MaxTotal < (most + 1) * a
  <2>1. MaxTotal \in Nat /\ a \in Nat \ {0} /\ 1 * a <= MaxTotal
    BY <1>1, <1>3, DelayBounds
  <2>2. most \in Nat /\ most * a <= MaxTotal /\ MaxTotal < (most + 1) * a
    BY <2>1, QuotientBounds
  <2>3. 1 <= most
    BY <2>1, QuotientAtLeast
  <2>4. QED
    BY <2>2, <2>3
<1>4. HalfCount = IF a # 0 /\ half > most THEN most ELSE half
  BY DEF HalfCount
<1> HIDE DEF a, half, most
<1>5. CASE a = 0
  BY <1>2, <1>4, <1>5, DelayBounds DEF a
<1>6. CASE a # 0 /\ half > most
  <2>1. most \in 1..(MaxTotal - 1)
    BY <1>2, <1>3, <1>6, DelayBounds
  <2>2. a * most <= MaxTotal
    BY <1>1, <1>3, <1>6, DelayBounds
  <2>3. QED
    BY <1>4, <1>6, <2>1, <2>2 DEF a
<1>7. CASE a # 0 /\ ~(half > most)
  <2>1. half <= most /\ half \in Nat /\ most \in Nat
    BY <1>2, <1>3, <1>7, DelayBounds
  <2>2. a * half <= a * most
    BY <1>1, <2>1
  <2>3. a * half <= MaxTotal
    BY <1>1, <1>3, <1>7, <2>1, <2>2, DelayBounds
  <2>4. QED
    BY <1>2, <1>4, <1>7, <2>3 DEF a
<1>8. QED
  BY <1>5, <1>6, <1>7

\* What the new average is computed from, with or without a rescaling: a sum of
\* samples with the old average, and room for one more.
Base(delay) == IF Full(delay) THEN Rescaled(HalfCount, delay) ELSE stats

LEMMA BaseFits ==
    ASSUME DelayInv, stats.count # 0, NEW delay \in Delays
    PROVE  /\ ~Fails(delay)
           /\ Base(delay).count \in 1..(MaxTotal - 1)
           /\ Base(delay).total \in Nat
           /\ Base(delay).total + delay <= MaxTotal
           /\ OldAvg * Base(delay).count <= Base(delay).total
           /\ Base(delay).total < (OldAvg + 1) * Base(delay).count
<1>1. CASE ~Full(delay)
  <2>1. Base(delay) = stats /\ ~Fails(delay)
    BY <1>1 DEF Base, Fails
  <2>2. stats.count \in 1..(MaxTotal - 1) /\ stats.total + delay <= MaxTotal
    BY <1>1, DelayBounds DEF Full, DelayInv, TypeOK, Stats
  <2>3. QED
    BY <2>1, <2>2, OldAvgIsAvg
<1>2. CASE Full(delay)
  <2> DEFINE h == HalfCount
             c == Halved(h, delay)
             a == OldAvg
  <2>1. a \in Nat /\ a \in Delays /\ delay \in Nat
    BY OldAvgIsAvg, DelayBounds
  <2>2. h \in 1..(MaxTotal - 1) /\ h \in Nat \ {0}
    BY HalfCountFits, DelayBounds
  <2>3. Fits(1, delay)
    <3>1. a <= MaxTotal - delay
      BY <2>1, DelayBounds
    <3>2. QED
      BY <2>1, <3>1 DEF Fits
  <2>4. c \in 1..h /\ a * c <= MaxTotal - delay
    BY <2>2, <2>3, HalvedFits DEF Fits
  <2>5. Base(delay) = [total |-> a * c, count |-> c]
    BY <1>2 DEF Base, Rescaled
  <2>6. Fails(delay) => c = 0
    BY DEF Fails
  <2> HIDE DEF c, h, a
  <2>7. c \in 1..(MaxTotal - 1) /\ c \in Nat \ {0}
    BY <2>2, <2>4, DelayBounds
  <2>8. a * c \in Nat /\ a * c + delay <= MaxTotal
    BY <2>1, <2>4, <2>7, DelayBounds
  <2>9. a * c < (a + 1) * c
    BY <2>1, <2>7
  <2>10. Base(delay).total = a * c /\ Base(delay).count = c
    BY <2>5
  <2>11. QED
    BY <2>6, <2>7, <2>8, <2>9, <2>10 DEF a
<1>3. QED
  BY <1>1, <1>2

\* One more sample with a sum of that kind.
LEMMA AverageBetween ==
    ASSUME NEW a \in Nat, NEW d \in Nat, NEW count \in Nat \ {0}, NEW total \in Nat,
           a * count <= total, total < (a + 1) * count
    PROVE  LET avg == (total + d) \div (count + 1)
           IN  /\ avg \in Nat
               /\ d >= a => a <= avg /\ avg <= d
               /\ d <= a => d <= avg /\ avg <= a
<1> DEFINE n == total + d
           m == count + 1
<1>1. n \in Nat /\ m \in Nat \ {0}
  OBVIOUS
<1>2. n \div m \in Nat
  BY <1>1, QuotientBounds
<1>3. ASSUME d >= a PROVE a * m <= n /\ n < (d + 1) * m
  <2>1. a * m = a * count + a
    OBVIOUS
  <2>2. (d + 1) * m = (d + 1) * count + d + 1
    OBVIOUS
  <2>3. (a + 1) * count <= (d + 1) * count
    BY <1>3
  <2> DEFINE ac == a * count
             ac1 == (a + 1) * count
             dc1 == (d + 1) * count
             am == a * m
             dm == (d + 1) * m
  <2>4. ac \in Nat /\ ac1 \in Nat /\ dc1 \in Nat /\ am \in Nat /\ dm \in Nat
    OBVIOUS
  <2>5. am = ac + a /\ dm = dc1 + d + 1 /\ ac1 <= dc1 /\ ac <= total /\ total < ac1
    BY <2>1, <2>2, <2>3
  <2> HIDE DEF ac, ac1, dc1, am, dm
  <2>6. am <= total + d /\ total + d < dm
    BY <1>3, <2>4, <2>5
  <2>7. QED
    BY <2>6 DEF am, dm
<1>4. ASSUME d <= a PROVE d * m <= n /\ n < (a + 1) * m
  <2>1. d * m = d * count + d
    OBVIOUS
  <2>2. (a + 1) * m = (a + 1) * count + a + 1
    OBVIOUS
  <2>3. d * count <= a * count
    BY <1>4
  <2> DEFINE ac == a * count
             ac1 == (a + 1) * count
             dc == d * count
             dm == d * m
             am == (a + 1) * m
  <2>4. ac \in Nat /\ ac1 \in Nat /\ dc \in Nat /\ am \in Nat /\ dm \in Nat
    OBVIOUS
  <2>5. dm = dc + d /\ am = ac1 + a + 1 /\ dc <= ac /\ ac <= total /\ total < ac1
    BY <2>1, <2>2, <2>3
  <2> HIDE DEF ac, ac1, dc, am, dm
  <2>6. dm <= total + d /\ total + d < am
    BY <1>4, <2>4, <2>5
  <2>7. QED
    BY <2>6 DEF am, dm
<1> HIDE DEF n, m
<1>5. ASSUME d >= a PROVE a <= n \div m /\ n \div m <= d
  BY <1>1, <1>3, <1>5, QuotientAtLeast, QuotientAtMost
<1>6. ASSUME d <= a PROVE d <= n \div m /\ n \div m <= a
  BY <1>1, <1>4, <1>6, QuotientAtLeast, QuotientAtMost
<1>7. QED
  BY <1>2, <1>5, <1>6 DEF n, m

\* An update of existing statistics, field by field.
LEMMA UpdateEffect ==
    ASSUME DelayInv, stats.count # 0, NEW delay \in Delays, Update(delay)
    PROVE  /\ stats' \in Stats /\ stats'.count # 0
           /\ stats'.last = delay
           /\ stats'.avg = stats'.total \div stats'.count
           /\ delay >= stats.avg => stats.avg <= stats'.avg /\ stats'.avg <= delay
           /\ delay <= stats.avg => delay <= stats'.avg /\ stats'.avg <= stats.avg
           /\ stats'.min = (IF delay < stats.min THEN delay ELSE stats.min)
           /\ stats'.max = (IF delay > stats.max THEN delay ELSE stats.max)
<1> DEFINE total == Base(delay).total
           count == Base(delay).count
           avg == (total + delay) \div (count + 1)
           min == IF delay < stats.min THEN delay ELSE stats.min
           max == IF delay > stats.max THEN delay ELSE stats.max
<1>1. stats' = [total |-> total + delay, count |-> count + 1, last |-> delay,
                avg |-> avg, min |-> min, max |-> max]
  BY DEF Update, Updated, Added, Extremes, Base
<1>2. /\ count \in 1..(MaxTotal - 1) /\ count \in Nat \ {0} /\ total \in Nat
      /\ total + delay <= MaxTotal
      /\ OldAvg * count <= total /\ total < (OldAvg + 1) * count
  BY BaseFits, DelayBounds
<1>3. stats.avg = OldAvg /\ OldAvg \in Delays /\ OldAvg \in Nat /\ delay \in Nat
  BY OldAvgIsAvg, DelayBounds
<1>4. stats.min \in Delays /\ stats.max \in Delays
  BY DEF DelayInv, TypeOK, Stats
<1> HIDE DEF total, count
<1>5. /\ avg \in Nat
      /\ delay >= OldAvg => OldAvg <= avg /\ avg <= delay
      /\ delay <= OldAvg => delay <= avg /\ avg <= OldAvg
  BY <1>2, <1>3, AverageBetween
<1> HIDE DEF avg
<1>6. avg \in Delays
  BY <1>3, <1>5, DelayBounds DEF Delays
<1>7. min \in Delays /\ max \in Delays
  BY <1>4
<1>8. total + delay \in 0..MaxTotal /\ count + 1 \in 0..MaxTotal /\ count + 1 # 0
  BY <1>2, <1>3, DelayBounds
<1> HIDE DEF min, max
<1>9. stats' \in Stats
  BY <1>1, <1>6, <1>7, <1>8 DEF Stats
<1>10. /\ stats'.total = total + delay /\ stats'.count = count + 1 /\ stats'.last = delay
       /\ stats'.avg = avg /\ stats'.min = min /\ stats'.max = max
  BY <1>1
<1>11. QED
  BY <1>3, <1>5, <1>8, <1>9, <1>10 DEF avg, min, max

LEMMA DelayInitInv == Init => DelayInv
<1>1. 0 \in 0..MaxTotal /\ 0 \in Delays
  BY DelayAssumption DEF Delays
<1>2. QED
  BY <1>1 DEF Init, DelayInv, TypeOK, MeanWithinExtremes, Stats, NoSamples

LEMMA DelayNextInv == ASSUME DelayInv, [Next]_stats PROVE DelayInv'
<1>1. CASE UNCHANGED stats
  BY <1>1 DEF DelayInv, TypeOK, MeanWithinExtremes
<1>2. ASSUME NEW delay \in Delays, Update(delay), stats.count = 0 PROVE DelayInv'
  <2>1. stats' = First(delay)
    BY <1>2 DEF Update, Updated
  <2>2. delay \in 0..MaxTotal /\ 1 \in 0..MaxTotal /\ delay \in Nat
    BY DelayBounds
  <2>3. delay = delay \div 1
    BY <2>2
  <2>4. stats' \in Stats
    BY <2>1, <2>2 DEF First, Stats
  <2>5. MeanWithinExtremes'
    BY <2>1, <2>2, <2>3 DEF First, MeanWithinExtremes
  <2>6. QED
    BY <2>4, <2>5 DEF DelayInv, TypeOK
<1>3. ASSUME NEW delay \in Delays, Update(delay), stats.count # 0 PROVE DelayInv'
  <2>1. /\ stats.avg \in Nat /\ stats.min \in Nat /\ stats.max \in Nat /\ delay \in Nat
        /\ stats.min <= stats.avg /\ stats.avg <= stats.max
    BY <1>3, DelayBounds DEF DelayInv, TypeOK, Stats, MeanWithinExtremes
  <2>2. stats'.avg \in Nat /\ stats' \in Stats
    BY <1>3, UpdateEffect, DelayBounds DEF Stats
  <2>3. MeanWithinExtremes'
    BY <1>3, <2>1, <2>2, UpdateEffect DEF MeanWithinExtremes
  <2>4. QED
    BY <2>2, <2>3 DEF DelayInv, TypeOK
<1>4. QED
  BY <1>1, <1>2, <1>3 DEF Next

LEMMA DelaySafety == Spec => []DelayInv
BY DelayInitInv, DelayNextInv, PTL DEF Spec

\* ngx_healthcheck_update_delay: whatever samples come, the average lies between the
\* smallest and the largest delay, the total stands for as many samples as are counted,
\* and rescaling leaves room for every next sample: the update never fails.
THEOREM StatisticsSafety == Spec => []StatisticsSound
<1>1. DelayInv => StatisticsSound
  <2> SUFFICES ASSUME DelayInv PROVE StatisticsSound
    OBVIOUS
  <2>1. ASSUME NEW delay \in Delays PROVE ~Fails(delay)
    <3>1. CASE stats.count = 0
      BY <3>1 DEF Fails
    <3>2. CASE stats.count # 0
      BY <3>2, BaseFits
    <3>3. QED
      BY <3>1, <3>2
  <2>2. QED
    BY <2>1 DEF StatisticsSound, NeverFails, DelayInv
<1>2. QED
  BY <1>1, DelaySafety, PTL

\* No sum or product of ngx_healthcheck_update_delay wraps around: the halved count
\* and the old average times it stay within the width.
THEOREM WidthSafety ==
    Spec => [](stats.count # 0 => HalfCount + 1 <= MaxTotal /\ OldAvg * HalfCount <= MaxTotal)
<1>1. DelayInv => (stats.count # 0 => HalfCount + 1 <= MaxTotal /\ OldAvg * HalfCount <= MaxTotal)
  BY HalfCountFits, DelayBounds
<1>2. QED
  BY <1>1, DelaySafety, PTL

\* A sample moves the average towards itself and never past it, across rescaling too
\* (ngx_healthcheck_update_delay).
THEOREM AverageSafety == Spec => AverageFollowsSample
<1> DEFINE A == LET a == stats.avg
                    d == stats'.last
                IN  stats.count # 0 =>
                       /\ d >= a => a <= stats'.avg /\ stats'.avg <= d
                       /\ d <= a => d <= stats'.avg /\ stats'.avg <= a
<1>1. ASSUME DelayInv, Next PROVE A
  <2>1. PICK delay \in Delays : Update(delay)
    BY <1>1 DEF Next
  <2>2. QED
    BY <1>1, <2>1, UpdateEffect
<1>2. DelayInv /\ [Next]_stats => [A]_stats
  BY <1>1
<1> HIDE DEF A
<1>3. Spec => [][A]_stats
  BY <1>2, DelaySafety, PTL DEF Spec
<1>4. QED
  BY <1>3 DEF A, AverageFollowsSample

----------------------------------------------------------------------------
(***************************************************************************)
(* Loops                                                                   *)
(***************************************************************************)
\* What holds for 0 and for the successor of every number it holds for, up to a
\* bound, holds for all.  Held is the set of the numbers it holds for.
LEMMA Induction ==
    ASSUME NEW N \in Nat, NEW Held,
           0 \in Held,
           \A n \in 1..N : n - 1 \in Held => n \in Held
    PROVE  \A n \in 0..N : n \in Held
<1> DEFINE Bad == {n \in 0..N : n \notin Held}
<1>1. Bad = {}
  <2> SUFFICES ASSUME Bad # {} PROVE FALSE
    OBVIOUS
  <2>1. Bad \in SUBSET Nat
    OBVIOUS
  <2>2. PICK n \in Bad : \A m \in Bad : n <= m
    BY <2>1, SmallestExists
  <2>3. n \in 1..N /\ n \notin Held
    OBVIOUS
  <2>4. n - 1 \in 0..N /\ ~(n <= n - 1)
    BY <2>3
  <2>5. n - 1 \in Held
    BY <2>2, <2>4
  <2>6. QED
    BY <2>3, <2>5
<1>2. QED
  BY <1>1

\* A loop: g is what N steps make of a first value, step n by the function Turn[n].
Loop(g, N, S, first, Turn) ==
    /\ g \in [0..N -> S]
    /\ g[0] = first
    /\ \A n \in 1..N : g[n] = Turn[n][g[n - 1]]

\* Such a loop exists.
LEMMA Iteration ==
    ASSUME NEW N \in Nat, NEW S, NEW first \in S, NEW Turn \in [1..N -> [S -> S]]
    PROVE  \E g : Loop(g, N, S, first, Turn)
<1> DEFINE Upto(n) == \E g \in [0..n -> S] : /\ g[0] = first
                                            /\ \A k \in 1..n : g[k] = Turn[k][g[k - 1]]
           Held == {n \in 0..N : Upto(n)}
<1>1. Upto(0)
  <2> DEFINE g == [k \in 0..0 |-> first]
  <2>1. g \in [0..0 -> S] /\ g[0] = first
    OBVIOUS
  <2>2. 1..0 = {}
    OBVIOUS
  <2> HIDE DEF g
  <2>3. QED
    BY <2>1, <2>2
<1>2. ASSUME NEW n \in 1..N, Upto(n - 1) PROVE Upto(n)
  <2>1. PICK g \in [0..(n - 1) -> S] : /\ g[0] = first
                                      /\ \A k \in 1..(n - 1) : g[k] = Turn[k][g[k - 1]]
    BY <1>2
  <2>2. PICK v \in S : v = Turn[n][g[n - 1]]
    BY <2>1
  <2> DEFINE h == [k \in 0..n |-> IF k = n THEN v ELSE g[k]]
  <2>3. h \in [0..n -> S]
    BY <2>1
  <2>4. h[n] = v /\ \A k \in 0..(n - 1) : h[k] = g[k]
    OBVIOUS
  <2> HIDE DEF h
  <2>5. h[0] = first
    BY <2>1, <2>4
  <2>6. ASSUME NEW k \in 1..n PROVE h[k] = Turn[k][h[k - 1]]
    <3>1. k - 1 \in 0..(n - 1) /\ h[k - 1] = g[k - 1]
      BY <2>4
    <3>2. CASE k = n
      BY <2>2, <2>4, <3>1, <3>2
    <3>3. CASE k # n
      BY <2>1, <2>4, <3>1, <3>3
    <3>4. QED
      BY <3>2, <3>3
  <2>7. QED
    BY <2>3, <2>5, <2>6
<1> HIDE DEF Upto
<1>3. \A n \in 1..N : n - 1 \in Held => n \in Held
  BY <1>2
<1>4. 0 \in Held
  BY <1>1
<1> HIDE DEF Held
<1>5. N \in Held
  <2>1. \A n \in 0..N : n \in Held
    BY <1>3, <1>4, Induction, Zenon
  <2>2. QED
    BY <2>1
<1>6. QED
  BY <1>5 DEF Held, Upto, Loop

\* The loop of Picked, whose items are in S.
PickLoop(g, items, taken, S) ==
    /\ g \in [0..Len(items) -> Seq(S)]
    /\ g[0] = <<>>
    /\ \A n \in 1..Len(items) :
          g[n] = IF taken[n] THEN Append(g[n - 1], items[n]) ELSE g[n - 1]
    /\ Picked(items, taken) = g[Len(items)]

\* Picked is its loop.
LEMMA PickedLoop ==
    ASSUME NEW items, NEW taken, NEW S, Len(items) \in Nat,
           \A n \in 1..Len(items) : taken[n] => items[n] \in S
    PROVE  \E g : PickLoop(g, items, taken, S)
<1> DEFINE T == Seq(S)
           N == Len(items)
           Turn == [n \in 1..N |-> [t \in T |->
                       IF taken[n] THEN Append(t, items[n]) ELSE t]]
           Body(g, n) == IF n = 0 THEN <<>>
                         ELSE IF taken[n] THEN Append(g[n - 1], items[n]) ELSE g[n - 1]
           P(g) == g = [n \in 0..N |-> Body(g, n)]
           F == CHOOSE g : P(g)
<1>1. N \in Nat
  OBVIOUS
<1>2. ASSUME NEW n \in 1..N, NEW t \in T, taken[n] PROVE Append(t, items[n]) \in T
  BY <1>2, AppendProperties
<1>3. Turn \in [1..N -> [T -> T]]
  BY <1>2
<1>4. <<>> \in T
  OBVIOUS
<1>5. \A n \in 1..N, t \in T : Turn[n][t] = IF taken[n] THEN Append(t, items[n]) ELSE t
  OBVIOUS
<1>6. Picked(items, taken) = F[N]
  BY Zenon DEF Picked
<1>7. \A g : /\ Body(g, 0) = <<>>
             /\ \A n \in 1..N :
                   Body(g, n) = IF taken[n] THEN Append(g[n - 1], items[n]) ELSE g[n - 1]
  <2>1. \A n \in 1..N : n # 0
    OBVIOUS
  <2>2. QED
    BY <2>1, Zenon
<1> HIDE DEF Turn, T, N, Body
<1>8. PICK g : Loop(g, N, T, <<>>, Turn)
  BY <1>1, <1>3, <1>4, Iteration, Zenon
<1>9. /\ g \in [0..N -> T] /\ g[0] = <<>>
      /\ \A n \in 1..N : g[n] = Turn[n][g[n - 1]] /\ g[n - 1] \in T
  BY <1>1, <1>8 DEF Loop
<1>10. \A n \in 1..N : g[n] = IF taken[n] THEN Append(g[n - 1], items[n]) ELSE g[n - 1]
  BY <1>5, <1>9
<1>11. P(g)
  <2>1. \A n \in 0..N : g[n] = Body(g, n)
    <3>1. \A n \in 0..N : n = 0 \/ n \in 1..N
      BY <1>1
    <3>2. \A n \in 1..N : g[n] = Body(g, n)
      BY <1>10, <1>7, Zenon
    <3>3. QED
      BY <1>9, <1>7, <3>1, <3>2, Zenon
  <2>2. QED
    BY <1>9, <2>1
<1> HIDE DEF P
<1>12. P(F)
  BY <1>11, Zenon
<1> HIDE DEF F
<1>13. \A h : P(h) => h = g
  <2> SUFFICES ASSUME NEW h, P(h) PROVE h = g
    OBVIOUS
  <2> DEFINE Held == {n \in 0..N : h[n] = g[n]}
  <2>1. DOMAIN h = 0..N /\ h = [n \in 0..N |-> h[n]]
    BY DEF P
  <2>2. h[0] = <<>>
    <3>1. h[0] = Body(h, 0)
      BY <1>1 DEF P
    <3>2. QED
      BY <1>7, <3>1, Zenon
  <2>3. \A n \in 1..N : h[n] = IF taken[n] THEN Append(h[n - 1], items[n]) ELSE h[n - 1]
    <3>1. \A n \in 1..N : h[n] = Body(h, n)
      BY <1>1 DEF P
    <3>2. QED
      BY <1>7, <3>1, Zenon
  <2>4. 0 \in Held
    BY <1>1, <1>9, <2>2
  <2>5. \A n \in 1..N : n - 1 \in Held => n \in Held
    BY <1>1, <1>10, <2>3
  <2> HIDE DEF Held
  <2>6. \A n \in 0..N : n \in Held
    BY <1>1, <2>4, <2>5, Induction
  <2>7. QED
    BY <1>9, <2>1, <2>6 DEF Held
<1>14. F = g
  BY <1>12, <1>13
<1>15. QED
  BY <1>6, <1>9, <1>10, <1>14 DEF N, T, PickLoop

\* The loop of Joined, whose texts are in Seq(S).
JoinLoop(g, texts, S) ==
    /\ g \in [0..Len(texts) -> Seq(S)]
    /\ g[0] = <<>>
    /\ \A n \in 1..Len(texts) :
          g[n] = g[n - 1] \o texts[n]
    /\ Joined(texts) = g[Len(texts)]

\* Joined is its loop.
LEMMA JoinedLoop ==
    ASSUME NEW texts, NEW S, Len(texts) \in Nat,
           \A n \in 1..Len(texts) : texts[n] \in Seq(S)
    PROVE  \E g : JoinLoop(g, texts, S)
<1> DEFINE T == Seq(S)
           N == Len(texts)
           Turn == [n \in 1..N |-> [t \in T |->
                       t \o texts[n]]]
           Body(g, n) == IF n = 0 THEN <<>>
                         ELSE g[n - 1] \o texts[n]
           P(g) == g = [n \in 0..N |-> Body(g, n)]
           F == CHOOSE g : P(g)
<1>1. N \in Nat
  OBVIOUS
<1>2. ASSUME NEW n \in 1..N, NEW t \in T PROVE t \o texts[n] \in T
  BY ConcatProperties
<1>3. Turn \in [1..N -> [T -> T]]
  BY <1>2
<1>4. <<>> \in T
  OBVIOUS
<1>5. \A n \in 1..N, t \in T : Turn[n][t] = t \o texts[n]
  OBVIOUS
<1>6. Joined(texts) = F[N]
  BY Zenon DEF Joined
<1>7. \A g : /\ Body(g, 0) = <<>>
             /\ \A n \in 1..N :
                   Body(g, n) = g[n - 1] \o texts[n]
  <2>1. \A n \in 1..N : n # 0
    OBVIOUS
  <2>2. QED
    BY <2>1, Zenon
<1> HIDE DEF Turn, T, N, Body
<1>8. PICK g : Loop(g, N, T, <<>>, Turn)
  BY <1>1, <1>3, <1>4, Iteration, Zenon
<1>9. /\ g \in [0..N -> T] /\ g[0] = <<>>
      /\ \A n \in 1..N : g[n] = Turn[n][g[n - 1]] /\ g[n - 1] \in T
  BY <1>1, <1>8 DEF Loop
<1>10. \A n \in 1..N : g[n] = g[n - 1] \o texts[n]
  BY <1>5, <1>9
<1>11. P(g)
  <2>1. \A n \in 0..N : g[n] = Body(g, n)
    <3>1. \A n \in 0..N : n = 0 \/ n \in 1..N
      BY <1>1
    <3>2. \A n \in 1..N : g[n] = Body(g, n)
      BY <1>10, <1>7, Zenon
    <3>3. QED
      BY <1>9, <1>7, <3>1, <3>2, Zenon
  <2>2. QED
    BY <1>9, <2>1
<1> HIDE DEF P
<1>12. P(F)
  BY <1>11, Zenon
<1> HIDE DEF F
<1>13. \A h : P(h) => h = g
  <2> SUFFICES ASSUME NEW h, P(h) PROVE h = g
    OBVIOUS
  <2> DEFINE Held == {n \in 0..N : h[n] = g[n]}
  <2>1. DOMAIN h = 0..N /\ h = [n \in 0..N |-> h[n]]
    BY DEF P
  <2>2. h[0] = <<>>
    <3>1. h[0] = Body(h, 0)
      BY <1>1 DEF P
    <3>2. QED
      BY <1>7, <3>1, Zenon
  <2>3. \A n \in 1..N : h[n] = h[n - 1] \o texts[n]
    <3>1. \A n \in 1..N : h[n] = Body(h, n)
      BY <1>1 DEF P
    <3>2. QED
      BY <1>7, <3>1, Zenon
  <2>4. 0 \in Held
    BY <1>1, <1>9, <2>2
  <2>5. ASSUME NEW n \in 1..N, n - 1 \in Held PROVE n \in Held
    <3>1. n \in 0..N /\ h[n - 1] = g[n - 1]
      BY <1>1, <2>5
    <3>2. h[n] = g[n]
      BY <1>10, <2>3, <3>1, Zenon
    <3>3. QED
      BY <3>1, <3>2
  <2> HIDE DEF Held
  <2>6. \A n \in 0..N : n \in Held
    BY <1>1, <2>4, <2>5, Induction
  <2>7. QED
    BY <1>9, <2>1, <2>6 DEF Held
<1>14. F = g
  BY <1>12, <1>13
<1>15. QED
  BY <1>6, <1>9, <1>10, <1>14 DEF N, T, JoinLoop

----------------------------------------------------------------------------
(***************************************************************************)
(* Picking and joining                                                     *)
(***************************************************************************)
\* Concatenation and appending, under names the provers do not look into.
Cat(s, t) == s \o t
Add(s, x) == Append(s, x)

\* Concatenation: its type, the empty text, and the order of the steps.
LEMMA CatType == ASSUME NEW S, NEW s \in Seq(S), NEW t \in Seq(S) PROVE Cat(s, t) \in Seq(S)
  BY ConcatProperties DEF Cat

LEMMA CatAssoc ==
    ASSUME NEW S, NEW s \in Seq(S), NEW t \in Seq(S), NEW u \in Seq(S)
    PROVE  Cat(Cat(s, t), u) = Cat(s, Cat(t, u))
  BY ConcatAssociative DEF Cat

LEMMA CatAdd ==
    ASSUME NEW S, NEW s \in Seq(S), NEW t \in Seq(S), NEW x \in S
    PROVE  Add(Cat(s, t), x) = Cat(s, Add(t, x))
<1>1. /\ Append(s \o t, x) = (s \o t) \o <<x>> /\ Append(t, x) = t \o <<x>>
      /\ <<x>> \in Seq(S) /\ s \o t \in Seq(S)
  BY AppendIsConcat, ConcatProperties
<1>2. QED
  BY <1>1, ConcatAssociative DEF Cat, Add

LEMMA CatEmpty ==
    ASSUME NEW S, NEW s \in Seq(S)
    PROVE  Cat(s, <<>>) = s /\ Cat(<<>>, s) = s
  BY ConcatEmptySeq DEF Cat

\* What is picked is in the set of the items that may be.
LEMMA PickedType ==
    ASSUME NEW items, NEW taken, NEW S, Len(items) \in Nat,
           \A n \in 1..Len(items) : taken[n] => items[n] \in S
    PROVE  Picked(items, taken) \in Seq(S)
<1>1. PICK g : PickLoop(g, items, taken, S)
  BY PickedLoop, Zenon
<1>2. QED
  BY <1>1 DEF PickLoop

\* Nothing is taken.
LEMMA PickedNone ==
    ASSUME NEW items, NEW taken, Len(items) \in Nat, \A n \in 1..Len(items) : ~taken[n]
    PROVE  Picked(items, taken) = <<>>
<1>1. \A n \in 1..Len(items) : taken[n] => items[n] \in {}
  OBVIOUS
<1>2. Picked(items, taken) \in Seq({})
  BY <1>1, PickedType, Zenon
<1>3. QED
  BY <1>2

\* Everything is taken.
LEMMA PickedAll ==
    ASSUME NEW S, NEW items \in Seq(S), NEW taken, \A n \in 1..Len(items) : taken[n]
    PROVE  Picked(items, taken) = items
<1> DEFINE N == Len(items)
<1>1. N \in Nat /\ \A n \in 1..N : items[n] \in S
  OBVIOUS
<1>2. PICK g : PickLoop(g, items, taken, S)
  BY <1>1, PickedLoop, Zenon
<1>3. /\ g \in [0..N -> Seq(S)] /\ g[0] = <<>> /\ Picked(items, taken) = g[N]
      /\ \A n \in 1..N : g[n] = Append(g[n - 1], items[n])
  BY <1>2, Zenon DEF PickLoop
<1> DEFINE Held == {n \in 0..N : Len(g[n]) = n /\ \A i \in 1..n : g[n][i] = items[i]}
<1>4. 0 \in Held
  BY <1>1, <1>3
<1>5. ASSUME NEW n \in 1..N, n - 1 \in Held PROVE n \in Held
  <2>1. /\ n - 1 \in 0..N /\ g[n - 1] \in Seq(S) /\ items[n] \in S
        /\ Len(g[n - 1]) = n - 1 /\ \A i \in 1..(n - 1) : g[n - 1][i] = items[i]
    BY <1>1, <1>3, <1>5
  <2>2. g[n] = Append(g[n - 1], items[n])
    BY <1>3
  <2> HIDE DEF N
  <2>3. Len(g[n]) = n /\ g[n][n] = items[n] /\ \A i \in 1..(n - 1) : g[n][i] = g[n - 1][i]
    BY <2>1, <2>2, AppendProperties
  <2>4. QED
    BY <2>1, <2>3
<1> HIDE DEF Held
<1>6. \A n \in 0..N : n \in Held
  BY <1>1, <1>4, <1>5, Induction
<1>7. Len(g[N]) = N /\ \A i \in 1..N : g[N][i] = items[i]
  BY <1>1, <1>6 DEF Held
<1>8. g[N] \in Seq(S)
  <2>1. N \in 0..N
    BY <1>1
  <2>2. QED
    BY <1>3, <2>1, Zenon
<1>9. QED
  BY <1>1, <1>3, <1>7, <1>8, SeqEqual

\* c is a followed by b, and the same is taken of it.
Follows(c, tc, a, ta, b, tb, S) ==
    /\ Len(a) \in Nat /\ Len(b) \in Nat /\ Len(c) = Len(a) + Len(b)
    /\ \A n \in 1..Len(a) : /\ tc[n] <=> ta[n]
                            /\ ta[n] => a[n] \in S /\ c[n] = a[n]
    /\ \A n \in 1..Len(b) : /\ tc[Len(a) + n] <=> tb[n]
                            /\ tb[n] => b[n] \in S /\ c[Len(a) + n] = b[n]

\* What is picked of two sequences is what is picked of each, in order.
LEMMA PickedConcat ==
    ASSUME NEW S, NEW a, NEW ta, NEW b, NEW tb, NEW c, NEW tc, Follows(c, tc, a, ta, b, tb, S)
    PROVE  Picked(c, tc) = Cat(Picked(a, ta), Picked(b, tb))
<1> USE DEF Follows
<1> DEFINE A == Len(a)
           B == Len(b)
           C == Len(c)
<1>1. A \in Nat /\ B \in Nat /\ C \in Nat /\ C = A + B
  OBVIOUS
<1>2. ASSUME NEW n \in 1..C, tc[n] PROVE c[n] \in S
  <2>1. CASE n \in 1..A
    BY <1>2, <2>1
  <2>2. CASE n \notin 1..A
    <3>1. PICK m \in 1..B : n = A + m
      <4>1. n - A \in 1..B /\ n = A + (n - A)
        BY <1>1, <2>2
      <4>2. QED
        BY <4>1
    <3>2. c[A + m] = b[m] /\ tb[m] /\ b[m] \in S
      BY <1>2, <3>1
    <3>3. QED
      BY <3>1, <3>2
  <2>3. QED
    BY <2>1, <2>2
<1>3. PICK g : PickLoop(g, a, ta, S)
  BY PickedLoop, Zenon
<1>4. PICK k : PickLoop(k, b, tb, S)
  BY PickedLoop, Zenon
<1>5. PICK h : PickLoop(h, c, tc, S)
  BY <1>1, <1>2, PickedLoop, Zenon
<1>6. /\ g \in [0..A -> Seq(S)] /\ g[0] = <<>> /\ Picked(a, ta) = g[A]
      /\ \A n \in 1..A : g[n] = IF ta[n] THEN Append(g[n - 1], a[n]) ELSE g[n - 1]
  BY <1>3, Zenon DEF PickLoop
<1>7. /\ k \in [0..B -> Seq(S)] /\ k[0] = <<>> /\ Picked(b, tb) = k[B]
      /\ \A n \in 1..B : k[n] = IF tb[n] THEN Append(k[n - 1], b[n]) ELSE k[n - 1]
  BY <1>4, Zenon DEF PickLoop
<1>8. /\ h \in [0..C -> Seq(S)] /\ h[0] = <<>> /\ Picked(c, tc) = h[C]
      /\ \A n \in 1..C : h[n] = IF tc[n] THEN Append(h[n - 1], c[n]) ELSE h[n - 1]
  BY <1>5, Zenon DEF PickLoop
<1>9. /\ \A n \in 1..A : (tc[n] <=> ta[n]) /\ (ta[n] => c[n] = a[n])
      /\ \A n \in 1..B : (tc[A + n] <=> tb[n]) /\ (tb[n] => c[A + n] = b[n] /\ b[n] \in S)
  OBVIOUS
<1> HIDE DEF A, B, C
<1> DEFINE InA == {n \in 0..A : h[n] = g[n]}
           InB == {n \in 0..B : h[A + n] = g[A] \o k[n]}
<1>10. \A n \in 0..A : n \in InA
  <2>1. 0 \in InA
    BY <1>1, <1>6, <1>8
  <2>2. ASSUME NEW n \in 1..A, n - 1 \in InA PROVE n \in InA
    <3>1. n \in 1..C /\ n \in 0..A /\ h[n - 1] = g[n - 1]
      BY <1>1, <2>2
    <3>2. h[n] = g[n]
      <4>1. /\ g[n] = IF ta[n] THEN Append(g[n - 1], a[n]) ELSE g[n - 1]
            /\ h[n] = IF tc[n] THEN Append(g[n - 1], c[n]) ELSE g[n - 1]
            /\ tc[n] <=> ta[n]
            /\ ta[n] => c[n] = a[n]
        BY <1>6, <1>8, <1>9, <3>1, Zenon
      <4>2. QED
        BY <4>1, Zenon
    <3>3. QED
      BY <3>1, <3>2
  <2> HIDE DEF InA
  <2>3. QED
    BY <1>1, <2>1, <2>2, Induction
<1>11. h[A] = g[A] /\ g[A] \in Seq(S)
  <2>1. A \in 0..A
    BY <1>1
  <2>2. h[A] = g[A]
    BY <1>10, <2>1
  <2>3. QED
    BY <1>6, <2>1, <2>2, Zenon
<1>12. \A n \in 0..B : n \in InB
  <2>1. 0 \in InB
    <3>1. 0 \in 0..B /\ A + 0 = A
      BY <1>1
    <3>2. g[A] \o <<>> = g[A]
      BY <1>11, ConcatEmptySeq
    <3>3. h[A + 0] = g[A] \o k[0]
      BY <1>11, <1>7, <3>1, <3>2, Zenon
    <3>4. QED
      BY <3>1, <3>3, Zenon
  <2>2. ASSUME NEW n \in 1..B, n - 1 \in InB PROVE n \in InB
    <3>1. /\ A + n \in 1..C /\ n \in 0..B /\ n - 1 \in 0..B /\ (A + n) - 1 = A + (n - 1)
      BY <1>1
    <3>2. h[A + (n - 1)] = g[A] \o k[n - 1]
      BY <2>2
    <3>3. /\ A + n \in 1..C /\ n \in 0..B /\ (A + n) - 1 = A + (n - 1)
          /\ h[A + (n - 1)] = g[A] \o k[n - 1] /\ k[n - 1] \in Seq(S)
      BY <1>7, <3>1, <3>2, Zenon
    <3>4. h[A + n] = IF tb[n] THEN Append(g[A] \o k[n - 1], b[n]) ELSE g[A] \o k[n - 1]
      <4>1. /\ h[A + n] = IF tc[A + n] THEN Append(h[(A + n) - 1], c[A + n]) ELSE h[(A + n) - 1]
            /\ h[(A + n) - 1] = g[A] \o k[n - 1]
        BY <1>8, <3>3, Zenon
      <4>2. (tb[n] => c[A + n] = b[n]) /\ (tc[A + n] <=> tb[n])
        BY <1>9, Zenon
      <4>3. QED
        BY <4>1, <4>2, Zenon
    <3>5. k[n] = IF tb[n] THEN Append(k[n - 1], b[n]) ELSE k[n - 1]
      BY <1>7, Zenon
    <3>6. tb[n] => Append(g[A] \o k[n - 1], b[n]) = g[A] \o Append(k[n - 1], b[n])
      <4>1. tb[n] => b[n] \in S
        BY <1>9, Zenon
      <4>2. QED
        <5>1. tb[n] => Add(Cat(g[A], k[n - 1]), b[n]) = Cat(g[A], Add(k[n - 1], b[n]))
          BY <1>11, <3>3, <4>1, CatAdd
        <5>2. QED
          BY <5>1, Zenon DEF Cat, Add
    <3>7. h[A + n] = g[A] \o k[n]
      BY <3>4, <3>5, <3>6, Zenon
    <3>8. QED
      BY <3>3, <3>7
  <2> HIDE DEF InB
  <2>3. QED
    BY <1>1, <2>1, <2>2, Induction
<1>13. h[C] = g[A] \o k[B]
  <2>1. B \in 0..B
    BY <1>1
  <2>2. h[A + B] = g[A] \o k[B]
    BY <1>12, <2>1
  <2>3. QED
    BY <1>1, <2>2, Zenon
<1>14. QED
  BY <1>13, <1>6, <1>7, <1>8, Zenon DEF Cat

\* What is taken and what is not are as many as there are.
LEMMA PickedSplit ==
    ASSUME NEW S, NEW items \in Seq(S), NEW ta, NEW tb,
           \A n \in 1..Len(items) : ta[n] <=> ~tb[n]
    PROVE  /\ Len(Picked(items, ta)) \in Nat /\ Len(Picked(items, tb)) \in Nat
           /\ Len(Picked(items, ta)) + Len(Picked(items, tb)) = Len(items)
<1> DEFINE N == Len(items)
<1>1. N \in Nat /\ \A n \in 1..N : items[n] \in S
  OBVIOUS
<1>2. PICK g : PickLoop(g, items, ta, S)
  BY <1>1, PickedLoop, Zenon
<1>3. PICK h : PickLoop(h, items, tb, S)
  BY <1>1, PickedLoop, Zenon
<1>4. /\ g \in [0..N -> Seq(S)] /\ g[0] = <<>> /\ Picked(items, ta) = g[N]
      /\ \A n \in 1..N : g[n] = IF ta[n] THEN Append(g[n - 1], items[n]) ELSE g[n - 1]
  BY <1>2, Zenon DEF PickLoop
<1>5. /\ h \in [0..N -> Seq(S)] /\ h[0] = <<>> /\ Picked(items, tb) = h[N]
      /\ \A n \in 1..N : h[n] = IF tb[n] THEN Append(h[n - 1], items[n]) ELSE h[n - 1]
  BY <1>3, Zenon DEF PickLoop
<1>6. \A n \in 1..N : ta[n] <=> ~tb[n]
  OBVIOUS
<1> HIDE DEF N
<1> DEFINE Held == {n \in 0..N : Len(g[n]) + Len(h[n]) = n}
<1>7. 0 \in Held
  BY <1>1, <1>4, <1>5
<1>8. ASSUME NEW n \in 1..N, n - 1 \in Held PROVE n \in Held
  <2>1. /\ n \in 0..N /\ g[n - 1] \in Seq(S) /\ h[n - 1] \in Seq(S) /\ items[n] \in S
        /\ Len(g[n - 1]) + Len(h[n - 1]) = n - 1
    <3>1. n \in 0..N /\ n - 1 \in 0..N
      BY <1>1
    <3>2. Len(g[n - 1]) + Len(h[n - 1]) = n - 1
      BY <1>8, Zenon
    <3>3. QED
      BY <1>1, <1>4, <1>5, <3>1, <3>2, Zenon
  <2>2. /\ Len(Append(g[n - 1], items[n])) = Len(g[n - 1]) + 1
        /\ Len(Append(h[n - 1], items[n])) = Len(h[n - 1]) + 1
        /\ Len(g[n - 1]) \in Nat /\ Len(h[n - 1]) \in Nat
    BY <2>1, AppendProperties
  <2>3. \/ g[n] = Append(g[n - 1], items[n]) /\ h[n] = h[n - 1]
        \/ g[n] = g[n - 1] /\ h[n] = Append(h[n - 1], items[n])
    BY <1>4, <1>5, <1>6, Zenon
  <2>4. Len(g[n]) + Len(h[n]) = n
    <3> DEFINE u == Append(g[n - 1], items[n])
               v == Append(h[n - 1], items[n])
    <3>1. /\ Len(u) = Len(g[n - 1]) + 1 /\ Len(v) = Len(h[n - 1]) + 1
          /\ (g[n] = u /\ h[n] = h[n - 1]) \/ (g[n] = g[n - 1] /\ h[n] = v)
      BY <2>2, <2>3
    <3>2. Len(g[n - 1]) + Len(h[n - 1]) = n - 1
      BY <2>1, Zenon
    <3>3. n \in Nat
      BY <1>1
    <3>4. Len(g[n - 1]) \in Nat /\ Len(h[n - 1]) \in Nat
      BY <2>2
    <3> HIDE DEF u, v
    <3>5. \/ Len(g[n]) = Len(g[n - 1]) + 1 /\ Len(h[n]) = Len(h[n - 1])
          \/ Len(g[n]) = Len(g[n - 1]) /\ Len(h[n]) = Len(h[n - 1]) + 1
      BY <3>1, Zenon
    <3> DEFINE x == Len(g[n - 1])
               y == Len(h[n - 1])
               xx == Len(g[n])
               yy == Len(h[n])
    <3>6. /\ x \in Nat /\ y \in Nat /\ x + y = n - 1
          /\ (xx = x + 1 /\ yy = y) \/ (xx = x /\ yy = y + 1)
      BY <3>2, <3>4, <3>5, Zenon
    <3> HIDE DEF x, y, xx, yy
    <3>7. xx + yy = n
      BY <3>6, <3>3
    <3>8. QED
      BY <3>7 DEF xx, yy
  <2>5. QED
    BY <2>1, <2>4
<1> HIDE DEF Held
<1>9. \A n \in 0..N : n \in Held
  BY <1>1, <1>7, <1>8, Induction
<1>10. Len(g[N]) + Len(h[N]) = N /\ g[N] \in Seq(S) /\ h[N] \in Seq(S)
  BY <1>1, <1>9, <1>4, <1>5 DEF Held
<1>11. Len(g[N]) \in Nat /\ Len(h[N]) \in Nat
  BY <1>10, LenProperties
<1>12. QED
  BY <1>10, <1>11, <1>4, <1>5 DEF N
\* What is joined: of no text, of one, and of two sequences of texts.
LEMMA JoinedType ==
    ASSUME NEW S, NEW texts \in Seq(Seq(S))
    PROVE  Joined(texts) \in Seq(S)
<1>1. Len(texts) \in Nat /\ \A n \in 1..Len(texts) : texts[n] \in Seq(S)
  OBVIOUS
<1>2. PICK g : JoinLoop(g, texts, S)
  BY <1>1, JoinedLoop, Zenon
<1>3. g \in [0..Len(texts) -> Seq(S)] /\ Joined(texts) = g[Len(texts)]
  BY <1>2, Zenon DEF JoinLoop
<1>4. QED
  BY <1>1, <1>3

LEMMA JoinedConcat ==
    ASSUME NEW S, NEW a \in Seq(Seq(S)), NEW b \in Seq(Seq(S))
    PROVE  Joined(Cat(a, b)) = Cat(Joined(a), Joined(b))
<1> DEFINE c == a \o b
           A == Len(a)
           B == Len(b)
           C == Len(c)
<1>1. /\ A \in Nat /\ B \in Nat /\ C \in Nat /\ C = A + B /\ c \in Seq(Seq(S))
      /\ \A n \in 1..A : c[n] = a[n] /\ a[n] \in Seq(S)
      /\ \A n \in 1..B : c[A + n] = b[n] /\ b[n] \in Seq(S)
      /\ \A n \in 1..C : c[n] \in Seq(S)
  <2>1. a \o b \in Seq(Seq(S)) /\ Len(a \o b) = Len(a) + Len(b)
    BY ConcatProperties
  <2>2. \A n \in 1..A : c[n] = a[n]
    BY ConcatProperties
  <2>3. \A n \in 1..B : c[A + n] = b[n]
    BY ConcatProperties
  <2> HIDE DEF c
  <2>4. QED
    BY <2>1, <2>2, <2>3 DEF c
<1> HIDE DEF c
<1>2. PICK g : JoinLoop(g, a, S)
  BY <1>1, JoinedLoop, Zenon
<1>3. PICK k : JoinLoop(k, b, S)
  BY <1>1, JoinedLoop, Zenon
<1>4. PICK h : JoinLoop(h, c, S)
  BY <1>1, JoinedLoop, Zenon
<1>5. /\ g \in [0..A -> Seq(S)] /\ g[0] = <<>> /\ Joined(a) = g[A]
      /\ \A n \in 1..A : g[n] = g[n - 1] \o a[n]
  BY <1>2, Zenon DEF JoinLoop
<1>6. /\ k \in [0..B -> Seq(S)] /\ k[0] = <<>> /\ Joined(b) = k[B]
      /\ \A n \in 1..B : k[n] = k[n - 1] \o b[n]
  BY <1>3, Zenon DEF JoinLoop
<1>7. /\ h \in [0..C -> Seq(S)] /\ h[0] = <<>> /\ Joined(c) = h[C]
      /\ \A n \in 1..C : h[n] = h[n - 1] \o c[n]
  BY <1>4, Zenon DEF JoinLoop
<1> HIDE DEF A, B, C
<1> DEFINE InA == {n \in 0..A : h[n] = g[n]}
           InB == {n \in 0..B : h[A + n] = g[A] \o k[n]}
<1>8. \A n \in 0..A : n \in InA
  <2>1. 0 \in InA
    BY <1>1, <1>5, <1>7
  <2>2. ASSUME NEW n \in 1..A, n - 1 \in InA PROVE n \in InA
    <3>1. n \in 1..C /\ n \in 0..A /\ h[n - 1] = g[n - 1]
      BY <1>1, <2>2
    <3>2. h[n] = g[n]
      BY <1>1, <1>5, <1>7, <3>1, Zenon
    <3>3. QED
      BY <3>1, <3>2
  <2> HIDE DEF InA
  <2>3. QED
    BY <1>1, <2>1, <2>2, Induction
<1>9. h[A] = g[A] /\ g[A] \in Seq(S)
  <2>1. A \in 0..A
    BY <1>1
  <2>2. h[A] = g[A]
    BY <1>8, <2>1
  <2>3. QED
    BY <1>5, <2>1, <2>2, Zenon
<1>10. \A n \in 0..B : n \in InB
  <2>1. 0 \in InB
    <3>1. 0 \in 0..B /\ A + 0 = A
      BY <1>1
    <3>2. g[A] \o <<>> = g[A]
      BY <1>9, ConcatEmptySeq
    <3>3. h[A + 0] = g[A] \o k[0]
      BY <1>9, <1>6, <3>1, <3>2, Zenon
    <3>4. QED
      BY <3>1, <3>3, Zenon
  <2>2. ASSUME NEW n \in 1..B, n - 1 \in InB PROVE n \in InB
    <3>1. /\ A + n \in 1..C /\ n \in 0..B /\ n - 1 \in 0..B /\ (A + n) - 1 = A + (n - 1)
      BY <1>1
    <3>2. h[A + (n - 1)] = g[A] \o k[n - 1]
      BY <2>2
    <3>3. /\ A + n \in 1..C /\ n \in 0..B /\ (A + n) - 1 = A + (n - 1)
          /\ h[A + (n - 1)] = g[A] \o k[n - 1] /\ k[n - 1] \in Seq(S)
      BY <1>6, <3>1, <3>2, Zenon
    <3>4. h[A + n] = (g[A] \o k[n - 1]) \o b[n]
      BY <1>1, <1>7, <3>3, Zenon
    <3>5. k[n] = k[n - 1] \o b[n]
      BY <1>6, Zenon
    <3>6. (g[A] \o k[n - 1]) \o b[n] = g[A] \o (k[n - 1] \o b[n])
      <4>1. b[n] \in Seq(S)
        BY <1>1
      <4>2. QED
        <5>1. Cat(Cat(g[A], k[n - 1]), b[n]) = Cat(g[A], Cat(k[n - 1], b[n]))
          BY <1>9, <3>3, <4>1, CatAssoc
        <5>2. QED
          BY <5>1, Zenon DEF Cat
    <3>7. h[A + n] = g[A] \o k[n]
      BY <3>4, <3>5, <3>6, Zenon
    <3>8. QED
      BY <3>3, <3>7
  <2> HIDE DEF InB
  <2>3. QED
    BY <1>1, <2>1, <2>2, Induction
<1>11. h[C] = g[A] \o k[B]
  <2>1. B \in 0..B
    BY <1>1
  <2>2. h[A + B] = g[A] \o k[B]
    BY <1>10, <2>1
  <2>3. QED
    BY <1>1, <2>2, Zenon
<1>12. QED
  BY <1>11, <1>5, <1>6, <1>7, Zenon DEF c, Cat

LEMMA JoinedNone == Joined(<<>>) = <<>>
<1>1. <<>> \in Seq(Seq({}))
  OBVIOUS
<1>2. Joined(<<>>) \in Seq({})
  BY <1>1, JoinedType, Zenon
<1>3. QED
  BY <1>2

LEMMA JoinedOne ==
    ASSUME NEW S, NEW t \in Seq(S)
    PROVE  Joined(<<t>>) = t
<1> DEFINE texts == <<t>>
<1>1. Len(texts) = 1 /\ Len(texts) \in Nat /\ \A n \in 1..Len(texts) : texts[n] \in Seq(S)
  OBVIOUS
<1>2. texts[1] = t
  OBVIOUS
<1> HIDE DEF texts
<1>3. PICK g : JoinLoop(g, texts, S)
  BY <1>1, JoinedLoop, Zenon
<1>4. /\ g[0] = <<>> /\ Joined(texts) = g[Len(texts)]
      /\ \A n \in 1..Len(texts) : g[n] = g[n - 1] \o texts[n]
  BY <1>3, Zenon DEF JoinLoop
<1>5. Joined(texts) = <<>> \o t
  <2>1. 1 \in 1..1 /\ 1 - 1 = 0
    OBVIOUS
  <2>2. g[1] = g[0] \o t
    BY <1>1, <1>2, <1>4, <2>1
  <2>3. QED
    BY <1>1, <1>4, <2>2, Zenon
<1>6. QED
  BY <1>5, ConcatEmptySeq DEF texts

----------------------------------------------------------------------------
(***************************************************************************)
(* What is read of a text                                                  *)
(***************************************************************************)
\* The labels of the units, and the units.
Words == {"http", "stream", "up", "down", "count", "count up", "count down", "generation",
          "servers", "rise", "fall", "active", "head", "end", "[", "]", ","}
Units == [text : Words, n : Nat]
RowRecords == [index : Nat, down : BOOLEAN]
\* The labels of the rows: their sources.
RowNames == {"http", "stream"}

\* The text does not end between the number of a row and its status.
Closed(text) == text = <<>> \/ text[Len(text)].text \notin RowNames

\* The items a reader finds at the units of a text.
NumberItems(text) == [i \in DOMAIN text |-> text[i].n]
RowItem(text, i) == [index |-> text[i].n, down |-> i < Len(text) /\ text[i + 1].text = "down"]
RowItems(text) == [i \in DOMAIN text |-> RowItem(text, i)]

\* What is read of a text: rows of a source, or numbers of any other label.
Reading(text, label) ==
    IF label \in RowNames THEN ReadRows(text, label) ELSE ReadNumbers(text, label)
\* What is read, by its label, and the type it is of.
Items(text, label) == IF label \in RowNames THEN RowItems(text) ELSE NumberItems(text)
ItemSet(label) == IF label \in RowNames THEN RowRecords ELSE Nat

\* A reading picks the items that have the label.
LEMMA ReadingPicked ==
    ASSUME NEW text, NEW label
    PROVE  Reading(text, label) = Picked(Items(text, label), Labelled(text, label))
<1>1. ReadNumbers(text, label) = Picked(NumberItems(text), Labelled(text, label))
  BY Zenon DEF ReadNumbers, NumberItems
<1>2. ReadRows(text, label) = Picked(RowItems(text), Labelled(text, label))
  BY Zenon DEF ReadRows, RowItems, RowItem
<1>3. QED
  BY <1>1, <1>2, Zenon DEF Reading, Items

\* A text, item by item.
Itemized(text, label) ==
    /\ Len(text) \in Nat
    /\ \A i \in 1..Len(text) : text[i] \in Units /\ text[i].n \in Nat
    /\ Items(text, label) \in Seq(ItemSet(label))
    /\ Len(Items(text, label)) = Len(text)
    /\ \A i \in 1..Len(text) :
          /\ Labelled(text, label)[i] <=> text[i].text = label
          /\ Items(text, label)[i] \in ItemSet(label)
          /\ Items(text, label)[i] = IF label \in RowNames THEN RowItem(text, i) ELSE text[i].n

\* Every text can be read item by item.
LEMMA ItemTypes ==
    ASSUME NEW text \in Seq(Units), NEW label
    PROVE  Itemized(text, label)
<1> DEFINE N == Len(text)
<1>1. N \in Nat /\ DOMAIN text = 1..N /\ \A i \in 1..N : text[i] \in Units
  OBVIOUS
<1>2. \A i \in 1..N : text[i].n \in Nat
  BY <1>1 DEF Units
<1>3. NumberItems(text) \in [1..N -> Nat] /\ \A i \in 1..N : NumberItems(text)[i] = text[i].n
  BY <1>1, <1>2 DEF NumberItems
<1>4. /\ RowItems(text) \in [1..N -> RowRecords]
      /\ \A i \in 1..N : RowItems(text)[i] = RowItem(text, i)
  <2>1. \A i \in 1..N : RowItem(text, i) \in RowRecords
    <3> SUFFICES ASSUME NEW i \in 1..N PROVE RowItem(text, i) \in RowRecords
      OBVIOUS
    <3> DEFINE b == i < Len(text) /\ text[i + 1].text = "down"
    <3>1. b \in BOOLEAN
      OBVIOUS
    <3>2. text[i].n \in Nat
      BY <1>2
    <3> HIDE DEF b
    <3>3. [index |-> text[i].n, down |-> b] \in RowRecords
      BY <3>1, <3>2 DEF RowRecords
    <3>4. QED
      BY <3>3, Zenon DEF b, RowItem
  <2>2. RowItems(text) = [i \in 1..N |-> RowItem(text, i)]
    BY <1>1, Zenon DEF RowItems
  <2>3. QED
    BY <2>1, <2>2
<1> HIDE DEF N
<1>5. ASSUME NEW i \in 1..N PROVE Labelled(text, label)[i] <=> text[i].text = label
  <2>1. Labelled(text, label) = [k \in 1..N |-> text[k].text = label]
    BY <1>1, Zenon DEF Labelled
  <2>2. QED
    BY <2>1
<1>6. NumberItems(text) \in Seq(Nat) /\ Len(NumberItems(text)) = N
  BY <1>1, <1>3
<1>7. RowItems(text) \in Seq(RowRecords) /\ Len(RowItems(text)) = N
  BY <1>1, <1>4
<1>8. /\ Items(text, label) \in Seq(ItemSet(label))
      /\ Len(Items(text, label)) = N
      /\ \A i \in 1..N :
            /\ Labelled(text, label)[i] <=> text[i].text = label
            /\ Items(text, label)[i] \in ItemSet(label)
            /\ Items(text, label)[i] = IF label \in RowNames THEN RowItem(text, i) ELSE text[i].n
  <2>1. \A i \in 1..N : RowItems(text)[i] \in RowRecords /\ NumberItems(text)[i] \in Nat
    BY <1>3, <1>4
  <2>2. CASE label \in RowNames
    <3>1. Items(text, label) = RowItems(text) /\ ItemSet(label) = RowRecords
      BY <2>2, Zenon DEF Items, ItemSet
    <3>2. QED
      BY <1>4, <1>5, <1>7, <2>1, <2>2, <3>1, Zenon
  <2>3. CASE label \notin RowNames
    <3>1. Items(text, label) = NumberItems(text) /\ ItemSet(label) = Nat
      BY <2>3, Zenon DEF Items, ItemSet
    <3>2. QED
      BY <1>3, <1>5, <1>6, <2>1, <2>3, <3>1, Zenon
  <2>4. QED
    BY <2>2, <2>3, Zenon
<1>9. QED
  BY <1>1, <1>2, <1>8, Zenon DEF N, Itemized

\* What is read is of the type its label stands for.
LEMMA ReadingType ==
    ASSUME NEW text \in Seq(Units), NEW label
    PROVE  Reading(text, label) \in Seq(ItemSet(label))
<1>1. Itemized(text, label)
  BY ItemTypes, Zenon
<1>2. /\ Len(Items(text, label)) \in Nat
      /\ \A i \in 1..Len(Items(text, label)) :
            Labelled(text, label)[i] => Items(text, label)[i] \in ItemSet(label)
  BY <1>1, Zenon DEF Itemized
<1>3. Picked(Items(text, label), Labelled(text, label)) \in Seq(ItemSet(label))
  BY <1>2, PickedType, Zenon
<1>4. QED
  BY <1>3, ReadingPicked, Zenon

\* c is a, then b.
Chained(c, a, b) ==
    /\ Len(a) \in Nat /\ Len(b) \in Nat /\ Len(c) = Len(a) + Len(b)
    /\ \A i \in 1..Len(a) : i \in 1..Len(c) /\ c[i] = a[i]
    /\ \A i \in 1..Len(b) : Len(a) + i \in 1..Len(c) /\ c[Len(a) + i] = b[i]

\* A concatenation is its two parts.
LEMMA CatChained ==
    ASSUME NEW S, NEW a \in Seq(S), NEW b \in Seq(S)
    PROVE  Chained(Cat(a, b), a, b)
<1>1. /\ Len(a \o b) = Len(a) + Len(b) /\ Len(a) \in Nat /\ Len(b) \in Nat
      /\ \A i \in 1..Len(a) : (a \o b)[i] = a[i]
      /\ \A i \in 1..Len(b) : (a \o b)[Len(a) + i] = b[i]
  BY ConcatProperties
<1> DEFINE c == a \o b
<1> HIDE DEF c
<1>2. /\ Len(c) = Len(a) + Len(b) /\ Len(a) \in Nat /\ Len(b) \in Nat
      /\ \A i \in 1..Len(a) : c[i] = a[i]
      /\ \A i \in 1..Len(b) : c[Len(a) + i] = b[i]
  BY <1>1 DEF c
<1>3. Chained(c, a, b)
  BY <1>2 DEF Chained
<1>4. QED
  BY <1>3 DEF c, Cat

\* What is read of two texts is what is read of each, when the first does not end
\* within a row.
LEMMA ReadingCat ==
    ASSUME NEW a \in Seq(Units), NEW b \in Seq(Units), NEW label, Closed(a)
    PROVE  Reading(Cat(a, b), label) = Cat(Reading(a, label), Reading(b, label))
<1> DEFINE c == Cat(a, b)
<1>1. Chained(c, a, b) /\ c \in Seq(Units)
  BY CatChained, CatType, Zenon
<1> HIDE DEF c
<1>2. Itemized(a, label) /\ Itemized(b, label) /\ Itemized(c, label)
  BY <1>1, ItemTypes, Zenon
<1>3. ASSUME NEW i \in 1..Len(a), a[i].text = label
      PROVE  Items(c, label)[i] = Items(a, label)[i]
  <2>1. i \in 1..Len(c) /\ c[i] = a[i]
    BY <1>1, Zenon DEF Chained
  <2>2. CASE label \in RowNames
    <3>1. i # Len(a) /\ a # <<>>
      BY <1>3, <2>2 DEF Closed
    <3>2. i < Len(a) /\ i < Len(c) /\ i + 1 \in 1..Len(a)
      BY <1>1, <3>1 DEF Chained
    <3>3. c[i + 1] = a[i + 1]
      BY <1>1, <3>2, Zenon DEF Chained
    <3>4. RowItem(c, i) = RowItem(a, i)
      BY <2>1, <3>2, <3>3 DEF RowItem
    <3>5. QED
      BY <1>2, <2>1, <2>2, <3>4, Zenon DEF Itemized
  <2>3. CASE label \notin RowNames
    BY <1>2, <2>1, <2>3, Zenon DEF Itemized
  <2>4. QED
    BY <2>2, <2>3, Zenon
<1>4. ASSUME NEW i \in 1..Len(b)
      PROVE  Items(c, label)[Len(a) + i] = Items(b, label)[i]
  <2>1. Len(a) + i \in 1..Len(c) /\ c[Len(a) + i] = b[i]
    BY <1>1, Zenon DEF Chained
  <2>2. CASE label \in RowNames
    <3>1. Len(a) + i < Len(c) <=> i < Len(b)
      BY <1>1 DEF Chained
    <3>2. ASSUME i < Len(b) PROVE c[(Len(a) + i) + 1] = b[i + 1]
      <4>1. i + 1 \in 1..Len(b) /\ (Len(a) + i) + 1 = Len(a) + (i + 1)
        BY <1>1, <3>2 DEF Chained
      <4>2. c[Len(a) + (i + 1)] = b[i + 1]
        BY <1>1, <4>1, Zenon DEF Chained
      <4>3. QED
        BY <4>1, <4>2, Zenon
    <3>3. RowItem(c, Len(a) + i) = RowItem(b, i)
      BY <2>1, <3>1, <3>2 DEF RowItem
    <3>4. QED
      BY <1>2, <2>1, <2>2, <3>3, Zenon DEF Itemized
  <2>3. CASE label \notin RowNames
    BY <1>2, <2>1, <2>3, Zenon DEF Itemized
  <2>4. QED
    BY <2>2, <2>3, Zenon
<1> DEFINE la == Items(a, label)
           lb == Items(b, label)
           lc == Items(c, label)
           ta == Labelled(a, label)
           tb == Labelled(b, label)
           tc == Labelled(c, label)
<1>5. /\ Len(la) = Len(a) /\ Len(lb) = Len(b) /\ Len(lc) = Len(c)
      /\ \A i \in 1..Len(a) : (ta[i] <=> a[i].text = label) /\ la[i] \in ItemSet(label)
      /\ \A i \in 1..Len(b) : (tb[i] <=> b[i].text = label) /\ lb[i] \in ItemSet(label)
      /\ \A i \in 1..Len(c) : tc[i] <=> c[i].text = label
  BY <1>2, Zenon DEF Itemized
<1>6. \A i \in 1..Len(a) : ta[i] => lc[i] = la[i]
  BY <1>3, <1>5, Zenon
<1>7. \A i \in 1..Len(b) : lc[Len(a) + i] = lb[i]
  BY <1>4, Zenon
<1>8. \A i \in 1..Len(a) : tc[i] <=> ta[i]
  BY <1>1, <1>5, Zenon DEF Chained
<1>9. \A i \in 1..Len(b) : tc[Len(a) + i] <=> tb[i]
  <2>1. ASSUME NEW i \in 1..Len(b) PROVE tc[Len(a) + i] <=> tb[i]
    <3>1. Len(a) + i \in 1..Len(c) /\ c[Len(a) + i] = b[i]
      BY <1>1, Zenon DEF Chained
    <3>2. /\ tb[i] <=> b[i].text = label
          /\ tc[Len(a) + i] <=> c[Len(a) + i].text = label
      BY <1>5, <3>1, Zenon
    <3>3. QED
      BY <3>1, <3>2, Zenon
  <2>2. QED
    BY <2>1, Zenon
<1> HIDE DEF la, lb, lc, ta, tb, tc
<1>10. Follows(lc, tc, la, ta, lb, tb, ItemSet(label))
  BY <1>1, <1>5, <1>6, <1>7, <1>8, <1>9, Zenon DEF Follows, Chained
<1>11. Picked(lc, tc) = Cat(Picked(la, ta), Picked(lb, tb))
  BY <1>10, PickedConcat
<1>12. QED
  BY <1>11, ReadingPicked, Zenon DEF c, la, lb, lc, ta, tb, tc

\* No unit has the label.
LEMMA ReadingNone ==
    ASSUME NEW text \in Seq(Units), NEW label, \A i \in 1..Len(text) : text[i].text # label
    PROVE  Reading(text, label) = <<>>
<1>1. Itemized(text, label)
  BY ItemTypes, Zenon
<1>2. /\ Len(Items(text, label)) \in Nat
      /\ \A i \in 1..Len(Items(text, label)) : ~Labelled(text, label)[i]
  BY <1>1, Zenon DEF Itemized
<1>3. Picked(Items(text, label), Labelled(text, label)) = <<>>
  BY <1>2, PickedNone, Zenon
<1>4. QED
  BY <1>3, ReadingPicked, Zenon

\* Only one item is taken.
LEMMA PickedOnly ==
    ASSUME NEW S, NEW items \in Seq(S), NEW taken, NEW k \in 1..Len(items), taken[k],
           \A i \in 1..Len(items) : i # k => ~taken[i]
    PROVE  Picked(items, taken) = <<items[k]>>
<1> DEFINE N == Len(items)
<1>1. N \in Nat /\ k \in 1..N /\ \A n \in 1..N : items[n] \in S
  OBVIOUS
<1>2. PICK g : PickLoop(g, items, taken, S)
  BY <1>1, PickedLoop, Zenon
<1>3. /\ g[0] = <<>> /\ Picked(items, taken) = g[N]
      /\ \A n \in 1..N : g[n] = IF taken[n] THEN Append(g[n - 1], items[n]) ELSE g[n - 1]
  BY <1>2, Zenon DEF PickLoop
<1>4. Append(<<>>, items[k]) = <<items[k]>>
  OBVIOUS
<1>5. taken[k] /\ \A n \in 1..N : n # k => ~taken[n]
  OBVIOUS
<1> HIDE DEF N
<1> DEFINE Held == {n \in 0..N : g[n] = IF n < k THEN <<>> ELSE <<items[k]>>}
<1>6. 0 \in Held
  BY <1>1, <1>3
<1>7. ASSUME NEW n \in 1..N, n - 1 \in Held PROVE n \in Held
  <2>1. g[n - 1] = IF n - 1 < k THEN <<>> ELSE <<items[k]>>
    BY <1>7
  <2>2. CASE n = k
    <3>1. n - 1 < k /\ ~(n < k)
      BY <1>1, <2>2
    <3>2. g[n] = <<items[k]>>
      BY <1>3, <1>4, <1>5, <2>1, <2>2, <3>1, Zenon
    <3>3. QED
      BY <3>1, <3>2
  <2>3. CASE n # k
    <3>1. n - 1 < k <=> n < k
      BY <1>1, <2>3
    <3>2. g[n] = g[n - 1]
      BY <1>3, <1>5, <2>3, Zenon
    <3>3. g[n] = IF n < k THEN <<>> ELSE <<items[k]>>
      BY <2>1, <3>1, <3>2, Zenon
    <3>4. n \in 0..N
      OBVIOUS
    <3>5. QED
      BY <3>3, <3>4
  <2>4. QED
    BY <2>2, <2>3, Zenon
<1> HIDE DEF Held
<1>8. \A n \in 0..N : n \in Held
  BY <1>1, <1>6, <1>7, Induction
<1>9. g[N] = <<items[k]>>
  BY <1>1, <1>8 DEF Held
<1>10. QED
  BY <1>3, <1>9, Zenon

\* Only one unit has the label.
LEMMA ReadingOnly ==
    ASSUME NEW text \in Seq(Units), NEW label, NEW k \in 1..Len(text), text[k].text = label,
           \A i \in 1..Len(text) : i # k => text[i].text # label
    PROVE  /\ label \in RowNames => Reading(text, label) = << RowItem(text, k) >>
           /\ label \notin RowNames => Reading(text, label) = << text[k].n >>
<1>1. Itemized(text, label)
  BY ItemTypes, Zenon
<1> DEFINE items == Items(text, label)
           taken == Labelled(text, label)
<1>2. /\ Len(items) = Len(text) /\ items \in Seq(ItemSet(label))
      /\ taken[k] /\ \A i \in 1..Len(items) : i # k => ~taken[i]
      /\ label \in RowNames => items[k] = RowItem(text, k)
      /\ label \notin RowNames => items[k] = text[k].n
  BY <1>1, Zenon DEF Itemized
<1>3. k \in 1..Len(items)
  BY <1>2, Zenon
<1> HIDE DEF items, taken
<1>4. Picked(items, taken) = <<items[k]>>
  BY <1>2, <1>3, PickedOnly, Zenon
<1>5. QED
  BY <1>2, <1>4, ReadingPicked, Zenon DEF items, taken

----------------------------------------------------------------------------
(***************************************************************************)
(* What printf calls say                                                   *)
(***************************************************************************)
\* The text of a printf call.
Texts == Seq(Units) \ {<<>>}

\* What printf calls say of a label: r is what is read of their text.
Says(calls, label, r) ==
    /\ calls \in Seq(Texts) /\ calls \in Seq(Seq(Units))
    /\ Joined(calls) \in Seq(Units) /\ Closed(Joined(calls))
    /\ Reading(Joined(calls), label) = r
    /\ r \in Seq(ItemSet(label))

\* Two texts that end with a row end with a row together.
LEMMA ClosedCat ==
    ASSUME NEW a \in Seq(Units), NEW b \in Seq(Units), Closed(a), Closed(b)
    PROVE  Closed(Cat(a, b))
<1> DEFINE c == Cat(a, b)
<1>1. Chained(c, a, b) /\ c \in Seq(Units)
  BY CatChained, CatType, Zenon
<1>2. CASE b = <<>>
  <2>1. c = a
    BY <1>2, CatEmpty, Zenon
  <2>2. QED
    BY <2>1, Zenon
<1>3. CASE b # <<>>
  <2>1. Len(b) \in 1..Len(b) /\ Len(c) = Len(a) + Len(b)
    BY <1>1, <1>3 DEF Chained
  <2>2. c[Len(a) + Len(b)] = b[Len(b)]
    BY <1>1, <2>1, Zenon DEF Chained
  <2> HIDE DEF c
  <2>3. Closed(c)
    BY <1>3, <2>1, <2>2, Zenon DEF Closed
  <2>4. QED
    BY <2>3 DEF c
<1>4. QED
  BY <1>2, <1>3, Zenon

\* What two groups of calls say they say together, in order.
LEMMA SaysCat ==
    ASSUME NEW a, NEW b, NEW label, NEW r, NEW q, Says(a, label, r), Says(b, label, q)
    PROVE  Says(Cat(a, b), label, Cat(r, q))
<1> DEFINE c == Cat(a, b)
<1>1. /\ a \in Seq(Texts) /\ b \in Seq(Texts)
      /\ a \in Seq(Seq(Units)) /\ b \in Seq(Seq(Units))
      /\ Joined(a) \in Seq(Units) /\ Joined(b) \in Seq(Units)
      /\ Closed(Joined(a)) /\ Closed(Joined(b))
      /\ Reading(Joined(a), label) = r /\ Reading(Joined(b), label) = q
      /\ r \in Seq(ItemSet(label)) /\ q \in Seq(ItemSet(label))
  BY Zenon DEF Says
<1>2. c \in Seq(Texts) /\ c \in Seq(Seq(Units)) /\ Cat(r, q) \in Seq(ItemSet(label))
  BY <1>1, CatType, Zenon
<1>3. Joined(c) = Cat(Joined(a), Joined(b))
  BY <1>1, JoinedConcat, Zenon
<1>4. Joined(c) \in Seq(Units) /\ Closed(Joined(c))
  <2>1. Cat(Joined(a), Joined(b)) \in Seq(Units) /\ Closed(Cat(Joined(a), Joined(b)))
    BY <1>1, CatType, ClosedCat, Zenon
  <2>2. QED
    BY <1>3, <2>1, Zenon
<1>5. Reading(Joined(c), label) = Cat(r, q)
  <2>1. Reading(Cat(Joined(a), Joined(b)), label) =
            Cat(Reading(Joined(a), label), Reading(Joined(b), label))
    BY <1>1, ReadingCat, Zenon
  <2>2. QED
    BY <1>1, <1>3, <2>1, Zenon
<1>6. QED
  BY <1>2, <1>4, <1>5, Zenon DEF Says

\* One of them says nothing of the label.
LEMMA SaysBefore ==
    ASSUME NEW a, NEW b, NEW label, NEW r, Says(a, label, r), Says(b, label, <<>>)
    PROVE  Says(Cat(a, b), label, r)
<1>1. Says(Cat(a, b), label, Cat(r, <<>>))
  BY SaysCat, Zenon
<1>2. r \in Seq(ItemSet(label))
  BY Zenon DEF Says
<1>3. Cat(r, <<>>) = r
  BY <1>2, CatEmpty, Zenon
<1>4. QED
  BY <1>1, <1>3, Zenon

LEMMA SaysAfter ==
    ASSUME NEW a, NEW b, NEW label, NEW r, Says(a, label, <<>>), Says(b, label, r)
    PROVE  Says(Cat(a, b), label, r)
<1>1. Says(Cat(a, b), label, Cat(<<>>, r))
  BY SaysCat, Zenon
<1>2. r \in Seq(ItemSet(label))
  BY Zenon DEF Says
<1>3. Cat(<<>>, r) = r
  BY <1>2, CatEmpty, Zenon
<1>4. QED
  BY <1>1, <1>3, Zenon

\* One call.
LEMMA SaysOne ==
    ASSUME NEW t \in Texts, Closed(t), NEW label
    PROVE  Says(<<t>>, label, Reading(t, label))
<1>1. t \in Seq(Units)
  BY DEF Texts
<1>2. <<t>> \in Seq(Texts) /\ <<t>> \in Seq(Seq(Units))
  BY <1>1
<1>3. Joined(<<t>>) = t
  BY <1>1, JoinedOne, Zenon
<1>4. Reading(t, label) \in Seq(ItemSet(label))
  BY <1>1, ReadingType, Zenon
<1>5. QED
  BY <1>1, <1>2, <1>3, <1>4, Zenon DEF Says

\* What is read of the first n calls.
LEMMA SaysPrefix ==
    ASSUME NEW texts \in Seq(Texts), NEW label, \A i \in 1..Len(texts) : Closed(texts[i])
    PROVE  \E r :
              /\ Says(texts, label, r[Len(texts)])
              /\ r[0] = <<>>
              /\ \A n \in 0..Len(texts) : r[n] \in Seq(ItemSet(label))
              /\ \A n \in 1..Len(texts) : r[n] = Cat(r[n - 1], Reading(texts[n], label))
<1> DEFINE N == Len(texts)
<1>1. /\ N \in Nat /\ texts \in Seq(Seq(Units))
      /\ \A n \in 1..N : texts[n] \in Seq(Units) /\ Closed(texts[n])
  BY DEF Texts
<1>2. PICK g : JoinLoop(g, texts, Units)
  BY <1>1, JoinedLoop, Zenon
<1>3. /\ g \in [0..N -> Seq(Units)] /\ g[0] = <<>> /\ Joined(texts) = g[N]
      /\ \A n \in 1..N : g[n] = Cat(g[n - 1], texts[n])
  BY <1>2, Zenon DEF JoinLoop, Cat
<1>4. texts \in Seq(Texts)
  OBVIOUS
<1> HIDE DEF N
<1> DEFINE Held == {n \in 0..N : Closed(g[n])}
<1>5. 0 \in Held
  BY <1>1, <1>3 DEF Closed
<1>6. ASSUME NEW n \in 1..N, n - 1 \in Held PROVE n \in Held
  <2>1. n - 1 \in 0..N /\ n \in 0..N
    BY <1>1
  <2>2. g[n - 1] \in Seq(Units) /\ Closed(g[n - 1])
    BY <1>3, <1>6, <2>1
  <2>3. Closed(Cat(g[n - 1], texts[n]))
    BY <1>1, <2>2, ClosedCat, Zenon
  <2>4. Closed(g[n])
    BY <1>3, <2>3, Zenon
  <2>5. QED
    BY <2>1, <2>4
<1> HIDE DEF Held
<1>7. \A n \in 0..N : n \in Held
  BY <1>1, <1>5, <1>6, Induction
<1>8. \A n \in 0..N : Closed(g[n])
  BY <1>7 DEF Held
<1>9. \A n \in 1..N : n - 1 \in 0..N
  BY <1>1
<1> DEFINE r == [n \in 0..N |-> Reading(g[n], label)]
<1>10. \A n \in 0..N : r[n] = Reading(g[n], label)
  BY Zenon
<1> HIDE DEF r
<1>11. ASSUME NEW n \in 1..N PROVE r[n] = Cat(r[n - 1], Reading(texts[n], label))
  <2>1. n - 1 \in 0..N /\ n \in 0..N
    BY <1>1
  <2>2. g[n - 1] \in Seq(Units) /\ Closed(g[n - 1])
    BY <1>3, <1>8, <2>1
  <2>3. Reading(Cat(g[n - 1], texts[n]), label) =
            Cat(Reading(g[n - 1], label), Reading(texts[n], label))
    BY <1>1, <2>2, ReadingCat, Zenon
  <2>4. QED
    BY <1>3, <1>10, <2>1, <2>3, Zenon
<1>12. \A n \in 0..N : r[n] \in Seq(ItemSet(label))
  <2> SUFFICES ASSUME NEW n \in 0..N PROVE r[n] \in Seq(ItemSet(label))
    OBVIOUS
  <2>1. g[n] \in Seq(Units)
    BY <1>3
  <2>2. QED
    BY <1>10, <2>1, ReadingType, Zenon
<1>13. 0 \in 0..N /\ N \in 0..N
  BY <1>1
<1>14. r[0] = <<>>
  <2>1. <<>> \in Seq(Units) /\ \A i \in 1..Len(<<>>) : <<>>[i].text # label
    OBVIOUS
  <2>2. Reading(<<>>, label) = <<>>
    BY <2>1, ReadingNone, Zenon
  <2>3. QED
    BY <1>3, <1>10, <1>13, <2>2, Zenon
<1>15. Says(texts, label, r[N])
  <2>1. g[N] \in Seq(Units) /\ Closed(g[N]) /\ r[N] = Reading(g[N], label)
    BY <1>3, <1>8, <1>10, <1>13
  <2>2. QED
    BY <1>1, <1>4, <1>3, <1>12, <1>13, <2>1, Zenon DEF Says
<1>16. QED
  BY <1>11, <1>12, <1>14, <1>15, Zenon DEF N

\* Each call prints one row.
LEMMA SaysRows ==
    ASSUME NEW texts \in Seq(Texts), NEW label, NEW rows \in Seq(ItemSet(label)),
           Len(texts) = Len(rows),
           \A i \in 1..Len(texts) : Closed(texts[i]) /\ Reading(texts[i], label) = << rows[i] >>
    PROVE  Says(texts, label, rows)
<1> DEFINE N == Len(texts)
           S == ItemSet(label)
<1>1. PICK r :
              /\ Says(texts, label, r[N])
              /\ r[0] = <<>>
              /\ \A n \in 0..N : r[n] \in Seq(S)
              /\ \A n \in 1..N : r[n] = Cat(r[n - 1], Reading(texts[n], label))
  BY SaysPrefix, Zenon
<1>2. N \in Nat /\ rows \in Seq(S) /\ Len(rows) = N /\ \A n \in 1..N : rows[n] \in S
  OBVIOUS
<1>3. \A n \in 1..N : r[n] = Cat(r[n - 1], <<rows[n]>>)
  BY <1>1, Zenon
<1> HIDE DEF N, S
<1> DEFINE Held == {n \in 0..N : Len(r[n]) = n /\ \A i \in 1..n : r[n][i] = rows[i]}
<1>4. 0 \in Held
  BY <1>1, <1>2
<1>5. ASSUME NEW n \in 1..N, n - 1 \in Held PROVE n \in Held
  <2>1. n - 1 \in 0..N /\ n \in 0..N
    BY <1>2
  <2>2. /\ r[n - 1] \in Seq(S) /\ rows[n] \in S
        /\ Len(r[n - 1]) = n - 1 /\ \A i \in 1..(n - 1) : r[n - 1][i] = rows[i]
    BY <1>1, <1>2, <1>5, <2>1
  <2>3. r[n] = Append(r[n - 1], rows[n])
    BY <1>3, <2>2, AppendIsConcat DEF Cat
  <2>4. Len(r[n]) = n /\ r[n][n] = rows[n] /\ \A i \in 1..(n - 1) : r[n][i] = r[n - 1][i]
    BY <2>2, <2>3, AppendProperties
  <2>5. QED
    BY <2>1, <2>2, <2>4
<1> HIDE DEF Held
<1>6. \A n \in 0..N : n \in Held
  BY <1>2, <1>4, <1>5, Induction
<1>7. N \in 0..N
  BY <1>2
<1>8. Len(r[N]) = N /\ (\A i \in 1..N : r[N][i] = rows[i])
  BY <1>2, <1>6, <1>7 DEF Held
<1>9. r[N] \in Seq(S)
  BY <1>1, <1>7, Zenon
<1>10. r[N] = rows
  BY <1>2, <1>8, <1>9, SeqEqual
<1>11. QED
  BY <1>1, <1>10, Zenon

\* No call says anything of the label.
LEMMA SaysNothing ==
    ASSUME NEW texts \in Seq(Texts), NEW label,
           \A i \in 1..Len(texts) : Closed(texts[i]) /\ Reading(texts[i], label) = <<>>
    PROVE  Says(texts, label, <<>>)
<1> DEFINE N == Len(texts)
           S == ItemSet(label)
<1>1. PICK r :
              /\ Says(texts, label, r[N])
              /\ r[0] = <<>>
              /\ \A n \in 0..N : r[n] \in Seq(S)
              /\ \A n \in 1..N : r[n] = Cat(r[n - 1], Reading(texts[n], label))
  BY SaysPrefix, Zenon
<1>2. N \in Nat
  OBVIOUS
<1>3. \A n \in 1..N : r[n] = Cat(r[n - 1], <<>>)
  BY <1>1, Zenon
<1> HIDE DEF N, S
<1> DEFINE Held == {n \in 0..N : r[n] = <<>>}
<1>4. 0 \in Held
  BY <1>1, <1>2
<1>5. ASSUME NEW n \in 1..N, n - 1 \in Held PROVE n \in Held
  <2>1. r[n - 1] = <<>> /\ n \in 0..N
    BY <1>5
  <2>2. Cat(<<>>, <<>>) = <<>>
    BY ConcatEmptySeq DEF Cat
  <2>3. r[n] = <<>>
    BY <1>3, <2>1, <2>2, Zenon
  <2>4. QED
    BY <2>1, <2>3
<1> HIDE DEF Held
<1>6. \A n \in 0..N : n \in Held
  BY <1>2, <1>4, <1>5, Induction
<1>7. r[N] = <<>>
  BY <1>2, <1>6 DEF Held
<1>8. QED
  BY <1>1, <1>7, Zenon

----------------------------------------------------------------------------
(***************************************************************************)
(* Calls and rows                                                          *)
(***************************************************************************)
\* The labels the properties read.
Labels == {"http", "stream", "count", "count up", "count down", "generation"}

\* A label is no status and no comma.
LEMMA LabelSets ==
    ASSUME NEW label \in Labels
    PROVE  /\ label \in RowNames <=> label \in {"http", "stream"}
           /\ label # "up" /\ label # "down" /\ label # ","
  BY DEF Labels, RowNames

\* One printf call that has the label once, and one that has not.
LEMMA CallOnce ==
    ASSUME NEW t \in Texts, Closed(t), NEW label \in Labels \ RowNames, NEW k \in 1..Len(t),
           t[k].text = label, \A i \in 1..Len(t) : i # k => t[i].text # label
    PROVE  Says(<<t>>, label, << t[k].n >>)
<1>1. t \in Seq(Units)
  BY DEF Texts
<1>2. Reading(t, label) = << t[k].n >>
  BY <1>1, ReadingOnly, Zenon
<1>3. Says(<<t>>, label, Reading(t, label))
  BY SaysOne, Zenon
<1>4. QED
  BY <1>2, <1>3, Zenon

LEMMA CallQuiet ==
    ASSUME NEW t \in Texts, Closed(t), NEW label, \A i \in 1..Len(t) : t[i].text # label
    PROVE  Says(<<t>>, label, <<>>)
<1>1. t \in Seq(Units)
  BY DEF Texts
<1>2. Reading(t, label) = <<>>
  BY <1>1, ReadingNone, Zenon
<1>3. Says(<<t>>, label, Reading(t, label))
  BY SaysOne, Zenon
<1>4. QED
  BY <1>2, <1>3, Zenon

\* A row is read as it is printed, by its own source only.
LEMMA RowReads ==
    ASSUME NEW name \in RowNames, NEW row \in RowRecords
    PROVE  /\ Row(name, row) \in Texts /\ Closed(Row(name, row))
           /\ Reading(Row(name, row), name) = <<row>>
           /\ \A label \in Labels : label # name => Reading(Row(name, row), label) = <<>>
           /\ Len(Row(name, row)) = 2 /\ Row(name, row)[1].text = name
           /\ Row(name, row)[2].text \in {"up", "down"}
<1> DEFINE t == Row(name, row)
           s == IF row.down THEN "down" ELSE "up"
<1>1. /\ row.index \in Nat /\ row.down \in BOOLEAN
      /\ row = [index |-> row.index, down |-> row.down]
      /\ name \in Words /\ name # "up" /\ name # "down"
  <2>1. row.index \in Nat /\ row.down \in BOOLEAN
    BY DEF RowRecords
  <2>2. row = [index |-> row.index, down |-> row.down]
    BY DEF RowRecords
  <2>3. name = "http" \/ name = "stream"
    BY DEF RowNames
  <2>4. name \in Words /\ name # "up" /\ name # "down"
    BY <2>3 DEF Words
  <2>5. QED
    BY <2>1, <2>2, <2>4, Zenon
<1>2. s \in {"up", "down"} /\ s \in Words /\ s \notin RowNames
  <2>1. s = "up" \/ s = "down"
    BY Zenon
  <2> HIDE DEF s
  <2>2. QED
    BY <2>1 DEF RowNames, Words
<1>3. t = << [text |-> name, n |-> row.index], [text |-> s, n |-> 0] >>
  BY Zenon DEF Row, Number, Unit
<1>4. s = "down" <=> row.down
  <2>1. "up" # "down"
    OBVIOUS
  <2>2. QED
    BY <2>1, Zenon
<1> HIDE DEF t, s
<1>5. /\ [text |-> name, n |-> row.index] \in Units
      /\ [text |-> s, n |-> 0] \in Units
  BY <1>1, <1>2 DEF Units
<1>6. /\ t \in Seq(Units) /\ t # <<>> /\ Len(t) = 2
      /\ t[1].text = name /\ t[2].text = s /\ t[1].n = row.index
  BY <1>3, <1>5
<1>7. t \in Texts /\ Closed(t)
  BY <1>2, <1>6 DEF Texts, Closed
<1>8. Reading(t, name) = <<row>>
  <2>1. 1 \in 1..Len(t) /\ \A i \in 1..Len(t) : i # 1 => t[i].text # name
    BY <1>1, <1>2, <1>6
  <2>2. Reading(t, name) = << RowItem(t, 1) >>
    BY <1>6, <2>1, ReadingOnly, Zenon
  <2>3. RowItem(t, 1) = row
    <3> DEFINE b == 1 < Len(t) /\ t[1 + 1].text = "down"
    <3>1. 1 < Len(t) /\ 1 + 1 = 2
      BY <1>6
    <3>2. b <=> row.down
      BY <3>1, <1>6, <1>4, Zenon
    <3>3. b \in BOOLEAN
      OBVIOUS
    <3> HIDE DEF b
    <3>4. b = row.down
      <4>1. CASE row.down
        BY <1>1, <3>2, <3>3, <4>1
      <4>2. CASE ~row.down
        BY <1>1, <3>2, <3>3, <4>2
      <4>3. QED
        BY <4>1, <4>2, Zenon
    <3>5. [index |-> t[1].n, down |-> b] = row
      BY <1>1, <1>6, <3>4, Zenon
    <3>6. QED
      BY <3>5, Zenon DEF RowItem, b
  <2>4. QED
    BY <2>2, <2>3, Zenon
<1>9. ASSUME NEW label \in Labels, label # name PROVE Reading(t, label) = <<>>
  <2>1. label # "up" /\ label # "down"
    BY <1>9, LabelSets, Zenon
  <2>2. s # label
    BY <1>2, <2>1
  <2>3. \A i \in 1..Len(t) : i = 1 \/ i = 2
    BY <1>6
  <2>4. \A i \in 1..Len(t) : t[i].text # label
    BY <1>6, <1>9, <2>2, <2>3, Zenon
  <2>5. QED
    BY <1>6, <2>4, ReadingNone, Zenon
<1>10. QED
  BY <1>2, <1>6, <1>7, <1>8, <1>9, Zenon DEF t

\* So are the rows of a table.
LEMMA RowsSay ==
    ASSUME NEW name \in RowNames, NEW rows \in Seq(RowRecords)
    PROVE  /\ Says(Rows(name, rows), name, rows)
           /\ \A label \in Labels : label # name => Says(Rows(name, rows), label, <<>>)
<1> DEFINE texts == Rows(name, rows)
<1>1. /\ DOMAIN rows = 1..Len(rows) /\ Len(rows) \in Nat
      /\ \A i \in 1..Len(rows) : rows[i] \in RowRecords
  OBVIOUS
<1>2. \A i \in 1..Len(rows) : /\ Row(name, rows[i]) \in Texts /\ Closed(Row(name, rows[i]))
                              /\ Reading(Row(name, rows[i]), name) = <<rows[i]>>
                              /\ \A label \in Labels :
                                    label # name => Reading(Row(name, rows[i]), label) = <<>>
  BY <1>1, RowReads, Zenon
<1>3. texts = [i \in 1..Len(rows) |-> Row(name, rows[i])]
  BY <1>1, Zenon DEF Rows
<1> HIDE DEF texts
<1>4. /\ texts \in Seq(Texts) /\ Len(texts) = Len(rows)
      /\ \A i \in 1..Len(texts) : texts[i] = Row(name, rows[i])
  BY <1>1, <1>2, <1>3
<1>5. /\ \A i \in 1..Len(texts) : Closed(texts[i]) /\ Reading(texts[i], name) = <<rows[i]>>
      /\ \A label \in Labels : label # name =>
            \A i \in 1..Len(texts) : Closed(texts[i]) /\ Reading(texts[i], label) = <<>>
  BY <1>2, <1>4, Zenon
<1>6. rows \in Seq(ItemSet(name))
  BY Zenon DEF ItemSet
<1>7. Says(texts, name, rows)
  BY <1>4, <1>5, <1>6, SaysRows, Zenon
<1>8. \A label \in Labels : label # name => Says(texts, label, <<>>)
  BY <1>4, <1>5, SaysNothing, Zenon
<1>9. QED
  BY <1>7, <1>8, Zenon DEF texts

\* The comma after a row of a JSON array, or none.
Comma(comma) == comma = <<>> \/ comma = <<Unit(",")>>

\* A comma says nothing.
LEMMA CommaReads ==
    /\ <<Unit(",")>> \in Seq(Units) /\ Closed(<<Unit(",")>>) /\ <<Unit(",")>> # <<>>
    /\ \A label \in Labels : Reading(<<Unit(",")>>, label) = <<>>
<1> DEFINE comma == <<Unit(",")>>
<1>1. Unit(",") \in Units /\ Unit(",").text = ","
  BY DEF Unit, Units, Words
<1>2. PICK u \in Units : u = Unit(",") /\ u.text = ","
  BY <1>1
<1>3. comma = <<u>>
  BY <1>2, Zenon
<1> HIDE DEF comma
<1>4. comma \in Seq(Units) /\ comma[1] = u
  BY <1>3
<1>5. comma # <<>> /\ Len(comma) = 1
  BY <1>3
<1>6. comma \in Seq(Units) /\ comma # <<>> /\ Len(comma) = 1 /\ comma[1].text = ","
  BY <1>2, <1>4, <1>5, Zenon
<1>7. Closed(comma)
  <2>1. "," \notin RowNames
    BY DEF RowNames
  <2>2. QED
    BY <1>6, <2>1, Zenon DEF Closed
<1>8. \A i \in 1..Len(comma) : i = 1
  BY <1>5
<1>9. \A label \in Labels : "," # label
  BY LabelSets, Zenon
<1>10. ASSUME NEW label \in Labels PROVE Reading(comma, label) = <<>>
  <2>1. \A i \in 1..Len(comma) : comma[i].text # label
    BY <1>6, <1>8, <1>9, Zenon
  <2>2. QED
    BY <1>6, <2>1, ReadingNone, Zenon
<1>11. QED
  BY <1>6, <1>7, <1>10, Zenon DEF comma

\* A call whose text is one row.
RowSays(text, name, row) ==
    /\ text \in Texts /\ Closed(text) /\ Reading(text, name) = <<row>>
    /\ \A label \in Labels : label # name => Reading(text, label) = <<>>

\* A row of a JSON array, with its comma or without.
LEMMA JsonRowReads ==
    ASSUME NEW name \in RowNames, NEW row \in RowRecords, NEW comma, Comma(comma)
    PROVE  RowSays(Cat(Row(name, row), comma), name, row)
<1> DEFINE r == Row(name, row)
           t == Cat(r, comma)
<1>1. /\ r \in Texts /\ Closed(r) /\ Reading(r, name) = <<row>> /\ Len(r) = 2
      /\ \A label \in Labels : label # name => Reading(r, label) = <<>>
  BY RowReads, Zenon
<1>2. name \in Labels
  BY DEF RowNames, Labels
<1>3. ASSUME comma = <<>> PROVE RowSays(t, name, row)
  <2>1. t = r
    <3>1. r \in Seq(Units)
      BY <1>1 DEF Texts
    <3>2. QED
      BY <1>3, <3>1, CatEmpty, Zenon
  <2>2. QED
    BY <1>1, <2>1, Zenon DEF RowSays
<1>4. ASSUME comma = <<Unit(",")>>
      PROVE  RowSays(t, name, row)
  <2>1. comma \in Seq(Units) /\ Closed(comma) /\ comma # <<>>
    BY <1>4, CommaReads, Zenon
  <2>2. \A label \in Labels : Reading(comma, label) = <<>>
    BY <1>4, CommaReads, Zenon
  <2>3. r \in Seq(Units)
    BY <1>1 DEF Texts
  <2>4. t \in Texts /\ Closed(t)
    <3>1. t \in Seq(Units) /\ Closed(t)
      BY <1>1, <2>1, <2>3, CatType, ClosedCat, Zenon
    <3>2. Chained(t, r, comma)
      BY <2>1, <2>3, CatChained, Zenon
    <3> HIDE DEF t, r
    <3>3. t # <<>>
      <4>1. Len(t) = 2 + Len(comma) /\ Len(comma) \in Nat
        BY <1>1, <3>2, Zenon DEF Chained
      <4>2. Len(t) # 0
        BY <4>1
      <4>3. Len(<<>>) = 0
        OBVIOUS
      <4>4. QED
        BY <4>2, <4>3, Zenon
    <3>4. QED
      BY <3>1, <3>3 DEF Texts
  <2>5. ASSUME NEW label \in Labels PROVE Reading(t, label) = Reading(r, label)
    <3>1. Reading(t, label) = Cat(Reading(r, label), <<>>)
      <4>1. Reading(t, label) = Cat(Reading(r, label), Reading(comma, label))
        BY <1>1, <2>1, <2>3, ReadingCat, Zenon
      <4>2. QED
        BY <2>2, <4>1, Zenon
    <3>2. Reading(r, label) \in Seq(ItemSet(label))
      BY <2>3, ReadingType, Zenon
    <3>3. QED
      BY <3>1, <3>2, CatEmpty, Zenon
  <2>6. QED
    BY <1>1, <1>2, <2>4, <2>5, Zenon DEF RowSays
<1>5. QED
  BY <1>3, <1>4, Zenon DEF Comma

\* The rows of a JSON array are read as they are printed, with their commas.
LEMMA JsonRowsSay ==
    ASSUME NEW name \in RowNames, NEW rows \in Seq(RowRecords), NEW total
    PROVE  /\ Says(JsonRows(name, rows, total), name, rows)
           /\ \A label \in Labels : label # name => Says(JsonRows(name, rows, total), label, <<>>)
<1> DEFINE texts == JsonRows(name, rows, total)
           T(i) == Row(name, rows[i]) \o Separator(rows, i, total)
<1>1. /\ DOMAIN rows = 1..Len(rows) /\ Len(rows) \in Nat
      /\ \A i \in 1..Len(rows) : rows[i] \in RowRecords
  OBVIOUS
<1>2. ASSUME NEW i \in 1..Len(rows)
      PROVE  /\ T(i) \in Texts /\ Closed(T(i)) /\ Reading(T(i), name) = <<rows[i]>>
             /\ \A label \in Labels : label # name => Reading(T(i), label) = <<>>
  <2>1. Comma(Separator(rows, i, total))
    BY Zenon DEF Separator, Comma
  <2>2. T(i) = Cat(Row(name, rows[i]), Separator(rows, i, total))
    BY Zenon DEF Cat
  <2> HIDE DEF T
  <2>3. rows[i] \in RowRecords
    BY <1>1, Zenon
  <2> DEFINE row == rows[i]
             comma == Separator(rows, i, total)
             text == Cat(Row(name, row), comma)
  <2>4. row \in RowRecords /\ Comma(comma) /\ T(i) = text
    BY <2>1, <2>2, <2>3, Zenon
  <2> HIDE DEF row, comma
  <2>5. RowSays(text, name, row)
    BY <2>4, JsonRowReads, Zenon
  <2> HIDE DEF text
  <2>6. QED
    BY <2>4, <2>5, Zenon DEF RowSays, row
<1>3. texts = [i \in 1..Len(rows) |-> T(i)]
  BY <1>1, Zenon DEF JsonRows
<1> HIDE DEF texts, T
<1>4. /\ texts \in Seq(Texts) /\ Len(texts) = Len(rows)
      /\ \A i \in 1..Len(texts) : texts[i] = T(i)
  BY <1>1, <1>2, <1>3
<1>5. /\ \A i \in 1..Len(texts) : Closed(texts[i]) /\ Reading(texts[i], name) = <<rows[i]>>
      /\ \A label \in Labels : label # name =>
            \A i \in 1..Len(texts) : Closed(texts[i]) /\ Reading(texts[i], label) = <<>>
  BY <1>2, <1>4, Zenon
<1>6. rows \in Seq(ItemSet(name))
  BY Zenon DEF ItemSet
<1>7. Says(texts, name, rows)
  BY <1>4, <1>5, <1>6, SaysRows, Zenon
<1>8. \A label \in Labels : label # name => Says(texts, label, <<>>)
  BY <1>4, <1>5, SaysNothing, Zenon
<1>9. QED
  BY <1>7, <1>8, Zenon DEF texts

----------------------------------------------------------------------------
(***************************************************************************)
(* Filters                                                                 *)
(***************************************************************************)
\* The rows a filter selects.
Selected(flag) == {row \in RowRecords : Passes(flag, row)}

\* What a filter keeps are rows, all of them selected.
LEMMA KeptType ==
    ASSUME NEW flag, NEW rows \in Seq(RowRecords)
    PROVE  Kept(flag, rows) \in Seq(RowRecords) /\ Kept(flag, rows) \in Seq(Selected(flag))
<1> DEFINE taken == [i \in DOMAIN rows |-> Passes(flag, rows[i])]
<1>1. /\ Len(rows) \in Nat /\ DOMAIN rows = 1..Len(rows)
      /\ \A i \in 1..Len(rows) : rows[i] \in RowRecords
  OBVIOUS
<1>2. \A i \in 1..Len(rows) : taken[i] <=> Passes(flag, rows[i])
  BY <1>1, Zenon
<1> HIDE DEF taken
<1>3. \A i \in 1..Len(rows) : taken[i] => rows[i] \in Selected(flag) /\ rows[i] \in RowRecords
  BY <1>1, <1>2, Zenon DEF Selected
<1>4. Picked(rows, taken) \in Seq(Selected(flag)) /\ Picked(rows, taken) \in Seq(RowRecords)
  BY <1>1, <1>3, PickedType, Zenon
<1>5. QED
  BY <1>4, Zenon DEF Kept, taken

\* Filtering again changes nothing.
LEMMA KeptTwice ==
    ASSUME NEW flag, NEW rows \in Seq(RowRecords)
    PROVE  Kept(flag, Kept(flag, rows)) = Kept(flag, rows)
<1> DEFINE kept == Kept(flag, rows)
           taken == [i \in DOMAIN kept |-> Passes(flag, kept[i])]
<1>1. kept \in Seq(Selected(flag))
  BY KeptType, Zenon
<1> HIDE DEF kept
<1>2. DOMAIN kept = 1..Len(kept) /\ \A i \in 1..Len(kept) : kept[i] \in Selected(flag)
  BY <1>1
<1>3. \A i \in 1..Len(kept) : taken[i]
  <2>1. \A i \in 1..Len(kept) : taken[i] <=> Passes(flag, kept[i])
    BY <1>2, Zenon
  <2> HIDE DEF taken
  <2>2. QED
    BY <1>2, <2>1, Zenon DEF Selected
<1> HIDE DEF taken
<1>4. Picked(kept, taken) = kept
  BY <1>1, <1>3, PickedAll, Zenon
<1>5. QED
  BY <1>4, Zenon DEF Kept, taken, kept

\* A row is up or down.
LEMMA KeptSplit ==
    ASSUME NEW rows \in Seq(RowRecords)
    PROVE  /\ Len(Kept("up", rows)) \in Nat /\ Len(Kept("down", rows)) \in Nat
           /\ Len(Kept("up", rows)) + Len(Kept("down", rows)) = Len(rows)
<1> DEFINE up == [i \in DOMAIN rows |-> Passes("up", rows[i])]
           down == [i \in DOMAIN rows |-> Passes("down", rows[i])]
<1>1. DOMAIN rows = 1..Len(rows)
  OBVIOUS
<1>2. \A i \in 1..Len(rows) : /\ up[i] <=> Passes("up", rows[i])
                              /\ down[i] <=> Passes("down", rows[i])
  BY <1>1, Zenon
<1> HIDE DEF up, down
<1>3. \A row : Passes("up", row) <=> ~Passes("down", row)
  BY DEF Passes
<1>4. \A i \in 1..Len(rows) : up[i] <=> ~down[i]
  BY <1>2, <1>3, Zenon
<1>5. /\ Len(Picked(rows, up)) \in Nat /\ Len(Picked(rows, down)) \in Nat
      /\ Len(Picked(rows, up)) + Len(Picked(rows, down)) = Len(rows)
  BY <1>4, PickedSplit, Zenon
<1>6. QED
  BY <1>5, Zenon DEF Kept, up, down

\* There is one row for every peer.
LEMMA PeersType ==
    ASSUME NEW verdicts \in Seq(BOOLEAN)
    PROVE  Peers(verdicts) \in Seq(RowRecords) /\ Len(Peers(verdicts)) = Len(verdicts)
<1>1. /\ DOMAIN verdicts = 1..Len(verdicts) /\ Len(verdicts) \in Nat
      /\ \A i \in 1..Len(verdicts) : i - 1 \in Nat /\ verdicts[i] \in BOOLEAN
  OBVIOUS
<1>2. \A i \in 1..Len(verdicts) : [index |-> i - 1, down |-> verdicts[i]] \in RowRecords
  BY <1>1 DEF RowRecords
<1>3. Peers(verdicts) \in [1..Len(verdicts) -> RowRecords]
  BY <1>1, <1>2 DEF Peers
<1>4. QED
  BY <1>1, <1>3

----------------------------------------------------------------------------
(***************************************************************************)
(* The formats of healthcheck_status                                       *)
(***************************************************************************)
\* A unit with a number, and one without.
LEMMA NumberUnit ==
    ASSUME NEW word \in Words, NEW n \in Nat
    PROVE  Number(word, n) \in Units /\ Number(word, n).text = word /\ Number(word, n).n = n
  BY DEF Number, Units

LEMMA PlainUnit ==
    ASSUME NEW word \in Words
    PROVE  Unit(word) \in Units /\ Unit(word).text = word
  BY DEF Unit, Units

\* A printf call whose units are no rows.
LEMMA CallSays ==
    ASSUME NEW t \in Texts, \A i \in 1..Len(t) : t[i].text \notin RowNames, NEW label \in Labels
    PROVE  /\ (\A i \in 1..Len(t) : t[i].text # label) => Says(<<t>>, label, <<>>)
           /\ \A k \in 1..Len(t) :
                 t[k].text = label /\ (\A i \in 1..Len(t) : i # k => t[i].text # label)
                    => Says(<<t>>, label, << t[k].n >>)
<1>1. Closed(t)
  <2>1. t \in Seq(Units) /\ t # <<>>
    BY DEF Texts
  <2>2. Len(t) \in 1..Len(t)
    BY <2>1
  <2>3. QED
    BY <2>2, Zenon DEF Closed
<1>2. QED
  BY <1>1, CallQuiet, CallOnce, Zenon

\* A printf call of one to four units: what it says of a label that at most one
\* of them has.
LEMMA Call1 ==
    ASSUME NEW u \in Units, u.text \notin RowNames, NEW label \in Labels
    PROVE  u.text # label => Says(<< <<u>> >>, label, <<>>)
<1> DEFINE t == <<u>>
<1>1. t \in Seq(Units)
  OBVIOUS
<1>2. t # <<>> /\ Len(t) = 1 /\ t[1] = u
  OBVIOUS
<1> HIDE DEF t
<1>3. t \in Texts
  BY <1>1, <1>2 DEF Texts
<1>4. \A i \in 1..Len(t) : i = 1
  BY <1>2
<1>5. QED
  BY <1>2, <1>3, <1>4, CallSays, Zenon DEF t

LEMMA Call2 ==
    ASSUME NEW u \in Units, NEW v \in Units, u.text \notin RowNames, v.text \notin RowNames,
           NEW label \in Labels
    PROVE  /\ u.text # label /\ v.text # label => Says(<< <<u, v>> >>, label, <<>>)
           /\ u.text = label /\ v.text # label => Says(<< <<u, v>> >>, label, <<u.n>>)
           /\ u.text # label /\ v.text = label => Says(<< <<u, v>> >>, label, <<v.n>>)
<1> DEFINE t == <<u, v>>
<1>1. t \in Seq(Units)
  OBVIOUS
<1>2. t # <<>> /\ Len(t) = 2 /\ t[1] = u /\ t[2] = v
  OBVIOUS
<1> HIDE DEF t
<1>3. t \in Texts
  BY <1>1, <1>2 DEF Texts
<1>4. /\ \A i \in 1..Len(t) : i = 1 \/ i = 2
      /\ 1 \in 1..Len(t) /\ 2 \in 1..Len(t)
  BY <1>2
<1>5. \A i \in 1..Len(t) : t[i].text \notin RowNames
  BY <1>2, <1>4, Zenon
<1>6. /\ u.text # label /\ v.text # label => Says(<<t>>, label, <<>>)
      /\ u.text = label /\ v.text # label => Says(<<t>>, label, <<t[1].n>>)
      /\ u.text # label /\ v.text = label => Says(<<t>>, label, <<t[2].n>>)
  BY <1>2, <1>3, <1>4, <1>5, CallSays, Zenon
<1>7. QED
  BY <1>2, <1>6, Zenon DEF t

LEMMA Call3 ==
    ASSUME NEW u \in Units, NEW v \in Units, NEW w \in Units,
           u.text \notin RowNames, v.text \notin RowNames, w.text \notin RowNames,
           NEW label \in Labels
    PROVE  /\ u.text # label /\ v.text # label /\ w.text # label
                 => Says(<< <<u, v, w>> >>, label, <<>>)
           /\ u.text = label /\ v.text # label /\ w.text # label
                 => Says(<< <<u, v, w>> >>, label, <<u.n>>)
           /\ u.text # label /\ v.text = label /\ w.text # label
                 => Says(<< <<u, v, w>> >>, label, <<v.n>>)
           /\ u.text # label /\ v.text # label /\ w.text = label
                 => Says(<< <<u, v, w>> >>, label, <<w.n>>)
<1> DEFINE t == <<u, v, w>>
<1>1. t \in Seq(Units)
  OBVIOUS
<1>2. t # <<>> /\ Len(t) = 3 /\ t[1] = u /\ t[2] = v /\ t[3] = w
  OBVIOUS
<1> HIDE DEF t
<1>3. t \in Texts
  BY <1>1, <1>2 DEF Texts
<1>4. /\ \A i \in 1..Len(t) : i = 1 \/ i = 2 \/ i = 3
      /\ 1 \in 1..Len(t) /\ 2 \in 1..Len(t) /\ 3 \in 1..Len(t)
  BY <1>2
<1>5. \A i \in 1..Len(t) : t[i].text \notin RowNames
  BY <1>2, <1>4, Zenon
<1>6. u.text # label /\ v.text # label /\ w.text # label => Says(<<t>>, label, <<>>)
  BY <1>2, <1>3, <1>4, <1>5, CallSays, Zenon
<1>7. u.text = label /\ v.text # label /\ w.text # label => Says(<<t>>, label, <<t[1].n>>)
  BY <1>2, <1>3, <1>4, <1>5, CallSays, Zenon
<1>8. u.text # label /\ v.text = label /\ w.text # label => Says(<<t>>, label, <<t[2].n>>)
  BY <1>2, <1>3, <1>4, <1>5, CallSays, Zenon
<1>9. u.text # label /\ v.text # label /\ w.text = label => Says(<<t>>, label, <<t[3].n>>)
  BY <1>2, <1>3, <1>4, <1>5, CallSays, Zenon
<1>10. QED
  BY <1>2, <1>6, <1>7, <1>8, <1>9, Zenon DEF t

LEMMA Call4 ==
    ASSUME NEW u \in Units, NEW v \in Units, NEW w \in Units, NEW x \in Units,
           u.text \notin RowNames, v.text \notin RowNames,
           w.text \notin RowNames, x.text \notin RowNames,
           NEW label \in Labels
    PROVE  /\ u.text # label /\ v.text # label /\ w.text # label /\ x.text # label
                 => Says(<< <<u, v, w, x>> >>, label, <<>>)
           /\ u.text = label /\ v.text # label /\ w.text # label /\ x.text # label
                 => Says(<< <<u, v, w, x>> >>, label, <<u.n>>)
           /\ u.text # label /\ v.text = label /\ w.text # label /\ x.text # label
                 => Says(<< <<u, v, w, x>> >>, label, <<v.n>>)
           /\ u.text # label /\ v.text # label /\ w.text = label /\ x.text # label
                 => Says(<< <<u, v, w, x>> >>, label, <<w.n>>)
           /\ u.text # label /\ v.text # label /\ w.text # label /\ x.text = label
                 => Says(<< <<u, v, w, x>> >>, label, <<x.n>>)
<1> DEFINE t == <<u, v, w, x>>
<1>1. t \in Seq(Units)
  OBVIOUS
<1>2. t # <<>> /\ Len(t) = 4 /\ t[1] = u /\ t[2] = v /\ t[3] = w /\ t[4] = x
  OBVIOUS
<1> HIDE DEF t
<1>3. t \in Texts
  BY <1>1, <1>2 DEF Texts
<1>4. /\ \A i \in 1..Len(t) : i = 1 \/ i = 2 \/ i = 3 \/ i = 4
      /\ 1 \in 1..Len(t) /\ 2 \in 1..Len(t) /\ 3 \in 1..Len(t) /\ 4 \in 1..Len(t)
  BY <1>2
<1>5. \A i \in 1..Len(t) : t[i].text \notin RowNames
  BY <1>2, <1>4, Zenon
<1>6. u.text # label /\ v.text # label /\ w.text # label /\ x.text # label
         => Says(<<t>>, label, <<>>)
  BY <1>2, <1>3, <1>4, <1>5, CallSays, Zenon
<1>7. u.text = label /\ v.text # label /\ w.text # label /\ x.text # label
         => Says(<<t>>, label, <<t[1].n>>)
  BY <1>2, <1>3, <1>4, <1>5, CallSays, Zenon
<1>8. u.text # label /\ v.text = label /\ w.text # label /\ x.text # label
         => Says(<<t>>, label, <<t[2].n>>)
  BY <1>2, <1>3, <1>4, <1>5, CallSays, Zenon
<1>9. u.text # label /\ v.text # label /\ w.text = label /\ x.text # label
         => Says(<<t>>, label, <<t[3].n>>)
  BY <1>2, <1>3, <1>4, <1>5, CallSays, Zenon
<1>10. u.text # label /\ v.text # label /\ w.text # label /\ x.text = label
         => Says(<<t>>, label, <<t[4].n>>)
  BY <1>2, <1>3, <1>4, <1>5, CallSays, Zenon
<1>11. QED
  BY <1>2, <1>6, <1>7, <1>8, <1>9, <1>10, Zenon DEF t

\* What a formatter may rely on in a snapshot.
Snapped(snap, flag) ==
    /\ snap.rows \in Seq(RowRecords) /\ Kept(flag, snap.rows) = snap.rows
    /\ snap.total \in Nat /\ snap.up \in Nat /\ snap.total - snap.up \in Nat
    /\ snap.generation \in Nat

\* The table of one source (ngx_healthcheck_status_html).
LEMMA HtmlTableSays ==
    ASSUME NEW name \in RowNames, NEW other \in RowNames, other # name,
           NEW snap, NEW flag, Snapped(snap, flag)
    PROVE  /\ Says(HtmlTable(name, snap, flag), name, snap.rows)
           /\ Says(HtmlTable(name, snap, flag), other, <<>>)
           /\ Says(HtmlTable(name, snap, flag), "count", <<snap.total>>)
           /\ Says(HtmlTable(name, snap, flag), "count up", <<snap.up>>)
           /\ Says(HtmlTable(name, snap, flag), "count down", <<snap.total - snap.up>>)
<1> DEFINE u == Number("count up", snap.up)
           v == Number("count down", snap.total - snap.up)
           w == Number("count", snap.total)
           z == Unit("end")
           head == << <<u, v, w>> >>
           rows == Rows(name, snap.rows)
           end == << <<z>> >>
<1>1. HtmlTable(name, snap, flag) = Cat(Cat(head, rows), end)
  BY Zenon DEF HtmlTable, Cat, Snapped
<1>2. /\ "count up" \in Words /\ "count down" \in Words /\ "count" \in Words /\ "end" \in Words
      /\ "count up" \in Labels /\ "count down" \in Labels /\ "count" \in Labels
      /\ name \in Labels /\ other \in Labels
  BY DEF Words, Labels, RowNames
<1>3. /\ u \in Units /\ u.text = "count up" /\ u.n = snap.up
      /\ v \in Units /\ v.text = "count down" /\ v.n = snap.total - snap.up
      /\ w \in Units /\ w.text = "count" /\ w.n = snap.total
      /\ z \in Units /\ z.text = "end"
  <2>1. snap.up \in Nat /\ snap.total - snap.up \in Nat /\ snap.total \in Nat
    BY Zenon DEF Snapped
  <2>2. u \in Units /\ u.text = "count up" /\ u.n = snap.up
    BY <1>2, <2>1, NumberUnit, Zenon
  <2>3. v \in Units /\ v.text = "count down" /\ v.n = snap.total - snap.up
    BY <1>2, <2>1, NumberUnit, Zenon
  <2>4. w \in Units /\ w.text = "count" /\ w.n = snap.total
    BY <1>2, <2>1, NumberUnit, Zenon
  <2>5. z \in Units /\ z.text = "end"
    BY <1>2, PlainUnit, Zenon
  <2>6. QED
    BY <2>2, <2>3, <2>4, <2>5, Zenon
<1>4. /\ "count up" \notin RowNames /\ "count down" \notin RowNames
      /\ "count" \notin RowNames /\ "end" \notin RowNames
  BY DEF RowNames
<1>5. \A label \in Labels : Says(end, label, <<>>)
  <2>1. \A label \in Labels : z.text # label
    BY <1>3 DEF Labels
  <2>2. QED
    BY <1>3, <1>4, <2>1, Call1, Zenon
<1>6. /\ Says(rows, name, snap.rows)
      /\ \A label \in Labels : label # name => Says(rows, label, <<>>)
  BY RowsSay, Zenon DEF Snapped
<1>7. /\ name # "count up" /\ name # "count down" /\ name # "count"
      /\ other # "count up" /\ other # "count down" /\ other # "count"
  BY <1>4, Zenon
<1> HIDE DEF u, v, w, z
<1>8. /\ Says(head, name, <<>>) /\ Says(head, other, <<>>)
      /\ Says(head, "count up", <<u.n>>)
      /\ Says(head, "count down", <<v.n>>)
      /\ Says(head, "count", <<w.n>>)
  <2>1. \A label \in Labels :
           /\ u.text # label /\ v.text # label /\ w.text # label => Says(head, label, <<>>)
           /\ u.text = label /\ v.text # label /\ w.text # label => Says(head, label, <<u.n>>)
           /\ u.text # label /\ v.text = label /\ w.text # label => Says(head, label, <<v.n>>)
           /\ u.text # label /\ v.text # label /\ w.text = label => Says(head, label, <<w.n>>)
    BY <1>3, <1>4, Call3, Zenon
  <2>2. "count up" # "count down" /\ "count up" # "count" /\ "count down" # "count"
    OBVIOUS
  <2>3. QED
    BY <1>2, <1>3, <1>7, <2>1, <2>2, Zenon
<1> HIDE DEF head, rows, end
<1>9. /\ Says(Cat(Cat(head, rows), end), name, snap.rows)
      /\ Says(Cat(Cat(head, rows), end), other, <<>>)
      /\ Says(Cat(Cat(head, rows), end), "count up", <<u.n>>)
      /\ Says(Cat(Cat(head, rows), end), "count down", <<v.n>>)
      /\ Says(Cat(Cat(head, rows), end), "count", <<w.n>>)
  <2>1. /\ Says(Cat(head, rows), name, snap.rows)
        /\ Says(Cat(head, rows), other, <<>>)
        /\ Says(Cat(head, rows), "count up", <<u.n>>)
        /\ Says(Cat(head, rows), "count down", <<v.n>>)
        /\ Says(Cat(head, rows), "count", <<w.n>>)
    BY <1>2, <1>6, <1>7, <1>8, SaysBefore, SaysAfter, Zenon
  <2>2. QED
    BY <1>2, <1>5, <2>1, SaysBefore, Zenon
<1>10. QED
  BY <1>1, <1>3, <1>9, Zenon

\* Two sequences of one element.
LEMMA CatPair == ASSUME NEW x, NEW y PROVE Cat(<<x>>, <<y>>) = <<x, y>>
<1>1. <<x>> \in Seq({x, y}) /\ y \in {x, y}
  OBVIOUS
<1>2. Append(<<x>>, y) = <<x>> \o <<y>>
  BY <1>1, AppendIsConcat
<1>3. Append(<<x>>, y) = <<x, y>>
  <2> DEFINE a == <<x>>
             b == <<x, y>>
  <2>1. a \in Seq({x, y}) /\ Len(a) = 1 /\ a[1] = x
    OBVIOUS
  <2>2. b \in Seq({x, y}) /\ Len(b) = 2 /\ b[1] = x /\ b[2] = y
    OBVIOUS
  <2> HIDE DEF a, b
  <2>3. /\ Append(a, y) \in Seq({x, y}) /\ Len(Append(a, y)) = 2
        /\ Append(a, y)[1] = x /\ Append(a, y)[2] = y
    <3> DEFINE S == {x, y}
               c == Append(a, y)
    <3>1. y \in S /\ a \in Seq(S)
      BY <2>1
    <3> HIDE DEF S
    <3>2. /\ c \in Seq(S) /\ Len(c) = Len(a) + 1 /\ c[Len(a) + 1] = y
          /\ \A i \in 1..Len(a) : c[i] = a[i]
      BY <3>1, AppendProperties
    <3> HIDE DEF c
    <3>3. Len(a) + 1 = 2 /\ 1 \in 1..Len(a)
      BY <2>1
    <3>4. QED
      BY <2>1, <3>2, <3>3, Zenon DEF c, S
  <2>4. \A i \in 1..2 : i = 1 \/ i = 2
    OBVIOUS
  <2>5. \A i \in 1..Len(Append(a, y)) : Append(a, y)[i] = b[i]
    BY <2>2, <2>3, <2>4, Zenon
  <2>6. Append(a, y) = b
    BY <2>2, <2>3, <2>5, SeqEqual
  <2>7. QED
    BY <2>6 DEF a, b
<1>4. QED
  BY <1>2, <1>3, Zenon DEF Cat

\* Both sources are there.
TwoSnapped(snaps, flag) == Snapped(snaps[1], flag) /\ Snapped(snaps[2], flag)

\* The two tables, with their counts.
LEMMA HtmlSays ==
    ASSUME NEW snaps, NEW flag, TwoSnapped(snaps, flag)
    PROVE  /\ Says(Html(snaps, flag), "http", snaps[1].rows)
           /\ Says(Html(snaps, flag), "stream", snaps[2].rows)
           /\ Says(Html(snaps, flag), "count", <<snaps[1].total, snaps[2].total>>)
           /\ Says(Html(snaps, flag), "count up", <<snaps[1].up, snaps[2].up>>)
           /\ Says(Html(snaps, flag), "count down",
                   <<snaps[1].total - snaps[1].up, snaps[2].total - snaps[2].up>>)
<1> DEFINE h == Unit("head")
           e == Number("servers", snaps[1].total + snaps[2].total)
           head == << <<h>> >>
           one == HtmlTable("http", snaps[1], flag)
           two == HtmlTable("stream", snaps[2], flag)
           end == << <<e>> >>
<1>1. Html(snaps, flag) = Cat(Cat(Cat(head, one), two), end)
  BY Zenon DEF Html, Cat
<1>2. /\ "http" \in RowNames /\ "stream" \in RowNames /\ "http" # "stream"
      /\ "head" \in Words /\ "servers" \in Words /\ "head" \notin RowNames
      /\ "servers" \notin RowNames
      /\ "http" \in Labels /\ "stream" \in Labels /\ "count" \in Labels
      /\ "count up" \in Labels /\ "count down" \in Labels
  BY DEF Words, Labels, RowNames
<1>3. h \in Units /\ h.text = "head" /\ e \in Units /\ e.text = "servers"
  <2>1. snaps[1].total + snaps[2].total \in Nat
    <3>1. snaps[1].total \in Nat /\ snaps[2].total \in Nat
      BY Zenon DEF TwoSnapped, Snapped
    <3>2. \A m, n \in Nat : m + n \in Nat
      OBVIOUS
    <3>3. QED
      BY <3>1, <3>2, Zenon
  <2>2. QED
    BY <1>2, <2>1, NumberUnit, PlainUnit, Zenon
<1> HIDE DEF h, e
<1>4. \A label \in Labels : Says(head, label, <<>>) /\ Says(end, label, <<>>)
  <2>1. \A label \in Labels : h.text # label /\ e.text # label
    BY <1>3 DEF Labels
  <2>2. QED
    BY <1>2, <1>3, <2>1, Call1, Zenon
<1>5. /\ Says(one, "http", snaps[1].rows) /\ Says(one, "stream", <<>>)
      /\ Says(one, "count", <<snaps[1].total>>)
      /\ Says(one, "count up", <<snaps[1].up>>)
      /\ Says(one, "count down", <<snaps[1].total - snaps[1].up>>)
  BY <1>2, HtmlTableSays, Zenon DEF TwoSnapped
<1>6. /\ Says(two, "stream", snaps[2].rows) /\ Says(two, "http", <<>>)
      /\ Says(two, "count", <<snaps[2].total>>)
      /\ Says(two, "count up", <<snaps[2].up>>)
      /\ Says(two, "count down", <<snaps[2].total - snaps[2].up>>)
  BY <1>2, HtmlTableSays, Zenon DEF TwoSnapped
<1> HIDE DEF head, one, two, end
<1>7. ASSUME NEW label \in Labels, NEW r, NEW q, Says(one, label, r), Says(two, label, q)
      PROVE  Says(Html(snaps, flag), label, Cat(r, q))
  <2>1. Says(Cat(head, one), label, r)
    BY <1>4, <1>7, SaysAfter, Zenon
  <2>2. Says(Cat(Cat(head, one), two), label, Cat(r, q))
    BY <1>7, <2>1, SaysCat, Zenon
  <2>3. Says(Cat(Cat(Cat(head, one), two), end), label, Cat(r, q))
    BY <1>4, <2>2, SaysBefore, Zenon
  <2>4. QED
    BY <1>1, <2>3, Zenon
<1>8. /\ Says(Html(snaps, flag), "count", <<snaps[1].total, snaps[2].total>>)
      /\ Says(Html(snaps, flag), "count up", <<snaps[1].up, snaps[2].up>>)
      /\ Says(Html(snaps, flag), "count down",
              <<snaps[1].total - snaps[1].up, snaps[2].total - snaps[2].up>>)
  <2>1. /\ Says(Html(snaps, flag), "count", Cat(<<snaps[1].total>>, <<snaps[2].total>>))
        /\ Says(Html(snaps, flag), "count up", Cat(<<snaps[1].up>>, <<snaps[2].up>>))
        /\ Says(Html(snaps, flag), "count down",
                Cat(<<snaps[1].total - snaps[1].up>>, <<snaps[2].total - snaps[2].up>>))
    BY <1>2, <1>5, <1>6, <1>7, Zenon
  <2>2. QED
    BY <2>1, CatPair, Zenon
<1>9. /\ Says(Html(snaps, flag), "http", snaps[1].rows)
      /\ Says(Html(snaps, flag), "stream", snaps[2].rows)
  <2>1. /\ Says(Html(snaps, flag), "http", Cat(snaps[1].rows, <<>>))
        /\ Says(Html(snaps, flag), "stream", Cat(<<>>, snaps[2].rows))
    BY <1>2, <1>5, <1>6, <1>7, Zenon
  <2>2. Cat(snaps[1].rows, <<>>) = snaps[1].rows /\ Cat(<<>>, snaps[2].rows) = snaps[2].rows
    BY CatEmpty, Zenon DEF TwoSnapped, Snapped
  <2>3. QED
    BY <2>1, <2>2, Zenon
<1>10. QED
  BY <1>8, <1>9, Zenon

\* The rows of both sources, in the formats without tables.
LEMMA BothRowsSay ==
    ASSUME NEW snaps, NEW flag, TwoSnapped(snaps, flag)
    PROVE  /\ Says(BothRows(snaps, flag), "http", snaps[1].rows)
           /\ Says(BothRows(snaps, flag), "stream", snaps[2].rows)
           /\ \A label \in Labels \ RowNames : Says(BothRows(snaps, flag), label, <<>>)
<1> DEFINE one == Rows("http", snaps[1].rows)
           two == Rows("stream", snaps[2].rows)
<1>1. BothRows(snaps, flag) = Cat(one, two)
  BY Zenon DEF BothRows, Cat, TwoSnapped, Snapped
<1>2. /\ "http" \in RowNames /\ "stream" \in RowNames /\ "http" # "stream"
      /\ "http" \in Labels /\ "stream" \in Labels
  BY DEF Labels, RowNames
<1>3. /\ Says(one, "http", snaps[1].rows)
      /\ \A label \in Labels : label # "http" => Says(one, label, <<>>)
  BY <1>2, RowsSay, Zenon DEF TwoSnapped, Snapped
<1>4. /\ Says(two, "stream", snaps[2].rows)
      /\ \A label \in Labels : label # "stream" => Says(two, label, <<>>)
  BY <1>2, RowsSay, Zenon DEF TwoSnapped, Snapped
<1> HIDE DEF one, two
<1>5. \A label \in Labels \ RowNames : label \in Labels /\ label # "http" /\ label # "stream"
  BY <1>2
<1>6. /\ Says(Cat(one, two), "http", snaps[1].rows)
      /\ Says(Cat(one, two), "stream", snaps[2].rows)
  BY <1>2, <1>3, <1>4, SaysBefore, SaysAfter, Zenon
<1>7. \A label \in Labels \ RowNames : Says(Cat(one, two), label, <<>>)
  BY <1>3, <1>4, <1>5, SaysBefore, Zenon
<1>8. QED
  BY <1>1, <1>6, <1>7, Zenon

\* A heading, then the rows.
LEMMA HeadedSays ==
    ASSUME NEW snaps, NEW flag, TwoSnapped(snaps, flag), NEW word \in Words, word \notin Labels
    PROVE  /\ Says(Cat(<< <<Unit(word)>> >>, BothRows(snaps, flag)), "http", snaps[1].rows)
           /\ Says(Cat(<< <<Unit(word)>> >>, BothRows(snaps, flag)), "stream", snaps[2].rows)
           /\ \A label \in Labels \ RowNames :
                 Says(Cat(<< <<Unit(word)>> >>, BothRows(snaps, flag)), label, <<>>)
<1> DEFINE head == << <<Unit(word)>> >>
<1>1. Unit(word) \in Units /\ Unit(word).text = word
  BY PlainUnit, Zenon
<1>2. /\ word \notin RowNames /\ \A label \in Labels : word # label
      /\ "http" \in Labels /\ "stream" \in Labels
  BY DEF RowNames, Labels
<1>3. \A label \in Labels : Says(head, label, <<>>)
  BY <1>1, <1>2, Call1, Zenon
<1> HIDE DEF head
<1>4. \A label \in Labels \ RowNames : label \in Labels
  OBVIOUS
<1>5. /\ Says(Cat(head, BothRows(snaps, flag)), "http", snaps[1].rows)
      /\ Says(Cat(head, BothRows(snaps, flag)), "stream", snaps[2].rows)
      /\ \A label \in Labels \ RowNames : Says(Cat(head, BothRows(snaps, flag)), label, <<>>)
  BY <1>2, <1>3, <1>4, BothRowsSay, SaysAfter, Zenon
<1>6. QED
  BY <1>5, Zenon DEF head

\* ngx_healthcheck_status_csv: the rows, and no counts.
LEMMA CsvSays ==
    ASSUME NEW snaps, NEW flag, TwoSnapped(snaps, flag)
    PROVE  /\ Says(Csv(snaps, flag), "http", snaps[1].rows)
           /\ Says(Csv(snaps, flag), "stream", snaps[2].rows)
           /\ Says(Csv(snaps, flag), "count up", <<>>)
<1>1. Csv(snaps, flag) = Cat(<< <<Unit("head")>> >>, BothRows(snaps, flag))
  BY Zenon DEF Csv, Cat
<1>2. "head" \in Words /\ "head" \notin Labels /\ "count up" \in Labels \ RowNames
  BY DEF Words, Labels, RowNames
<1>3. QED
  BY <1>1, <1>2, HeadedSays, Zenon

\* ngx_healthcheck_status_json: both arrays, their total and the generation.
LEMMA JsonSays ==
    ASSUME NEW snaps, NEW flag, TwoSnapped(snaps, flag),
           NEW g \in Nat, Generation(snaps) = Number("generation", g)
    PROVE  /\ Says(Json(snaps), "http", snaps[1].rows)
           /\ Says(Json(snaps), "stream", snaps[2].rows)
           /\ Says(Json(snaps), "count", << Len(snaps[1].rows) + Len(snaps[2].rows) >>)
           /\ Says(Json(snaps), "generation", <<g>>)
           /\ Says(Json(snaps), "count up", <<>>)
<1> DEFINE total == Len(snaps[1].rows) + Len(snaps[2].rows)
           u == Number("count", total)
           v == Number("generation", g)
           open == Unit("[")
           close == Unit("]")
           last == Unit("end")
           a == << <<u, v, open>> >>
           b == JsonRows("http", snaps[1].rows, total)
           c == << <<close, open>> >>
           d == JsonRows("stream", snaps[2].rows, total)
           e == << <<close>>, <<last>> >>
           e1 == << <<close>> >>
           e2 == << <<last>> >>
<1>1. e = Cat(e1, e2)
  BY CatPair
<1>2. Json(snaps) = Cat(Cat(Cat(Cat(a, b), c), d), e)
  BY Zenon DEF Json, Cat
<1>3. /\ "http" \in RowNames /\ "stream" \in RowNames /\ "http" # "stream"
      /\ "http" \in Labels /\ "stream" \in Labels /\ "count" \in Labels
      /\ "generation" \in Labels /\ "count up" \in Labels
  BY DEF Labels, RowNames
<1>4. /\ "count" \in Words /\ "generation" \in Words /\ "[" \in Words /\ "]" \in Words
      /\ "end" \in Words
      /\ "count" \notin RowNames /\ "generation" \notin RowNames /\ "[" \notin RowNames
      /\ "]" \notin RowNames /\ "end" \notin RowNames /\ "count up" \notin RowNames
  BY DEF Words, RowNames
<1>5. snaps[1].rows \in Seq(RowRecords) /\ snaps[2].rows \in Seq(RowRecords) /\ total \in Nat
  <2>1. snaps[1].rows \in Seq(RowRecords) /\ snaps[2].rows \in Seq(RowRecords)
    BY Zenon DEF TwoSnapped, Snapped
  <2>2. Len(snaps[1].rows) \in Nat /\ Len(snaps[2].rows) \in Nat
    BY <2>1
  <2>3. total \in Nat
    <3>1. \A m, n \in Nat : m + n \in Nat
      OBVIOUS
    <3>2. QED
      BY <2>2, <3>1, Zenon
  <2>4. QED
    BY <2>1, <2>3, Zenon
<1>6. /\ u \in Units /\ u.text = "count" /\ u.n = total
      /\ v \in Units /\ v.text = "generation" /\ v.n = g
      /\ open \in Units /\ open.text = "["
      /\ close \in Units /\ close.text = "]"
      /\ last \in Units /\ last.text = "end"
  <2> HIDE DEF total
  <2>1. QED
    BY <1>4, <1>5, NumberUnit, PlainUnit, Zenon
<1>7. /\ Says(b, "http", snaps[1].rows)
      /\ \A label \in Labels : label # "http" => Says(b, label, <<>>)
  BY <1>3, <1>5, JsonRowsSay, Zenon
<1>8. /\ Says(d, "stream", snaps[2].rows)
      /\ \A label \in Labels : label # "stream" => Says(d, label, <<>>)
  BY <1>3, <1>5, JsonRowsSay, Zenon
<1> HIDE DEF total, u, v, open, close, last
<1>9. \A label \in Labels : open.text # label /\ close.text # label /\ last.text # label
  BY <1>6 DEF Labels
<1>10. \A label \in Labels : Says(c, label, <<>>)
  BY <1>4, <1>6, <1>9, Call2, Zenon
<1>11. \A label \in Labels : Says(e, label, <<>>)
  <2>1. \A label \in Labels : Says(e1, label, <<>>) /\ Says(e2, label, <<>>)
    BY <1>4, <1>6, <1>9, Call1, Zenon
  <2> HIDE DEF e1, e2
  <2>2. \A label \in Labels : Says(Cat(e1, e2), label, <<>>)
    BY <2>1, SaysBefore, Zenon
  <2>3. QED
    BY <1>1, <2>2, Zenon
<1>12. /\ Says(a, "count", <<total>>) /\ Says(a, "generation", <<g>>)
       /\ Says(a, "count up", <<>>) /\ Says(a, "http", <<>>) /\ Says(a, "stream", <<>>)
  <2>1. \A label \in Labels :
           /\ u.text # label /\ v.text # label /\ open.text # label => Says(a, label, <<>>)
           /\ u.text = label /\ v.text # label /\ open.text # label => Says(a, label, <<u.n>>)
           /\ u.text # label /\ v.text = label /\ open.text # label => Says(a, label, <<v.n>>)
    BY <1>4, <1>6, Call3, Zenon
  <2>2. "count up" # "count" /\ "count up" # "generation" /\ "count" # "generation"
    OBVIOUS
  <2>3. QED
    BY <1>3, <1>4, <1>6, <1>9, <2>1, <2>2, Zenon
<1>13. /\ "count" # "http" /\ "count" # "stream" /\ "generation" # "http"
       /\ "generation" # "stream" /\ "count up" # "http" /\ "count up" # "stream"
  OBVIOUS
<1> HIDE DEF a, b, c, d, e
<1>14. /\ Says(Cat(Cat(a, b), c), "http", snaps[1].rows)
       /\ Says(Cat(Cat(a, b), c), "stream", <<>>)
       /\ Says(Cat(Cat(a, b), c), "count", <<total>>)
       /\ Says(Cat(Cat(a, b), c), "generation", <<g>>)
       /\ Says(Cat(Cat(a, b), c), "count up", <<>>)
  BY <1>3, <1>7, <1>10, <1>12, <1>13, SaysBefore, SaysAfter, Zenon
<1>15. /\ Says(Json(snaps), "http", snaps[1].rows)
       /\ Says(Json(snaps), "stream", snaps[2].rows)
       /\ Says(Json(snaps), "count", <<total>>)
       /\ Says(Json(snaps), "generation", <<g>>)
       /\ Says(Json(snaps), "count up", <<>>)
  <2>1. /\ Says(Cat(Cat(Cat(Cat(a, b), c), d), e), "http", snaps[1].rows)
        /\ Says(Cat(Cat(Cat(Cat(a, b), c), d), e), "stream", snaps[2].rows)
        /\ Says(Cat(Cat(Cat(Cat(a, b), c), d), e), "count", <<total>>)
        /\ Says(Cat(Cat(Cat(Cat(a, b), c), d), e), "generation", <<g>>)
        /\ Says(Cat(Cat(Cat(Cat(a, b), c), d), e), "count up", <<>>)
    BY <1>3, <1>8, <1>11, <1>13, <1>14, SaysBefore, SaysAfter, Zenon
  <2>2. QED
    BY <1>2, <2>1, Zenon
<1>16. QED
  BY <1>15, Zenon DEF total

\* One family of metrics.
LEMMA FamilySays ==
    ASSUME NEW snaps, NEW flag, TwoSnapped(snaps, flag), NEW metric \in {"rise", "fall", "active"}
    PROVE  /\ Says(Family(metric, snaps, flag), "http", snaps[1].rows)
           /\ Says(Family(metric, snaps, flag), "stream", snaps[2].rows)
           /\ \A label \in Labels \ RowNames : Says(Family(metric, snaps, flag), label, <<>>)
<1>1. Family(metric, snaps, flag) = Cat(<< <<Unit(metric)>> >>, BothRows(snaps, flag))
  BY Zenon DEF Family, Cat
<1>2. metric \in Words /\ metric \notin Labels
  BY DEF Words, Labels
<1>3. /\ Says(Cat(<< <<Unit(metric)>> >>, BothRows(snaps, flag)), "http", snaps[1].rows)
      /\ Says(Cat(<< <<Unit(metric)>> >>, BothRows(snaps, flag)), "stream", snaps[2].rows)
      /\ \A label \in Labels \ RowNames :
            Says(Cat(<< <<Unit(metric)>> >>, BothRows(snaps, flag)), label, <<>>)
  BY <1>2, HeadedSays, Zenon
<1>4. QED
  BY <1>1, <1>3, Zenon

\* ngx_healthcheck_status_prometheus: the rows once in every family, and the counts of
\* those that are shown.
LEMMA PrometheusSays ==
    ASSUME NEW snaps, NEW flag, TwoSnapped(snaps, flag),
           NEW g \in Nat, Generation(snaps) = Number("generation", g),
           NEW both, both = Cat(snaps[1].rows, snaps[2].rows)
    PROVE  /\ Says(Prometheus(snaps, flag), "http",
                   Cat(Cat(snaps[1].rows, snaps[1].rows), snaps[1].rows))
           /\ Says(Prometheus(snaps, flag), "stream",
                   Cat(Cat(snaps[2].rows, snaps[2].rows), snaps[2].rows))
           /\ Says(Prometheus(snaps, flag), "count", << Len(both) >>)
           /\ Says(Prometheus(snaps, flag), "count up", << Len(Kept("up", both)) >>)
           /\ Says(Prometheus(snaps, flag), "count down", << Len(Kept("down", both)) >>)
           /\ Says(Prometheus(snaps, flag), "generation", <<g>>)
<1> DEFINE down == Len(Kept("down", both))
           up == Len(Kept("up", both))
           u == Number("count", Len(both))
           v == Number("count up", Len(both) - down)
           w == Number("count down", down)
           x == Number("generation", g)
           a == << <<u, v, w, x>> >>
           b == Family("rise", snaps, flag)
           c == Family("fall", snaps, flag)
           d == Family("active", snaps, flag)
<1>1. /\ both = Cat(Kept(flag, snaps[1].rows), Kept(flag, snaps[2].rows))
      /\ snaps[1].rows \in Seq(RowRecords) /\ snaps[2].rows \in Seq(RowRecords)
  BY Zenon DEF TwoSnapped, Snapped
<1>2. Prometheus(snaps, flag) = Cat(Cat(Cat(a, b), c), d)
  BY <1>1, Zenon DEF Prometheus, Cat
<1>3. both \in Seq(RowRecords)
  BY <1>1, CatType, Zenon
<1>4. Len(both) \in Nat /\ down \in Nat /\ up \in Nat /\ Len(both) - down = up
  <2>1. up \in Nat /\ down \in Nat /\ up + down = Len(both)
    BY <1>3, KeptSplit, Zenon
  <2>2. Len(both) \in Nat
    BY <1>3
  <2> HIDE DEF up, down
  <2>3. QED
    BY <2>1, <2>2
<1>5. /\ "http" \in Labels /\ "stream" \in Labels /\ "count" \in Labels \ RowNames
      /\ "count up" \in Labels \ RowNames /\ "count down" \in Labels \ RowNames
      /\ "generation" \in Labels \ RowNames
      /\ "http" \in RowNames /\ "stream" \in RowNames
  BY DEF Labels, RowNames
<1>6. /\ "count" \in Words /\ "count up" \in Words /\ "count down" \in Words
      /\ "generation" \in Words
  BY DEF Words
<1>7. /\ u \in Units /\ u.text = "count" /\ u.n = Len(both)
      /\ v \in Units /\ v.text = "count up" /\ v.n = up
      /\ w \in Units /\ w.text = "count down" /\ w.n = down
      /\ x \in Units /\ x.text = "generation" /\ x.n = g
  <2> HIDE DEF up, down
  <2>1. v = Number("count up", up)
    BY <1>4, Zenon
  <2>2. QED
    BY <1>4, <1>6, <2>1, NumberUnit, Zenon
<1>8. /\ Says(b, "http", snaps[1].rows) /\ Says(b, "stream", snaps[2].rows)
      /\ Says(c, "http", snaps[1].rows) /\ Says(c, "stream", snaps[2].rows)
      /\ Says(d, "http", snaps[1].rows) /\ Says(d, "stream", snaps[2].rows)
      /\ \A label \in Labels \ RowNames :
            Says(b, label, <<>>) /\ Says(c, label, <<>>) /\ Says(d, label, <<>>)
  <2>1. "rise" \in {"rise", "fall", "active"} /\ "fall" \in {"rise", "fall", "active"}
        /\ "active" \in {"rise", "fall", "active"}
    OBVIOUS
  <2>2. QED
    BY <2>1, FamilySays, Zenon
<1> HIDE DEF u, v, w, x, b, c, d
<1>9. /\ Says(a, "http", <<>>) /\ Says(a, "stream", <<>>)
      /\ Says(a, "count", <<u.n>>) /\ Says(a, "count up", <<v.n>>)
      /\ Says(a, "count down", <<w.n>>) /\ Says(a, "generation", <<x.n>>)
  <2>1. /\ u.text \notin RowNames /\ v.text \notin RowNames
        /\ w.text \notin RowNames /\ x.text \notin RowNames
    BY <1>5, <1>7
  <2>2. \A label \in Labels :
          /\ u.text # label /\ v.text # label /\ w.text # label /\ x.text # label
                => Says(a, label, <<>>)
          /\ u.text = label /\ v.text # label /\ w.text # label /\ x.text # label
                => Says(a, label, <<u.n>>)
          /\ u.text # label /\ v.text = label /\ w.text # label /\ x.text # label
                => Says(a, label, <<v.n>>)
          /\ u.text # label /\ v.text # label /\ w.text = label /\ x.text # label
                => Says(a, label, <<w.n>>)
          /\ u.text # label /\ v.text # label /\ w.text # label /\ x.text = label
                => Says(a, label, <<x.n>>)
    BY <1>7, <2>1, Call4, Zenon
  <2>3. /\ "count" # "count up" /\ "count" # "count down" /\ "count" # "generation"
        /\ "count up" # "count down" /\ "count up" # "generation"
        /\ "count down" # "generation"
        /\ \A label \in {"http", "stream"} :
              /\ label # "count" /\ label # "count up"
              /\ label # "count down" /\ label # "generation"
    OBVIOUS
  <2> HIDE DEF a
  <2>4. /\ Says(a, "http", <<>>) /\ Says(a, "stream", <<>>)
    BY <1>5, <1>7, <2>1, <2>2, Zenon
  <2>5. /\ Says(a, "count", <<u.n>>) /\ Says(a, "count up", <<v.n>>)
    BY <1>5, <1>7, <2>2, <2>3
  <2>6. /\ Says(a, "count down", <<w.n>>) /\ Says(a, "generation", <<x.n>>)
    BY <1>5, <1>7, <2>2, <2>3
  <2>7. QED
    BY <2>4, <2>5, <2>6, Zenon
<1> HIDE DEF a, up, down
<1>10. ASSUME NEW label \in Labels \ RowNames, NEW r, Says(a, label, r)
       PROVE  Says(Prometheus(snaps, flag), label, r)
  <2>1. Says(Cat(Cat(Cat(a, b), c), d), label, r)
    BY <1>8, <1>10, SaysBefore, Zenon
  <2>2. QED
    BY <1>2, <2>1, Zenon
<1>11. /\ Says(Prometheus(snaps, flag), "http",
               Cat(Cat(snaps[1].rows, snaps[1].rows), snaps[1].rows))
       /\ Says(Prometheus(snaps, flag), "stream",
               Cat(Cat(snaps[2].rows, snaps[2].rows), snaps[2].rows))
  <2>1. Says(Cat(a, b), "http", snaps[1].rows) /\ Says(Cat(a, b), "stream", snaps[2].rows)
    BY <1>8, <1>9, SaysAfter, Zenon
  <2>2. /\ Says(Cat(Cat(Cat(a, b), c), d), "http",
                Cat(Cat(snaps[1].rows, snaps[1].rows), snaps[1].rows))
        /\ Says(Cat(Cat(Cat(a, b), c), d), "stream",
                Cat(Cat(snaps[2].rows, snaps[2].rows), snaps[2].rows))
    BY <1>8, <2>1, SaysCat, Zenon
  <2>3. QED
    BY <1>2, <2>2, Zenon
<1>12. QED
  BY <1>5, <1>7, <1>9, <1>10, <1>11, Zenon DEF up, down

----------------------------------------------------------------------------
(***************************************************************************)
(* The formats of check_status                                             *)
(***************************************************************************)
LEMMA LegacyHtmlSays ==
    ASSUME NEW snap, NEW flag, Snapped(snap, flag)
    PROVE  /\ Says(Legacy("legacy html", snap), "http", snap.rows)
           /\ Says(Legacy("legacy html", snap), "count", <<Len(snap.rows)>>)
           /\ Says(Legacy("legacy html", snap), "generation", <<snap.generation>>)
           /\ Says(Legacy("legacy html", snap), "count up", <<>>)
<1> DEFINE u == Number("count", Len(snap.rows))
           v == Number("generation", snap.generation)
           w == Unit("end")
           a == << <<u, v>> >>
           b == Rows("http", snap.rows)
           c == << <<w>> >>
<1>1. Legacy("legacy html", snap) = Cat(Cat(a, b), c)
  BY Zenon DEF Legacy, LegacyHead, Cat
<1>2. /\ "http" \in RowNames /\ "http" \in Labels /\ "count" \in Labels
      /\ "generation" \in Labels /\ "count up" \in Labels
      /\ "count" \in Words /\ "generation" \in Words /\ "end" \in Words
      /\ "count" \notin RowNames /\ "generation" \notin RowNames /\ "end" \notin RowNames
      /\ "count up" \notin RowNames
  BY DEF Labels, RowNames, Words
<1>3. snap.rows \in Seq(RowRecords) /\ Len(snap.rows) \in Nat /\ snap.generation \in Nat
  BY DEF Snapped
<1>4. /\ u \in Units /\ u.text = "count" /\ u.n = Len(snap.rows)
      /\ v \in Units /\ v.text = "generation" /\ v.n = snap.generation
      /\ w \in Units /\ w.text = "end"
  BY <1>2, <1>3, NumberUnit, PlainUnit, Zenon
<1>5. /\ Says(b, "http", snap.rows)
      /\ \A label \in Labels : label # "http" => Says(b, label, <<>>)
  BY <1>2, <1>3, RowsSay, Zenon
<1> HIDE DEF u, v, w
<1>6. \A label \in Labels : Says(c, label, <<>>)
  <2>1. \A label \in Labels : w.text # label
    BY <1>4 DEF Labels
  <2>2. QED
    BY <1>2, <1>4, <2>1, Call1, Zenon
<1>7. /\ "count up" # "count" /\ "count up" # "generation" /\ "count" # "generation"
      /\ "count" # "http" /\ "generation" # "http" /\ "count up" # "http"
  OBVIOUS
<1>8. /\ Says(a, "count", <<u.n>>) /\ Says(a, "generation", <<v.n>>)
      /\ Says(a, "count up", <<>>) /\ Says(a, "http", <<>>)
  BY <1>2, <1>4, <1>7, Call2, Zenon
<1> HIDE DEF a, b, c
<1>9. /\ Says(Cat(Cat(a, b), c), "http", snap.rows)
      /\ Says(Cat(Cat(a, b), c), "count", <<u.n>>)
      /\ Says(Cat(Cat(a, b), c), "generation", <<v.n>>)
      /\ Says(Cat(Cat(a, b), c), "count up", <<>>)
  BY <1>2, <1>5, <1>6, <1>7, <1>8, SaysBefore, SaysAfter, Zenon
<1>10. QED
  BY <1>1, <1>4, <1>9, Zenon

LEMMA LegacyCsvSays ==
    ASSUME NEW snap, NEW flag, Snapped(snap, flag)
    PROVE  /\ Says(Legacy("legacy csv", snap), "http", snap.rows)
           /\ Says(Legacy("legacy csv", snap), "count up", <<>>)
<1>1. Legacy("legacy csv", snap) = Rows("http", snap.rows)
  <2>1. "legacy csv" # "legacy html"
    OBVIOUS
  <2>2. QED
    BY <2>1, Zenon DEF Legacy
<1>2. "http" \in RowNames /\ "count up" \in Labels /\ "count up" # "http"
  BY DEF Labels, RowNames
<1>3. QED
  BY <1>1, <1>2, RowsSay, Zenon DEF Snapped

\* Two units and a third one.
LEMMA CatTriple == ASSUME NEW x, NEW y, NEW z PROVE Cat(<<x, y>>, <<z>>) = <<x, y, z>>
<1> DEFINE S == {x, y, z}
           a == <<x, y>>
           b == <<x, y, z>>
           c == Append(a, z)
<1>1. a \in Seq(S) /\ Len(a) = 2 /\ a[1] = x /\ a[2] = y
  OBVIOUS
<1>2. b \in Seq(S) /\ Len(b) = 3 /\ b[1] = x /\ b[2] = y /\ b[3] = z
  OBVIOUS
<1>3. z \in S
  OBVIOUS
<1> HIDE DEF a, b, S
<1>4. c \in Seq(S) /\ Len(c) = 3 /\ c[1] = x /\ c[2] = y /\ c[3] = z
  <2>1. /\ c \in Seq(S) /\ Len(c) = Len(a) + 1 /\ c[Len(a) + 1] = z
        /\ \A i \in 1..Len(a) : c[i] = a[i]
    <3>1. a \in Seq(S) /\ z \in S
      BY <1>1, <1>3, Zenon
    <3>2. QED
      BY <3>1, AppendProperties
  <2> HIDE DEF c
  <2>2. Len(a) + 1 = 3 /\ 1 \in 1..Len(a) /\ 2 \in 1..Len(a)
    BY <1>1
  <2>3. QED
    BY <1>1, <2>1, <2>2, Zenon
<1>5. c = a \o <<z>>
  BY <1>1, <1>3, AppendIsConcat
<1> HIDE DEF c
<1>6. \A i \in 1..3 : i = 1 \/ i = 2 \/ i = 3
  OBVIOUS
<1>7. \A i \in 1..Len(c) : c[i] = b[i]
  BY <1>2, <1>4, <1>6, Zenon
<1>8. c = b
  BY <1>2, <1>4, <1>7, SeqEqual
<1>9. QED
  BY <1>5, <1>8, Zenon DEF a, b, Cat

LEMMA LegacyJsonSays ==
    ASSUME NEW snap, NEW flag, Snapped(snap, flag)
    PROVE  /\ Says(Legacy("legacy json", snap), "http", snap.rows)
           /\ Says(Legacy("legacy json", snap), "count", <<Len(snap.rows)>>)
           /\ Says(Legacy("legacy json", snap), "generation", <<snap.generation>>)
           /\ Says(Legacy("legacy json", snap), "count up", <<>>)
<1> DEFINE u == Number("count", Len(snap.rows))
           v == Number("generation", snap.generation)
           open == Unit("[")
           close == Unit("]")
           w == Unit("end")
           a == << <<u, v, open>> >>
           b == JsonRows("http", snap.rows, Len(snap.rows))
           c == << <<close, w>> >>
<1>1. <<u, v>> \o <<open>> = <<u, v, open>>
  BY CatTriple, Zenon DEF Cat
<1>2. Legacy("legacy json", snap) = Cat(Cat(a, b), c)
  <2>1. "legacy json" # "legacy html" /\ "legacy json" # "legacy csv"
    OBVIOUS
  <2>2. QED
    BY <1>1, <2>1, Zenon DEF Legacy, LegacyHead, Cat
<1>3. /\ "http" \in RowNames /\ "http" \in Labels /\ "count" \in Labels
      /\ "generation" \in Labels /\ "count up" \in Labels
      /\ "count" \in Words /\ "generation" \in Words /\ "end" \in Words
      /\ "[" \in Words /\ "]" \in Words
      /\ "count" \notin RowNames /\ "generation" \notin RowNames /\ "end" \notin RowNames
      /\ "count up" \notin RowNames /\ "[" \notin RowNames /\ "]" \notin RowNames
  BY DEF Labels, RowNames, Words
<1>4. snap.rows \in Seq(RowRecords) /\ Len(snap.rows) \in Nat /\ snap.generation \in Nat
  BY DEF Snapped
<1>5. /\ u \in Units /\ u.text = "count" /\ u.n = Len(snap.rows)
      /\ v \in Units /\ v.text = "generation" /\ v.n = snap.generation
      /\ w \in Units /\ w.text = "end"
      /\ open \in Units /\ open.text = "["
      /\ close \in Units /\ close.text = "]"
  BY <1>3, <1>4, NumberUnit, PlainUnit, Zenon
<1>6. /\ Says(b, "http", snap.rows)
      /\ \A label \in Labels : label # "http" => Says(b, label, <<>>)
  BY <1>3, <1>4, JsonRowsSay, Zenon
<1> HIDE DEF u, v, w, open, close
<1>7. \A label \in Labels : w.text # label /\ open.text # label /\ close.text # label
  BY <1>5 DEF Labels
<1>8. \A label \in Labels : Says(c, label, <<>>)
  BY <1>3, <1>5, <1>7, Call2, Zenon
<1>9. /\ "count up" # "count" /\ "count up" # "generation" /\ "count" # "generation"
      /\ "count" # "http" /\ "generation" # "http" /\ "count up" # "http"
  OBVIOUS
<1>10. /\ Says(a, "count", <<u.n>>) /\ Says(a, "generation", <<v.n>>)
      /\ Says(a, "count up", <<>>) /\ Says(a, "http", <<>>)
  <2>1. \A label \in Labels :
           /\ u.text # label /\ v.text # label /\ open.text # label => Says(a, label, <<>>)
           /\ u.text = label /\ v.text # label /\ open.text # label => Says(a, label, <<u.n>>)
           /\ u.text # label /\ v.text = label /\ open.text # label => Says(a, label, <<v.n>>)
    BY <1>3, <1>5, Call3, Zenon
  <2>2. QED
    BY <1>3, <1>5, <1>7, <1>9, <2>1, Zenon
<1> HIDE DEF a, b, c
<1>11. /\ Says(Cat(Cat(a, b), c), "http", snap.rows)
       /\ Says(Cat(Cat(a, b), c), "count", <<u.n>>)
       /\ Says(Cat(Cat(a, b), c), "generation", <<v.n>>)
       /\ Says(Cat(Cat(a, b), c), "count up", <<>>)
  BY <1>3, <1>6, <1>8, <1>9, <1>10, SaysBefore, SaysAfter, Zenon
<1>12. QED
  BY <1>2, <1>5, <1>11, Zenon

(***************************************************************************)
(* The commas of a JSON text                                               *)
(***************************************************************************)
\* The statuses.
Verdicts == {"up", "down"}

\* v may follow u.
MayFollow(u, v) ==
    /\ u.text \in Verdicts => v.text \in {",", "]"}
    /\ u.text = "," => v.text \in RowNames
    /\ v.text = "," => u.text \in Verdicts

\* Every unit of the text may follow the one before it.
Neat(text) == text \in Seq(Units) /\ \A i \in 1..(Len(text) - 1) : MayFollow(text[i], text[i + 1])

\* What a text starts and stops with.
Starts(text, words) == text # <<>> /\ text[1].text \in words
Stops(text, words) == text # <<>> /\ text[Len(text)].text \in words

\* A concatenation starts as its first part does, and ends as its second.
LEMMA CatEdges ==
    ASSUME NEW a \in Seq(Units), NEW b \in Seq(Units)
    PROVE  /\ \A words : Starts(a, words) => Starts(Cat(a, b), words)
           /\ \A words : Stops(b, words) => Stops(Cat(a, b), words)
<1> DEFINE c == Cat(a, b)
<1>1. Chained(c, a, b)
  BY CatChained, Zenon
<1>2. c \in Seq(Units)
  BY CatType, Zenon
<1> HIDE DEF c
<1>3. Len(a) \in Nat /\ Len(b) \in Nat /\ Len(c) = Len(a) + Len(b)
  BY <1>1, Zenon DEF Chained
<1>4. ASSUME a # <<>> PROVE c # <<>> /\ c[1] = a[1]
  <2>1. Len(a) # 0
    BY <1>4
  <2>2. 1 \in 1..Len(a) /\ Len(c) # 0
    BY <1>3, <2>1
  <2>3. c # <<>>
    BY <2>2
  <2>4. QED
    BY <1>1, <2>2, <2>3, Zenon DEF Chained
<1>5. ASSUME b # <<>> PROVE c # <<>> /\ c[Len(c)] = b[Len(b)]
  <2>1. Len(b) # 0
    BY <1>5
  <2>2. Len(b) \in 1..Len(b) /\ Len(c) # 0
    BY <1>3, <2>1
  <2>3. c # <<>>
    BY <2>2
  <2>4. c[Len(a) + Len(b)] = b[Len(b)]
    BY <1>1, <2>2, Zenon DEF Chained
  <2>5. QED
    BY <1>3, <2>3, <2>4, Zenon
<1>6. QED
  BY <1>4, <1>5, Zenon DEF c, Starts, Stops

\* Two neat texts are neat together when the second fits the first.
LEMMA NeatCat ==
    ASSUME NEW a, NEW b, Neat(a), Neat(b),
           a # <<>> /\ b # <<>> => MayFollow(a[Len(a)], b[1])
    PROVE  Neat(Cat(a, b))
<1> DEFINE c == Cat(a, b)
<1>1. a \in Seq(Units) /\ b \in Seq(Units)
  BY Zenon DEF Neat
<1>2. Chained(c, a, b) /\ c \in Seq(Units)
  BY <1>1, CatChained, CatType, Zenon
<1> HIDE DEF c
<1>3. Len(a) \in Nat /\ Len(b) \in Nat /\ Len(c) = Len(a) + Len(b)
  BY <1>2, Zenon DEF Chained
<1>4. ASSUME NEW i \in 1..(Len(c) - 1) PROVE MayFollow(c[i], c[i + 1])
  <2>1. CASE i < Len(a)
    <3>1. i \in 1..Len(a) /\ i + 1 \in 1..Len(a) /\ i \in 1..(Len(a) - 1)
      BY <1>3, <2>1
    <3>2. c[i] = a[i] /\ c[i + 1] = a[i + 1]
      BY <1>2, <3>1, Zenon DEF Chained
    <3>3. MayFollow(a[i], a[i + 1])
      BY <3>1, Zenon DEF Neat
    <3>4. QED
      BY <3>2, <3>3, Zenon
  <2>2. CASE i = Len(a)
    <3>1. i \in 1..Len(a) /\ 1 \in 1..Len(b) /\ Len(a) # 0 /\ Len(b) # 0
      BY <1>3, <2>2
    <3>2. c[i] = a[Len(a)] /\ c[i + 1] = b[1]
      BY <1>2, <2>2, <3>1, Zenon DEF Chained
    <3>3. a # <<>> /\ b # <<>>
      BY <3>1
    <3>4. QED
      BY <3>2, <3>3, Zenon
  <2>3. CASE i > Len(a)
    <3>1. PICK k \in 1..(Len(b) - 1) : i = Len(a) + k
      <4>1. i - Len(a) \in 1..(Len(b) - 1) /\ i = Len(a) + (i - Len(a))
        BY <1>3, <2>3
      <4>2. QED
        BY <4>1
    <3>2. k \in 1..Len(b) /\ k + 1 \in 1..Len(b) /\ i + 1 = Len(a) + (k + 1)
      BY <1>3, <3>1
    <3>3. c[Len(a) + k] = b[k] /\ c[Len(a) + (k + 1)] = b[k + 1]
      BY <1>2, <3>2, Zenon DEF Chained
    <3>4. c[i] = b[k] /\ c[i + 1] = b[k + 1]
      BY <3>1, <3>2, <3>3, Zenon
    <3>5. MayFollow(b[k], b[k + 1])
      BY <3>1, Zenon DEF Neat
    <3>6. QED
      BY <3>4, <3>5, Zenon
  <2>4. QED
    BY <1>3, <2>1, <2>2, <2>3
<1>5. QED
  BY <1>2, <1>4, Zenon DEF c, Neat

\* A single unit is neat.
LEMMA NeatOne == ASSUME NEW u \in Units PROVE Neat(<<u>>)
<1> DEFINE t == <<u>>
<1>1. t \in Seq(Units) /\ Len(t) = 1
  OBVIOUS
<1> HIDE DEF t
<1>2. \A i \in 1..(Len(t) - 1) : FALSE
  BY <1>1
<1>3. QED
  BY <1>1, <1>2, Zenon DEF Neat, t

\* A row of a JSON array: it begins with its source, and ends with its status or a comma.
LEMMA JsonRowNeat ==
    ASSUME NEW name \in RowNames, NEW row \in RowRecords, NEW comma, Comma(comma)
    PROVE  /\ Neat(Cat(Row(name, row), comma))
           /\ Starts(Cat(Row(name, row), comma), {name})
           /\ Stops(Cat(Row(name, row), comma), IF comma = <<>> THEN Verdicts ELSE {","})
<1> DEFINE r == Row(name, row)
           c == <<Unit(",")>>
<1>1. /\ r \in Seq(Units) /\ r # <<>> /\ Len(r) = 2
      /\ r[1].text = name /\ r[2].text \in Verdicts
  <2>1. r \in Seq(Units) /\ r # <<>>
    BY RowReads DEF Texts
  <2>2. Len(r) = 2 /\ r[1].text = name /\ r[2].text \in Verdicts
    BY RowReads, Zenon DEF Verdicts
  <2>3. QED
    BY <2>1, <2>2, Zenon
<1> HIDE DEF r
<1>2. name \notin Verdicts /\ name # "," /\ "," \notin Verdicts
  BY DEF RowNames, Verdicts
<1>3. Neat(r)
  <2>1. MayFollow(r[1], r[2])
    BY <1>1, <1>2 DEF MayFollow
  <2>2. \A i \in 1..(Len(r) - 1) : i = 1 /\ i + 1 = 2
    BY <1>1
  <2>3. QED
    BY <1>1, <2>1, <2>2, Zenon DEF Neat
<1>4. Starts(r, {name}) /\ Stops(r, Verdicts)
  BY <1>1, Zenon DEF Starts, Stops
<1>5. ASSUME comma = <<>>
      PROVE  /\ Neat(Cat(r, comma)) /\ Starts(Cat(r, comma), {name})
             /\ Stops(Cat(r, comma), Verdicts)
  <2>1. Cat(r, comma) = r
    BY <1>1, <1>5, CatEmpty, Zenon
  <2>2. QED
    BY <1>3, <1>4, <2>1, Zenon
<1>6. ASSUME comma = c
      PROVE  /\ Neat(Cat(r, comma)) /\ Starts(Cat(r, comma), {name})
             /\ Stops(Cat(r, comma), {","}) /\ comma # <<>>
  <2>1. Unit(",") \in Units /\ Unit(",").text = ","
    <3>1. "," \in Words
      BY DEF Words
    <3>2. QED
      BY <3>1, PlainUnit, Zenon
  <2>2. Neat(c) /\ c # <<>>
    BY <2>1, NeatOne, Zenon, CommaReads
  <2>3. c \in Seq(Units) /\ c[1] = Unit(",") /\ c[Len(c)] = Unit(",")
    <3> DEFINE u == Unit(",")
    <3>1. u \in Units
      BY <2>1, Zenon
    <3> HIDE DEF u
    <3>2. <<u>> \in Seq(Units) /\ <<u>>[1] = u /\ <<u>>[Len(<<u>>)] = u
      BY <3>1
    <3>3. QED
      BY <3>2, Zenon DEF u
  <2> HIDE DEF c
  <2>4. MayFollow(r[Len(r)], c[1])
    BY <1>1, <2>1, <2>3, <1>2 DEF MayFollow
  <2>5. Neat(Cat(r, c))
    BY <1>3, <2>2, <2>4, NeatCat, Zenon
  <2>6. Stops(c, {","})
    BY <2>1, <2>2, <2>3, Zenon DEF Stops
  <2>7. Starts(Cat(r, c), {name}) /\ Stops(Cat(r, c), {","})
    BY <1>1, <1>4, <2>3, <2>6, CatEdges, Zenon
  <2>8. QED
    BY <1>6, <2>2, <2>5, <2>7, Zenon
<1>7. QED
  BY <1>5, <1>6, Zenon DEF Comma, r, c

\* What is between the brackets of an array.
Array(text, name) == Neat(text) /\ (text = <<>> \/ (Starts(text, {name}) /\ Stops(text, Verdicts)))

\* Whatever the rows, the commas between them are where they belong.
LEMMA JsonRowsNeat ==
    ASSUME NEW name \in RowNames, NEW rows \in Seq(RowRecords), NEW total
    PROVE  Array(Joined(JsonRows(name, rows, total)), name)
<1> DEFINE texts == JsonRows(name, rows, total)
           N == Len(rows)
           T(i) == Row(name, rows[i]) \o Separator(rows, i, total)
<1>1. DOMAIN rows = 1..N /\ N \in Nat /\ \A i \in 1..N : rows[i] \in RowRecords
  OBVIOUS
<1>2. ASSUME NEW i \in 1..N
      PROVE  /\ Neat(T(i)) /\ Starts(T(i), {name})
             /\ Stops(T(i), IF i = N THEN Verdicts ELSE {","})
  <2>1. /\ Comma(Separator(rows, i, total))
        /\ Separator(rows, i, total) = IF i = N THEN <<>> ELSE <<Unit(",")>>
    BY Zenon DEF Separator, Comma
  <2>2. <<Unit(",")>> # <<>>
    BY CommaReads, Zenon
  <2>3. T(i) = Cat(Row(name, rows[i]), Separator(rows, i, total))
    BY Zenon DEF Cat
  <2>4. rows[i] \in RowRecords
    BY <1>1, Zenon
  <2> HIDE DEF T, N
  <2>5. /\ Neat(T(i)) /\ Starts(T(i), {name})
        /\ Stops(T(i), IF Separator(rows, i, total) = <<>> THEN Verdicts ELSE {","})
    <3>1. /\ Neat(Cat(Row(name, rows[i]), Separator(rows, i, total)))
          /\ Starts(Cat(Row(name, rows[i]), Separator(rows, i, total)), {name})
          /\ Stops(Cat(Row(name, rows[i]), Separator(rows, i, total)),
                   IF Separator(rows, i, total) = <<>> THEN Verdicts ELSE {","})
      BY <2>1, <2>4, JsonRowNeat, Zenon
    <3>2. QED
      BY <2>3, <3>1, Zenon
  <2>6. Separator(rows, i, total) = <<>> <=> i = N
    BY <2>1, <2>2, Zenon
  <2>7. QED
    BY <2>5, <2>6, Zenon
<1>3. texts = [i \in 1..N |-> T(i)]
  BY <1>1, Zenon DEF JsonRows
<1> HIDE DEF texts, T
<1>4. /\ Len(texts) = N /\ Len(texts) \in Nat
      /\ \A i \in 1..N : texts[i] = T(i)
  BY <1>1, <1>3
<1>5. \A i \in 1..N : /\ Neat(texts[i]) /\ Starts(texts[i], {name}) /\ texts[i] \in Seq(Units)
                      /\ Stops(texts[i], IF i = N THEN Verdicts ELSE {","})
  BY <1>2, <1>4, Zenon DEF Neat
<1>6. PICK g : JoinLoop(g, texts, Units)
  BY <1>4, <1>5, JoinedLoop, Zenon
<1>7. /\ g \in [0..N -> Seq(Units)] /\ g[0] = <<>> /\ Joined(texts) = g[N]
      /\ \A n \in 1..N : g[n] = Cat(g[n - 1], texts[n])
  BY <1>4, <1>6, Zenon DEF JoinLoop, Cat
<1> HIDE DEF N
<1> DEFINE Good(n) == /\ Neat(g[n])
                      /\ n # 0 => /\ Starts(g[n], {name})
                                  /\ Stops(g[n], IF n = N THEN Verdicts ELSE {","})
           Held == {n \in 0..N : Good(n)}
<1>8. 0 \in Held
  <2>1. <<>> \in Seq(Units) /\ \A i \in 1..(Len(<<>>) - 1) : FALSE
    OBVIOUS
  <2>2. Neat(<<>>)
    BY <2>1, Zenon DEF Neat
  <2>3. Good(0)
    BY <1>7, <2>2, Zenon
  <2>4. 0 \in 0..N
    BY <1>1
  <2>5. QED
    BY <2>3, <2>4, Zenon
<1>9. ASSUME NEW n \in 1..N, n - 1 \in Held PROVE n \in Held
  <2> DEFINE a == g[n - 1]
             b == texts[n]
  <2>1. n - 1 \in 0..N /\ n \in 0..N /\ n # 0 /\ (n - 1 # N)
    BY <1>1
  <2>2. /\ Neat(a) /\ a \in Seq(Units)
        /\ n - 1 # 0 => Starts(a, {name}) /\ Stops(a, {","})
    BY <1>9, <2>1, Zenon DEF Neat
  <2>3. /\ Neat(b) /\ Starts(b, {name}) /\ b \in Seq(Units)
        /\ Stops(b, IF n = N THEN Verdicts ELSE {","})
    BY <1>5, Zenon
  <2>4. g[n] = Cat(a, b)
    BY <1>7, Zenon
  <2>5. n - 1 = 0 => a = <<>>
    BY <1>7, Zenon
  <2> HIDE DEF a, b
  <2>6. Stops(Cat(a, b), IF n = N THEN Verdicts ELSE {","})
    BY <2>2, <2>3, CatEdges, Zenon
  <2>7. Neat(Cat(a, b))
    <3>1. ASSUME a # <<>> PROVE MayFollow(a[Len(a)], b[1])
      <4>1. a[Len(a)].text = "," /\ b[1].text = name
        BY <2>2, <2>3, <2>5, <3>1, Zenon DEF Starts, Stops
      <4>2. "," \notin Verdicts /\ name # "," /\ name \in RowNames
        BY DEF Verdicts, RowNames
      <4>3. QED
        BY <4>1, <4>2, Zenon DEF MayFollow
    <3>2. QED
      BY <2>2, <2>3, <3>1, NeatCat, Zenon
  <2>8. Starts(Cat(a, b), {name})
    <3>1. CASE n - 1 = 0
      <4>1. Cat(a, b) = b
        BY <2>3, <2>5, <3>1, CatEmpty, Zenon
      <4>2. QED
        BY <2>3, <4>1, Zenon
    <3>2. CASE n - 1 # 0
      BY <2>2, <2>3, <3>2, CatEdges, Zenon
    <3>3. QED
      BY <3>1, <3>2, Zenon
  <2>9. QED
    BY <2>1, <2>4, <2>6, <2>7, <2>8, Zenon
<1> HIDE DEF Held
<1>10. \A n \in 0..N : n \in Held
  BY <1>1, <1>8, <1>9, Induction
<1>11. Good(N)
  <2>1. N \in Held
    <3>1. N \in 0..N
      BY <1>1
    <3>2. QED
      BY <1>10, <3>1, Zenon
  <2>2. QED
    BY <2>1, Zenon DEF Held
<1>12. Array(g[N], name)
  BY <1>7, <1>11, Zenon DEF Array
<1>13. QED
  BY <1>7, <1>12, Zenon DEF texts

\* A text up to an opening bracket, an array, and a text from its closing bracket.
LEMMA ArrayNeat ==
    ASSUME NEW a, NEW b, NEW c, NEW name \in RowNames, NEW first, NEW last,
           Neat(a), Starts(a, first), Stops(a, {"["}), Array(b, name),
           Neat(c), Starts(c, {"]"}), Stops(c, last)
    PROVE  /\ Neat(Cat(Cat(a, b), c))
           /\ Starts(Cat(Cat(a, b), c), first) /\ Stops(Cat(Cat(a, b), c), last)
<1>1. a \in Seq(Units) /\ b \in Seq(Units) /\ c \in Seq(Units)
  BY Zenon DEF Array, Neat
<1>2. "[" \notin Verdicts /\ "[" # "," /\ "]" # "," /\ name # "," /\ "," \notin Verdicts
      /\ "]" \notin Verdicts
  BY DEF Verdicts, RowNames
<1>3. Neat(Cat(a, b)) /\ Cat(a, b) \in Seq(Units)
  <2>1. ASSUME b # <<>> PROVE MayFollow(a[Len(a)], b[1])
    <3>1. a[Len(a)].text = "[" /\ b[1].text = name
      BY <2>1, Zenon DEF Array, Starts, Stops
    <3>2. QED
      BY <1>2, <3>1, Zenon DEF MayFollow
  <2>2. Neat(b)
    BY Zenon DEF Array
  <2>3. QED
    BY <1>1, <2>1, <2>2, NeatCat, CatType, Zenon
<1>4. Stops(Cat(a, b), Verdicts \cup {"["}) /\ Starts(Cat(a, b), first)
  <2>1. CASE b = <<>>
    <3>1. Cat(a, b) = a
      BY <1>1, <2>1, CatEmpty, Zenon
    <3>2. QED
      BY <3>1, Zenon DEF Stops
  <2>2. CASE b # <<>>
    <3>1. Stops(b, Verdicts)
      BY <2>2, Zenon DEF Array
    <3>2. Stops(Cat(a, b), Verdicts) /\ Starts(Cat(a, b), first)
      BY <1>1, <3>1, CatEdges, Zenon
    <3>3. QED
      BY <3>2, Zenon DEF Stops
  <2>3. QED
    BY <2>1, <2>2, Zenon
<1> DEFINE d == Cat(a, b)
<1> HIDE DEF d
<1>5. MayFollow(d[Len(d)], c[1])
  <2>1. d[Len(d)].text \in Verdicts \cup {"["} /\ c[1].text = "]"
    BY <1>4, Zenon DEF Starts, Stops, d
  <2>2. d[Len(d)].text # "," /\ "]" \in {",", "]"}
    BY <1>2, <2>1
  <2>3. QED
    BY <1>2, <2>1, <2>2, Zenon DEF MayFollow
<1>6. Neat(Cat(d, c))
  BY <1>3, <1>5, NeatCat, Zenon DEF d
<1>7. Starts(Cat(d, c), first) /\ Stops(Cat(d, c), last)
  BY <1>1, <1>3, <1>4, CatEdges, Zenon DEF d
<1>8. QED
  BY <1>6, <1>7, Zenon DEF d

\* Two units, and three.
LEMMA PairUnits ==
    ASSUME NEW u \in Units, NEW v \in Units
    PROVE  /\ <<u, v>> \in Seq(Units) /\ <<u, v>> # <<>> /\ Len(<<u, v>>) = 2
           /\ <<u, v>>[1] = u /\ <<u, v>>[2] = v
           /\ \A i \in 1..(Len(<<u, v>>) - 1) : i = 1 /\ i + 1 = 2
  OBVIOUS

LEMMA TripleUnits ==
    ASSUME NEW u \in Units, NEW v \in Units, NEW w \in Units
    PROVE  /\ <<u, v, w>> \in Seq(Units) /\ <<u, v, w>> # <<>> /\ Len(<<u, v, w>>) = 3
           /\ <<u, v, w>>[1] = u /\ <<u, v, w>>[2] = v /\ <<u, v, w>>[3] = w
           /\ \A i \in 1..(Len(<<u, v, w>>) - 1) :
                 (i = 1 /\ i + 1 = 2) \/ (i = 2 /\ i + 1 = 3)
  OBVIOUS

\* The units around the arrays.
LEMMA BracketNeat ==
    ASSUME NEW u \in Units, NEW v \in Units, u.text \notin Verdicts, u.text # ",", v.text # ","
    PROVE  /\ Neat(<<u, v>>) /\ Starts(<<u, v>>, {u.text}) /\ Stops(<<u, v>>, {v.text})
<1> DEFINE t == <<u, v>>
<1>1. t \in Seq(Units) /\ Len(t) = 2
  BY PairUnits, Zenon
<1>2. t # <<>> /\ t[1] = u /\ t[2] = v
  BY PairUnits, Zenon
<1>3. \A i \in 1..(Len(t) - 1) : i = 1 /\ i + 1 = 2
  BY PairUnits, Zenon
<1> HIDE DEF t
<1>4. MayFollow(u, v)
  BY Zenon DEF MayFollow
<1>5. Neat(t)
  BY <1>1, <1>2, <1>3, <1>4, Zenon DEF Neat
<1>6. Starts(t, {u.text}) /\ Stops(t, {v.text})
  BY <1>1, <1>2, Zenon DEF Starts, Stops
<1>7. QED
  BY <1>5, <1>6, Zenon DEF t

LEMMA HeadNeat ==
    ASSUME NEW u \in Units, NEW v \in Units, NEW w \in Units,
           u.text \notin Verdicts, u.text # ",", v.text \notin Verdicts, v.text # ",",
           w.text # ","
    PROVE  /\ Neat(<<u, v, w>>)
           /\ Starts(<<u, v, w>>, {u.text}) /\ Stops(<<u, v, w>>, {w.text})
<1> DEFINE t == <<u, v, w>>
<1>1. t \in Seq(Units) /\ Len(t) = 3
  BY TripleUnits, Zenon
<1>2. t # <<>> /\ t[1] = u /\ t[2] = v /\ t[3] = w
  BY TripleUnits, Zenon
<1>3. \A i \in 1..(Len(t) - 1) : (i = 1 /\ i + 1 = 2) \/ (i = 2 /\ i + 1 = 3)
  BY TripleUnits, Zenon
<1> HIDE DEF t
<1>4. MayFollow(u, v) /\ MayFollow(v, w)
  BY Zenon DEF MayFollow
<1>5. Neat(t)
  BY <1>1, <1>2, <1>3, <1>4, Zenon DEF Neat
<1>6. Starts(t, {u.text}) /\ Stops(t, {w.text})
  BY <1>1, <1>2, Zenon DEF Starts, Stops
<1>7. QED
  BY <1>5, <1>6, Zenon DEF t

\* The JSON formats are neat from their counts to their ends.
LEMMA JsonNeat ==
    ASSUME NEW snaps, NEW flag, TwoSnapped(snaps, flag),
           NEW g \in Nat, Generation(snaps) = Number("generation", g)
    PROVE  /\ Neat(Joined(Json(snaps)))
           /\ Starts(Joined(Json(snaps)), {"count"}) /\ Stops(Joined(Json(snaps)), {"end"})
<1> DEFINE total == Len(snaps[1].rows) + Len(snaps[2].rows)
           u == Number("count", total)
           v == Number("generation", g)
           open == Unit("[")
           close == Unit("]")
           last == Unit("end")
           a == <<u, v, open>>
           b == JsonRows("http", snaps[1].rows, total)
           c == <<close, open>>
           d == JsonRows("stream", snaps[2].rows, total)
           e == <<close, last>>
           e1 == << <<close>> >>
           e2 == << <<last>> >>
<1>1. Json(snaps) = Cat(Cat(Cat(Cat(<<a>>, b), <<c>>), d), Cat(e1, e2))
  <2>1. Cat(e1, e2) = << <<close>>, <<last>> >>
    BY CatPair
  <2>2. QED
    BY <2>1, Zenon DEF Json, Cat
<1>2. /\ "http" \in RowNames /\ "stream" \in RowNames
      /\ "count" \in Words /\ "generation" \in Words /\ "[" \in Words /\ "]" \in Words
      /\ "end" \in Words
  BY DEF Words, RowNames
<1>3. snaps[1].rows \in Seq(RowRecords) /\ snaps[2].rows \in Seq(RowRecords) /\ total \in Nat
  <2>1. snaps[1].rows \in Seq(RowRecords) /\ snaps[2].rows \in Seq(RowRecords)
    BY Zenon DEF TwoSnapped, Snapped
  <2>2. Len(snaps[1].rows) \in Nat /\ Len(snaps[2].rows) \in Nat
    BY <2>1
  <2>3. \A m, n \in Nat : m + n \in Nat
    OBVIOUS
  <2>4. QED
    BY <2>1, <2>2, <2>3, Zenon
<1>4. /\ u \in Units /\ u.text = "count" /\ v \in Units /\ v.text = "generation"
      /\ open \in Units /\ open.text = "[" /\ close \in Units /\ close.text = "]"
      /\ last \in Units /\ last.text = "end"
  <2> HIDE DEF total
  <2>1. QED
    BY <1>2, <1>3, NumberUnit, PlainUnit, Zenon
<1>5. Array(Joined(b), "http") /\ Array(Joined(d), "stream")
  BY <1>2, <1>3, JsonRowsNeat, Zenon
<1>6. b \in Seq(Seq(Units)) /\ d \in Seq(Seq(Units))
  <2>1. Says(b, "http", snaps[1].rows) /\ Says(d, "stream", snaps[2].rows)
    BY <1>2, <1>3, JsonRowsSay, Zenon
  <2>2. QED
    BY <2>1, Zenon DEF Says
<1> HIDE DEF total, u, v, open, close, last, b, d
<1>7. /\ "count" \notin Verdicts /\ "count" # "," /\ "generation" \notin Verdicts
      /\ "generation" # "," /\ "[" # "," /\ "]" \notin Verdicts /\ "]" # "," /\ "end" # ","
  BY DEF Verdicts
<1>8. Neat(a) /\ Starts(a, {"count"}) /\ Stops(a, {"["})
  <2>1. Neat(a) /\ Starts(a, {u.text}) /\ Stops(a, {open.text})
    BY <1>4, <1>7, HeadNeat, Zenon
  <2>2. QED
    BY <1>4, <2>1, Zenon
<1>9. Neat(c) /\ Starts(c, {"]"}) /\ Stops(c, {"["})
  <2>1. Neat(c) /\ Starts(c, {close.text}) /\ Stops(c, {open.text})
    BY <1>4, <1>7, BracketNeat, Zenon
  <2>2. QED
    BY <1>4, <2>1, Zenon
<1>10. Neat(e) /\ Starts(e, {"]"}) /\ Stops(e, {"end"})
  <2>1. Neat(e) /\ Starts(e, {close.text}) /\ Stops(e, {last.text})
    BY <1>4, <1>7, BracketNeat, Zenon
  <2>2. QED
    BY <1>4, <2>1, Zenon
<1>11. Joined(Cat(e1, e2)) = e /\ Cat(e1, e2) \in Seq(Seq(Units))
  <2>1. <<close>> \in Seq(Units) /\ <<last>> \in Seq(Units)
    BY <1>4
  <2>2. e1 \in Seq(Seq(Units)) /\ e2 \in Seq(Seq(Units))
    BY <2>1
  <2>3. Joined(e1) = <<close>> /\ Joined(e2) = <<last>>
    BY <2>1, JoinedOne, Zenon
  <2> HIDE DEF e1, e2
  <2>4. Joined(Cat(e1, e2)) = Cat(<<close>>, <<last>>) /\ Cat(e1, e2) \in Seq(Seq(Units))
    BY <2>2, <2>3, JoinedConcat, CatType, Zenon
  <2>5. QED
    BY <2>4, CatPair, Zenon
<1>12. /\ a \in Seq(Units) /\ c \in Seq(Units)
       /\ <<a>> \in Seq(Seq(Units)) /\ <<c>> \in Seq(Seq(Units))
  <2>1. a \in Seq(Units) /\ c \in Seq(Units)
    BY <1>8, <1>9, Zenon DEF Neat
  <2> HIDE DEF a, c
  <2>2. QED
    BY <2>1
<1> DEFINE f == Cat(e1, e2)
<1> HIDE DEF f
<1>13. Joined(Json(snaps)) = Cat(Cat(Cat(Cat(a, Joined(b)), c), Joined(d)), e)
  <2> DEFINE p == Cat(<<a>>, b)
             q == Cat(p, <<c>>)
             r == Cat(q, d)
  <2>1. Joined(<<a>>) = a /\ Joined(<<c>>) = c
    BY <1>12, JoinedOne, Zenon
  <2> HIDE DEF a, c, e
  <2>2. Joined(p) = Cat(a, Joined(b)) /\ p \in Seq(Seq(Units))
    BY <1>6, <1>12, <2>1, JoinedConcat, CatType, Zenon
  <2> HIDE DEF p
  <2>3. Joined(q) = Cat(Joined(p), c) /\ q \in Seq(Seq(Units))
    BY <1>12, <2>1, <2>2, JoinedConcat, CatType, Zenon
  <2> HIDE DEF q
  <2>4. Joined(r) = Cat(Joined(q), Joined(d)) /\ r \in Seq(Seq(Units))
    BY <1>6, <2>3, JoinedConcat, CatType, Zenon
  <2> HIDE DEF r
  <2>5. Joined(Cat(r, f)) = Cat(Joined(r), e)
    BY <1>11, <2>4, JoinedConcat, Zenon DEF f
  <2>6. Json(snaps) = Cat(r, f)
    BY <1>1, Zenon DEF p, q, r, f
  <2>7. QED
    BY <2>2, <2>3, <2>4, <2>5, <2>6, Zenon
<1> HIDE DEF a, c, e
<1>14. /\ Neat(Cat(Cat(a, Joined(b)), c)) /\ Starts(Cat(Cat(a, Joined(b)), c), {"count"})
       /\ Stops(Cat(Cat(a, Joined(b)), c), {"["})
  BY <1>2, <1>5, <1>8, <1>9, ArrayNeat, Zenon
<1>15. /\ Neat(Cat(Cat(Cat(Cat(a, Joined(b)), c), Joined(d)), e))
       /\ Starts(Cat(Cat(Cat(Cat(a, Joined(b)), c), Joined(d)), e), {"count"})
       /\ Stops(Cat(Cat(Cat(Cat(a, Joined(b)), c), Joined(d)), e), {"end"})
  BY <1>2, <1>5, <1>10, <1>14, ArrayNeat, Zenon
<1>16. QED
  BY <1>13, <1>15, Zenon

LEMMA LegacyJsonNeat ==
    ASSUME NEW snap, NEW flag, Snapped(snap, flag)
    PROVE  LET text == Joined(Legacy("legacy json", snap))
           IN  Neat(text) /\ Starts(text, {"count"}) /\ Stops(text, {"end"})
<1> DEFINE u == Number("count", Len(snap.rows))
           v == Number("generation", snap.generation)
           open == Unit("[")
           close == Unit("]")
           last == Unit("end")
           a == <<u, v, open>>
           b == JsonRows("http", snap.rows, Len(snap.rows))
           c == <<close, last>>
<1>1. Legacy("legacy json", snap) = Cat(Cat(<<a>>, b), <<c>>)
  <2>1. "legacy json" # "legacy html" /\ "legacy json" # "legacy csv"
    OBVIOUS
  <2>2. <<u, v>> \o <<open>> = <<u, v, open>>
    BY CatTriple, Zenon DEF Cat
  <2>3. QED
    BY <2>1, <2>2, Zenon DEF Legacy, LegacyHead, Cat
<1>2. /\ "http" \in RowNames
      /\ "count" \in Words /\ "generation" \in Words /\ "[" \in Words /\ "]" \in Words
      /\ "end" \in Words
  BY DEF Words, RowNames
<1>3. snap.rows \in Seq(RowRecords) /\ Len(snap.rows) \in Nat /\ snap.generation \in Nat
  BY DEF Snapped
<1>4. /\ u \in Units /\ u.text = "count" /\ v \in Units /\ v.text = "generation"
      /\ open \in Units /\ open.text = "[" /\ close \in Units /\ close.text = "]"
      /\ last \in Units /\ last.text = "end"
  BY <1>2, <1>3, NumberUnit, PlainUnit, Zenon
<1>5. Array(Joined(b), "http")
  BY <1>2, <1>3, JsonRowsNeat, Zenon
<1>6. b \in Seq(Seq(Units))
  <2>1. Says(b, "http", snap.rows)
    BY <1>2, <1>3, JsonRowsSay, Zenon
  <2>2. QED
    BY <2>1, Zenon DEF Says
<1> HIDE DEF u, v, open, close, last, b
<1>7. /\ "count" \notin Verdicts /\ "count" # "," /\ "generation" \notin Verdicts
      /\ "generation" # "," /\ "[" # "," /\ "]" \notin Verdicts /\ "]" # "," /\ "end" # ","
  BY DEF Verdicts
<1>8. Neat(a) /\ Starts(a, {"count"}) /\ Stops(a, {"["})
  <2>1. Neat(a) /\ Starts(a, {u.text}) /\ Stops(a, {open.text})
    BY <1>4, <1>7, HeadNeat, Zenon
  <2>2. QED
    BY <1>4, <2>1, Zenon
<1>9. Neat(c) /\ Starts(c, {"]"}) /\ Stops(c, {"end"})
  <2>1. Neat(c) /\ Starts(c, {close.text}) /\ Stops(c, {last.text})
    BY <1>4, <1>7, BracketNeat, Zenon
  <2>2. QED
    BY <1>4, <2>1, Zenon
<1>10. a \in Seq(Units) /\ c \in Seq(Units)
  BY <1>8, <1>9, Zenon DEF Neat
<1> HIDE DEF a, c
<1>11. <<a>> \in Seq(Seq(Units)) /\ <<c>> \in Seq(Seq(Units))
  BY <1>10
<1>12. Joined(Cat(Cat(<<a>>, b), <<c>>)) = Cat(Cat(a, Joined(b)), c)
  <2> DEFINE p == Cat(<<a>>, b)
  <2>1. Joined(<<a>>) = a /\ Joined(<<c>>) = c
    BY <1>10, JoinedOne, Zenon
  <2>2. Joined(p) = Cat(a, Joined(b)) /\ p \in Seq(Seq(Units))
    BY <1>6, <1>11, <2>1, JoinedConcat, CatType, Zenon
  <2> HIDE DEF p
  <2>3. Joined(Cat(p, <<c>>)) = Cat(Joined(p), c)
    BY <1>11, <2>1, <2>2, JoinedConcat, Zenon
  <2>4. QED
    BY <2>2, <2>3, Zenon DEF p
<1>13. /\ Neat(Cat(Cat(a, Joined(b)), c)) /\ Starts(Cat(Cat(a, Joined(b)), c), {"count"})
       /\ Stops(Cat(Cat(a, Joined(b)), c), {"end"})
  BY <1>2, <1>5, <1>8, <1>9, ArrayNeat, Zenon
<1>14. QED
  BY <1>1, <1>12, <1>13, Zenon

\* What a reader finds around the rows and the commas.
LEMMA NeatCommas ==
    ASSUME NEW text, Neat(text), Starts(text, {"count"}), Stops(text, {"end"}),
           NEW i \in DOMAIN text
    PROVE  /\ text[i].text \in {"up", "down"} => text[i + 1].text \in {",", "]"}
           /\ text[i].text = "," => /\ text[i - 1].text \in {"up", "down"}
                                    /\ text[i + 1].text \in {"http", "stream"}
<1>1. text \in Seq(Units) /\ text[1].text = "count" /\ text[Len(text)].text = "end"
  BY Zenon DEF Neat, Starts, Stops
<1>2. i \in 1..Len(text) /\ Len(text) \in Nat
  BY <1>1
<1>3. "end" \notin Verdicts /\ "end" # "," /\ "count" # ","
  BY DEF Verdicts
<1>4. ASSUME text[i].text \in Verdicts \/ text[i].text = ","
      PROVE  MayFollow(text[i], text[i + 1])
  <2>1. i # Len(text)
    BY <1>1, <1>3, <1>4, Zenon
  <2>2. i \in 1..(Len(text) - 1)
    BY <1>2, <2>1
  <2>3. QED
    BY <2>2, Zenon DEF Neat
<1>5. ASSUME text[i].text = "," PROVE MayFollow(text[i - 1], text[i])
  <2>1. i # 1
    BY <1>1, <1>3, <1>5, Zenon
  <2>2. i - 1 \in 1..(Len(text) - 1) /\ (i - 1) + 1 = i
    BY <1>2, <2>1
  <2>3. MayFollow(text[i - 1], text[(i - 1) + 1])
    BY <2>2, Zenon DEF Neat
  <2>4. QED
    BY <2>2, <2>3, Zenon
<1>6. QED
  BY <1>4, <1>5, Zenon DEF MayFollow, Verdicts, RowNames

----------------------------------------------------------------------------
(***************************************************************************)
(* The request and its answer                                              *)
(***************************************************************************)
\* The request and the answer it should get.
Requested ==
    /\ output.format \in StatusFormats \cup LegacyFormats
    /\ output.flag \in Flags
    /\ \E http \in Collected(1), stream \in Collected(2) \cup {NoSource} :
          output.sources =
              IF output.format \in LegacyFormats THEN <<http>> ELSE <<http, stream>>

\* What was collected of its sources, and the answer.
Snaps == [s \in DOMAIN output.sources |-> Snapshot(output.sources[s], output.flag)]

Answer == Joined(Calls(output.format, Snaps, output.flag))

\* Every block but the last is full, and none is empty.
Filled(blocks) ==
    /\ blocks \in Seq(Texts)
    /\ \A b \in DOMAIN blocks : /\ Len(blocks[b]) <= BlockSize
                                /\ b # Len(blocks) => Len(blocks[b]) = BlockSize

\* The blocks and the text still to be written make up the answer.
Written ==
    /\ Filled(output.blocks) /\ output.calls \in Seq(Texts)
    /\ output.length = Len(Joined(output.blocks))
    /\ Cat(Joined(output.blocks), Joined(output.calls)) = Answer

\* The inductive invariant: while the answer is written the blocks and what is left
\* make it up, and what is sent are all its blocks, or none.
OutputInv ==
    /\ DOMAIN output = DOMAIN NoOutput
    /\ output.pc \in {"collected", "write", "sent", "failed"}
    /\ output.pc = "collected" => output = NoOutput
    /\ output.pc \in {"write", "sent"} => Requested /\ Written
    /\ output.pc \in {"write", "failed"} => output.body = <<>>
    /\ output.pc = "sent" =>
          output.calls = <<>> /\ output.body \in {<<>>, Joined(output.blocks)}

\* What was collected of a source.
Source(c) == c.verdicts \in Seq(BOOLEAN) /\ c.generation \in Nat

\* Every source that can be collected is sound, and there is a first one.
LEMMA SourcesSound ==
    /\ \A c \in Collected(1) : Source(c) /\ c.generation = 1
    /\ \A c \in Collected(2) \cup {NoSource} : Source(c)
<1>1. ASSUME NEW s \in Nat, NEW c \in Collected(s)
      PROVE  Source(c) /\ c.generation = s
  <2>1. c.generation = s /\ c.verdicts \in UNION {[1..n -> BOOLEAN] : n \in 0..MaxShown}
    BY <1>1 DEF Collected
  <2>2. PICK n \in 0..MaxShown : c.verdicts \in [1..n -> BOOLEAN]
    BY <2>1
  <2>3. n \in Nat
    BY OutputAssumption
  <2>4. c.verdicts \in Seq(BOOLEAN)
    BY <2>2, <2>3
  <2>5. QED
    BY <1>1, <2>1, <2>4, Zenon DEF Source
<1>2. Source(NoSource)
  BY DEF Source, NoSource
<1>3. 1 \in Nat /\ 2 \in Nat
  OBVIOUS
<1>4. QED
  BY <1>1, <1>2, <1>3, Zenon

\* So is the snapshot of a sound source.
LEMMA SnapshotSound ==
    ASSUME NEW c, NEW flag, Source(c)
    PROVE  /\ Snapped(Snapshot(c, flag), flag)
           /\ Snapshot(c, flag).rows = Kept(flag, Peers(c.verdicts))
           /\ Snapshot(c, flag).total = Len(c.verdicts)
           /\ Snapshot(c, flag).generation = c.generation
<1> DEFINE rows == Peers(c.verdicts)
           snap == Snapshot(c, flag)
<1>1. rows \in Seq(RowRecords) /\ Len(rows) = Len(c.verdicts)
  BY PeersType, Zenon DEF Source
<1>2. /\ snap.generation = c.generation /\ snap.total = Len(c.verdicts)
      /\ snap.up = Len(Kept("up", rows)) /\ snap.rows = Kept(flag, rows)
  BY DEF Snapshot
<1> HIDE DEF rows, snap
<1>3. /\ Kept(flag, rows) \in Seq(RowRecords)
      /\ Kept(flag, Kept(flag, rows)) = Kept(flag, rows)
  BY <1>1, KeptType, KeptTwice, Zenon
<1>4. /\ snap.total \in Nat /\ snap.up \in Nat /\ snap.total - snap.up \in Nat
  <2> DEFINE up == Len(Kept("up", rows))
             down == Len(Kept("down", rows))
             all == Len(rows)
  <2>1. up \in Nat /\ down \in Nat /\ up + down = all
    BY <1>1, KeptSplit, Zenon
  <2>2. all \in Nat /\ snap.up = up /\ snap.total = all
    BY <1>1, <1>2
  <2> HIDE DEF up, down, all
  <2>3. QED
    BY <2>1, <2>2
<1>5. QED
  BY <1>2, <1>3, <1>4, Zenon DEF Snapped, Source, rows, snap

\* The snapshots of a request, and the generation it prints.
LEMMA StatusSnaps ==
    ASSUME Requested, output.format \notin LegacyFormats
    PROVE  \E h \in Collected(1), s \in Collected(2) \cup {NoSource} :
              /\ output.sources = <<h, s>>
              /\ DOMAIN output.sources = {1, 2}
              /\ Snaps[1] = Snapshot(h, output.flag) /\ Snaps[2] = Snapshot(s, output.flag)
              /\ TwoSnapped(Snaps, output.flag)
<1>1. PICK h \in Collected(1), s \in Collected(2) \cup {NoSource} : output.sources = <<h, s>>
  BY Zenon DEF Requested
<1>2. Source(h) /\ Source(s)
  BY SourcesSound, Zenon
<1>3. DOMAIN <<h, s>> = {1, 2} /\ <<h, s>>[1] = h /\ <<h, s>>[2] = s
  OBVIOUS
<1>4. 1 \in {1, 2} /\ 2 \in {1, 2}
  OBVIOUS
<1>5. Snaps[1] = Snapshot(h, output.flag) /\ Snaps[2] = Snapshot(s, output.flag)
  BY <1>1, <1>3, <1>4, Zenon DEF Snaps
<1>6. TwoSnapped(Snaps, output.flag)
  BY <1>2, <1>5, SnapshotSound, Zenon DEF TwoSnapped
<1>7. QED
  BY <1>1, <1>3, <1>5, <1>6, Zenon

LEMMA LegacySnaps ==
    ASSUME Requested, output.format \in LegacyFormats
    PROVE  \E h \in Collected(1) :
              /\ output.sources = <<h>>
              /\ DOMAIN output.sources = {1}
              /\ Snaps[1] = Snapshot(h, output.flag)
              /\ Snapped(Snaps[1], output.flag)
<1>1. PICK h \in Collected(1) : output.sources = <<h>>
  BY Zenon DEF Requested
<1>2. Source(h)
  BY SourcesSound, Zenon
<1>3. DOMAIN <<h>> = {1} /\ <<h>>[1] = h
  OBVIOUS
<1>4. 1 \in {1}
  OBVIOUS
<1>5. Snaps[1] = Snapshot(h, output.flag)
  BY <1>1, <1>3, <1>4, Zenon DEF Snaps
<1>6. Snapped(Snaps[1], output.flag)
  BY <1>2, <1>5, SnapshotSound, Zenon
<1>7. QED
  BY <1>1, <1>3, <1>5, <1>6, Zenon

\* The generation that is printed is that of a zone there is.
LEMMA GenerationKnown ==
    ASSUME NEW snaps, snaps[1].generation \in Nat, snaps[2].generation \in Nat,
           snaps[1].generation # 0
    PROVE  \E g \in Nat : /\ Generation(snaps) = Number("generation", g)
                          /\ g \in {snaps[1].generation, snaps[2].generation} \ {0}
<1>1. CASE snaps[2].generation = 0
  <2>1. Generation(snaps) = Number("generation", snaps[1].generation)
    BY <1>1, Zenon DEF Generation
  <2>2. QED
    BY <2>1
<1>2. CASE snaps[2].generation # 0
  <2>1. Generation(snaps) = Number("generation", snaps[2].generation)
    BY <1>2, Zenon DEF Generation
  <2>2. QED
    BY <1>2, <2>1
<1>3. QED
  BY <1>1, <1>2, Zenon

\* The formats, one by one.
LEMMA FormatCases ==
    /\ StatusFormats \cup LegacyFormats =
          {"html", "csv", "json", "prometheus", "legacy html", "legacy csv", "legacy json"}
    /\ \A f \in {"html", "csv", "json", "prometheus"} : f \notin LegacyFormats
    /\ \A f \in {"legacy html", "legacy csv", "legacy json"} : f \in LegacyFormats
    /\ \A f \in LegacyFormats : f \notin {"html", "csv", "json", "prometheus"}
  BY DEF StatusFormats, LegacyFormats

----------------------------------------------------------------------------
(***************************************************************************)
(* Every answer is right                                                   *)
(***************************************************************************)
\* What is read of the text of the calls, in the words of the properties.
LEMMA SaysRead ==
    ASSUME NEW calls, NEW label, NEW r, Says(calls, label, r)
    PROVE  /\ calls \in Seq(Texts)
           /\ label \in RowNames => ReadRows(Joined(calls), label) = r
           /\ label \notin RowNames => ReadNumbers(Joined(calls), label) = r
  BY Zenon DEF Says, Reading

\* The labels of the properties.
LEMMA LabelNames ==
    /\ "http" \in RowNames /\ "stream" \in RowNames
    /\ \A label \in {"count", "count up", "count down", "generation"} : label \notin RowNames
    /\ Names[1] = "http" /\ Names[2] = "stream"
  BY DEF RowNames, Names

\* What is read of the rows, the way Says puts it.
Shown(rows) == IF output.format = "prometheus" THEN Cat(Cat(rows, rows), rows) ELSE rows

LEMMA ShownIs ==
    ASSUME NEW rows
    PROVE  Shown(rows) = IF output.format = "prometheus" THEN rows \o rows \o rows ELSE rows
  BY DEF Shown, Cat

\* Calls that say the expected rows of every source show them.
LEMMA RowsShownOf ==
    ASSUME NEW calls,
           \A s \in DOMAIN output.sources :
              Names[s] \in RowNames /\ Says(calls, Names[s], Shown(Expected(s)))
    PROVE  RowsShown(Joined(calls))
<1> DEFINE text == Joined(calls)
<1>1. SUFFICES ASSUME NEW s \in DOMAIN output.sources
               PROVE  ReadRows(text, Names[s]) = Shown(Expected(s))
  BY <1>1, ShownIs, Zenon DEF RowsShown
<1>2. QED
  BY SaysRead, Zenon

\* Nothing says how many are up.
LEMMA NoneUp == DOMAIN <<>> = {}
  OBVIOUS

\* The rows of two sources, joined.
LEMMA PairRows ==
    ASSUME NEW e \in Seq(RowRecords), NEW f \in Seq(RowRecords)
    PROVE  Joined(<<e, f>>) = Cat(e, f) /\ Len(Cat(e, f)) = Len(e) + Len(f)
<1>1. Cat(<<e>>, <<f>>) = <<e, f>>
  BY CatPair, Zenon
<1>2. <<e>> \in Seq(Seq(RowRecords)) /\ <<f>> \in Seq(Seq(RowRecords))
  <2> DEFINE S == Seq(RowRecords)
  <2>1. e \in S /\ f \in S
    OBVIOUS
  <2> HIDE DEF S
  <2>2. <<e>> \in Seq(S) /\ <<f>> \in Seq(S)
    BY <2>1
  <2>3. QED
    BY <2>2 DEF S
<1>3. Joined(<<e, f>>) = Cat(Joined(<<e>>), Joined(<<f>>))
  BY <1>1, <1>2, JoinedConcat, Zenon
<1>4. Joined(<<e>>) = e /\ Joined(<<f>>) = f
  BY JoinedOne, Zenon
<1>5. Len(Cat(e, f)) = Len(e) + Len(f)
  BY DEF Cat
<1>6. QED
  BY <1>3, <1>4, <1>5, Zenon

\* A function of the sources is a sequence.
LEMMA PairFunction ==
    ASSUME NEW f, DOMAIN f = {1, 2}, f = [s \in DOMAIN f |-> f[s]]
    PROVE  f = <<f[1], f[2]>>
  OBVIOUS

LEMMA OneFunction ==
    ASSUME NEW f, DOMAIN f = {1}, f = [s \in DOMAIN f |-> f[s]]
    PROVE  f = <<f[1]>>
  OBVIOUS

\* What a request of healthcheck_status expects, which asks for two sources, and what a
\* request of check_status expects, which asks for one.
LEMMA TwoExpected ==
    ASSUME Requested, output.format \notin LegacyFormats
    PROVE  \E h \in Collected(1), s \in Collected(2) \cup {NoSource} :
              /\ output.sources = <<h, s>> /\ DOMAIN output.sources = {1, 2}
              /\ Expected(1) = Snaps[1].rows /\ Expected(2) = Snaps[2].rows
              /\ Snaps[1].rows \in Seq(RowRecords) /\ Snaps[2].rows \in Seq(RowRecords)
              /\ Snaps[1].generation = output.sources[1].generation
              /\ Snaps[2].generation = output.sources[2].generation
              /\ Snaps[1].generation = 1 /\ Snaps[2].generation \in Nat
              /\ Snaps[1].total = Len(output.sources[1].verdicts)
              /\ Snaps[2].total = Len(output.sources[2].verdicts)
              /\ TwoSnapped(Snaps, output.flag)
<1>1. PICK h \in Collected(1), s \in Collected(2) \cup {NoSource} :
              /\ output.sources = <<h, s>>
              /\ DOMAIN output.sources = {1, 2}
              /\ Snaps[1] = Snapshot(h, output.flag) /\ Snaps[2] = Snapshot(s, output.flag)
              /\ TwoSnapped(Snaps, output.flag)
  BY StatusSnaps, Zenon
<1>2. Source(h) /\ Source(s) /\ h.generation = 1
  BY SourcesSound, Zenon
<1>3. output.sources[1] = h /\ output.sources[2] = s
  BY <1>1
<1>4. /\ Snaps[1].rows = Kept(output.flag, Peers(h.verdicts))
      /\ Snaps[2].rows = Kept(output.flag, Peers(s.verdicts))
      /\ Snaps[1].generation = h.generation /\ Snaps[2].generation = s.generation
      /\ Snaps[1].total = Len(h.verdicts) /\ Snaps[2].total = Len(s.verdicts)
  <2>1. \A c : Source(c) => LET snap == Snapshot(c, output.flag)
                            IN  /\ snap.rows = Kept(output.flag, Peers(c.verdicts))
                                /\ snap.generation = c.generation
                                /\ snap.total = Len(c.verdicts)
    BY SnapshotSound, Zenon
  <2>2. QED
    BY <1>1, <1>2, <2>1
<1>5. Expected(1) = Snaps[1].rows /\ Expected(2) = Snaps[2].rows
  BY <1>3, <1>4, Zenon DEF Expected
<1>6. /\ Snaps[1].rows \in Seq(RowRecords) /\ Snaps[2].rows \in Seq(RowRecords)
      /\ Snaps[2].generation \in Nat
  BY <1>1, Zenon DEF TwoSnapped, Snapped
<1>7. QED
  BY <1>1, <1>2, <1>3, <1>4, <1>5, <1>6, Zenon

LEMMA OneExpected ==
    ASSUME Requested, output.format \in LegacyFormats
    PROVE  /\ DOMAIN output.sources = {1}
           /\ Expected(1) = Snaps[1].rows /\ Snaps[1].rows \in Seq(RowRecords)
           /\ Snaps[1].generation = output.sources[1].generation
           /\ Snaps[1].generation = 1
           /\ Snapped(Snaps[1], output.flag)
<1>1. PICK h \in Collected(1) :
              /\ output.sources = <<h>>
              /\ DOMAIN output.sources = {1}
              /\ Snaps[1] = Snapshot(h, output.flag)
              /\ Snapped(Snaps[1], output.flag)
  BY LegacySnaps, Zenon
<1>2. Source(h) /\ h.generation = 1
  BY SourcesSound, Zenon
<1>3. output.sources[1] = h
  BY <1>1
<1>4. /\ Snaps[1].rows = Kept(output.flag, Peers(h.verdicts))
      /\ Snaps[1].generation = h.generation
  <2>1. \A c : Source(c) => LET snap == Snapshot(c, output.flag)
                            IN  /\ snap.rows = Kept(output.flag, Peers(c.verdicts))
                                /\ snap.generation = c.generation
    BY SnapshotSound, Zenon
  <2>2. QED
    BY <1>1, <1>2, <2>1
<1>5. Expected(1) = Snaps[1].rows
  BY <1>3, <1>4, Zenon DEF Expected
<1>6. Snaps[1].rows \in Seq(RowRecords)
  BY <1>1, Zenon DEF Snapped
<1>7. QED
  BY <1>1, <1>2, <1>3, <1>4, <1>5, <1>6, Zenon

\* All the rows of an answer.
LEMMA AllTwo ==
    ASSUME DOMAIN output.sources = {1, 2},
           Expected(1) \in Seq(RowRecords), Expected(2) \in Seq(RowRecords)
    PROVE  Joined([s \in DOMAIN output.sources |-> Expected(s)]) = Cat(Expected(1), Expected(2))
<1> DEFINE f == [s \in DOMAIN output.sources |-> Expected(s)]
<1>1. DOMAIN f = {1, 2} /\ f = [s \in DOMAIN f |-> f[s]] /\ f[1] = Expected(1) /\ f[2] = Expected(2)
  OBVIOUS
<1> HIDE DEF f
<1>2. f = <<Expected(1), Expected(2)>>
  BY <1>1, PairFunction, Zenon
<1>3. Joined(f) = Cat(Expected(1), Expected(2))
  BY <1>2, PairRows, Zenon
<1>4. QED
  BY <1>3 DEF f

LEMMA AllOne ==
    ASSUME DOMAIN output.sources = {1}, Expected(1) \in Seq(RowRecords)
    PROVE  Joined([s \in DOMAIN output.sources |-> Expected(s)]) = Expected(1)
<1> DEFINE f == [s \in DOMAIN output.sources |-> Expected(s)]
<1>1. DOMAIN f = {1} /\ f = [s \in DOMAIN f |-> f[s]] /\ f[1] = Expected(1)
  OBVIOUS
<1> HIDE DEF f
<1>2. f = <<Expected(1)>>
  BY <1>1, OneFunction, Zenon
<1>3. Joined(f) = Expected(1)
  BY <1>2, JoinedOne, Zenon
<1>4. QED
  BY <1>3 DEF f

\* The answer shows what it should.
Right ==
    /\ Calls(output.format, Snaps, output.flag) \in Seq(Texts)
    /\ RowsShown(Answer) /\ TotalsMatch(Answer) /\ CommasBetweenRows(Answer)

\* The generation of a request for two sources.
LEMMA GenerationTwo ==
    ASSUME DOMAIN output.sources = {1, 2},
           Snaps[1].generation = output.sources[1].generation,
           Snaps[2].generation = output.sources[2].generation,
           Snaps[1].generation = 1, Snaps[2].generation \in Nat
    PROVE  \E g \in Nat :
              /\ Generation(Snaps) = Number("generation", g)
              /\ <<g>>[1] \in {output.sources[s].generation : s \in DOMAIN output.sources} \ {0}
<1>1. Snaps[1].generation \in Nat /\ Snaps[1].generation # 0
  OBVIOUS
<1>2. PICK g \in Nat : /\ Generation(Snaps) = Number("generation", g)
                       /\ g \in {Snaps[1].generation, Snaps[2].generation} \ {0}
  BY <1>1, GenerationKnown, Zenon
<1>3. \A s \in {1, 2} : output.sources[s].generation
                           \in {output.sources[t].generation : t \in DOMAIN output.sources}
  OBVIOUS
<1>4. 1 \in {1, 2} /\ 2 \in {1, 2} /\ <<g>>[1] = g
  OBVIOUS
<1> DEFINE known == {output.sources[t].generation : t \in DOMAIN output.sources}
<1>5. Snaps[1].generation \in known /\ Snaps[2].generation \in known
  BY <1>3, <1>4, Zenon
<1> HIDE DEF known
<1>6. g \in known \ {0}
  BY <1>2, <1>5, Zenon
<1>7. QED
  BY <1>2, <1>4, <1>6, Zenon DEF known

\* The rows of a request for two sources, and for one.
LEMMA TwoShown ==
    ASSUME NEW calls, output.format # "prometheus", DOMAIN output.sources = {1, 2},
           Says(calls, "http", Expected(1)), Says(calls, "stream", Expected(2))
    PROVE  RowsShown(Joined(calls))
<1>1. Shown(Expected(1)) = Expected(1) /\ Shown(Expected(2)) = Expected(2)
  BY Zenon DEF Shown
<1>2. \A s \in DOMAIN output.sources : s = 1 \/ s = 2
  OBVIOUS
<1>3. \A s \in DOMAIN output.sources :
         Names[s] \in RowNames /\ Says(calls, Names[s], Shown(Expected(s)))
  BY <1>1, <1>2, LabelNames, Zenon
<1>4. QED
  BY <1>3, RowsShownOf, Zenon

LEMMA OneShown ==
    ASSUME NEW calls, output.format # "prometheus", DOMAIN output.sources = {1},
           Says(calls, "http", Expected(1))
    PROVE  RowsShown(Joined(calls))
<1>1. Shown(Expected(1)) = Expected(1)
  BY Zenon DEF Shown
<1>2. \A s \in DOMAIN output.sources : s = 1
  OBVIOUS
<1>3. \A s \in DOMAIN output.sources :
         Names[s] \in RowNames /\ Says(calls, Names[s], Shown(Expected(s)))
  BY <1>1, <1>2, LabelNames, Zenon
<1>4. QED
  BY <1>3, RowsShownOf, Zenon

\* The formats, one by one.
LEMMA HtmlRight ==
    ASSUME Requested, output.format = "html"
    PROVE  Right
<1>1. output.format \notin LegacyFormats
  BY FormatCases
<1>2. /\ DOMAIN output.sources = {1, 2}
      /\ Expected(1) = Snaps[1].rows /\ Expected(2) = Snaps[2].rows
      /\ Snaps[1].total = Len(output.sources[1].verdicts)
      /\ Snaps[2].total = Len(output.sources[2].verdicts)
      /\ TwoSnapped(Snaps, output.flag)
  BY <1>1, TwoExpected, Zenon
<1> DEFINE calls == Calls(output.format, Snaps, output.flag)
           T1 == Snaps[1].total  T2 == Snaps[2].total
           U1 == Snaps[1].up  U2 == Snaps[2].up
<1>3. calls = Html(Snaps, output.flag)
  BY DEF Calls
<1>4. /\ Says(calls, "http", Expected(1)) /\ Says(calls, "stream", Expected(2))
      /\ Says(calls, "count", <<T1, T2>>) /\ Says(calls, "count up", <<U1, U2>>)
      /\ Says(calls, "count down", <<T1 - U1, T2 - U2>>)
  BY <1>2, <1>3, HtmlSays, Zenon
<1>5. Answer = Joined(calls)
  BY DEF Answer
<1>6. T1 \in Nat /\ T2 \in Nat /\ U1 \in Nat /\ U2 \in Nat
  BY <1>2, Zenon DEF TwoSnapped, Snapped
<1> HIDE DEF calls, T1, T2, U1, U2
<1>7. calls \in Seq(Texts)
  BY <1>4, SaysRead, Zenon
<1>8. RowsShown(Answer)
  <2>1. output.format # "prometheus"
    OBVIOUS
  <2>2. QED
    BY <2>1, <1>2, <1>4, <1>5, TwoShown, Zenon
<1>9. TotalsMatch(Answer)
  <2>1. /\ ReadNumbers(Answer, "count") = <<T1, T2>>
        /\ ReadNumbers(Answer, "count up") = <<U1, U2>>
        /\ ReadNumbers(Answer, "count down") = <<T1 - U1, T2 - U2>>
    BY <1>4, <1>5, SaysRead, LabelNames
  <2>2. <<T1, T2>> = [s \in DOMAIN output.sources |-> Len(output.sources[s].verdicts)]
    BY <1>2 DEF T1, T2
  <2>3. \A k \in DOMAIN <<U1, U2>> : <<U1, U2>>[k] + <<T1 - U1, T2 - U2>>[k] = <<T1, T2>>[k]
    BY <1>6
  <2>4. /\ output.format \notin {"json", "prometheus", "legacy html", "legacy json"}
        /\ output.format # "prometheus"
    OBVIOUS
  <2> DEFINE count == <<T1, T2>>  up == <<U1, U2>>  down == <<T1 - U1, T2 - U2>>
  <2> HIDE DEF count, up, down
  <2>5. /\ ReadNumbers(Answer, "count") = count
        /\ ReadNumbers(Answer, "count up") = up /\ ReadNumbers(Answer, "count down") = down
        /\ count = [s \in DOMAIN output.sources |-> Len(output.sources[s].verdicts)]
        /\ \A k \in DOMAIN up : up[k] + down[k] = count[k]
    BY <2>1, <2>2, <2>3, Zenon DEF count, up, down
  <2>6. QED
    BY <2>4, <2>5, Zenon DEF TotalsMatch
<1>10. CommasBetweenRows(Answer)
  BY DEF CommasBetweenRows
<1>11. QED
  BY <1>7, <1>8, <1>9, <1>10, Zenon DEF Right, calls

\* Totals of the formats that show none of the peers that are up.
LEMMA TotalsOf ==
    ASSUME NEW calls, Says(calls, "count up", <<>>), output.format # "html",
           output.format # "prometheus",
           output.format \in {"json", "legacy html", "legacy json"} =>
              \E g : /\ Says(calls, "count",
                              << Len(Joined([s \in DOMAIN output.sources |-> Expected(s)])) >>)
                     /\ Says(calls, "generation", <<g>>)
                     /\ <<g>>[1] \in {output.sources[s].generation : s \in DOMAIN output.sources}
                                        \ {0}
    PROVE  TotalsMatch(Joined(calls))
<1> DEFINE text == Joined(calls)
           rows == Joined([s \in DOMAIN output.sources |-> Expected(s)])
           up == ReadNumbers(text, "count up")
           known == {output.sources[s].generation : s \in DOMAIN output.sources} \ {0}
<1>1. up = <<>>
  BY SaysRead, LabelNames
<1>2. \A k \in DOMAIN up :
         up[k] + ReadNumbers(text, "count down")[k] = ReadNumbers(text, "count")[k]
  BY <1>1, NoneUp, Zenon
<1>3. ASSUME output.format \in {"json", "prometheus", "legacy html", "legacy json"}
      PROVE  /\ ReadNumbers(text, "count") = <<Len(rows)>>
             /\ ReadNumbers(text, "generation")[1] \in known
  <2>1. output.format \in {"json", "legacy html", "legacy json"}
    BY <1>3
  <2>2. PICK g : Says(calls, "count", <<Len(rows)>>) /\ Says(calls, "generation", <<g>>)
                 /\ <<g>>[1] \in known
    BY <2>1, Zenon
  <2>3. /\ "count" \notin RowNames /\ "generation" \notin RowNames
    BY LabelNames
  <2> HIDE DEF known, rows
  <2>4. /\ ReadNumbers(text, "count") = <<Len(rows)>>
        /\ ReadNumbers(text, "generation") = <<g>>
    BY <2>2, <2>3, SaysRead, Zenon
  <2>5. QED
    BY <2>2, <2>4, Zenon
<1>4. rows = Joined([s \in DOMAIN output.sources |-> Expected(s)])
  OBVIOUS
<1> HIDE DEF rows, up, text
<1>5. TotalsMatch(text)
  BY <1>2, <1>3, <1>4, Zenon DEF TotalsMatch, up
<1>6. QED
  BY <1>5, Zenon DEF text

LEMMA CsvRight ==
    ASSUME Requested, output.format = "csv"
    PROVE  Right
<1>1. output.format \notin LegacyFormats
  BY FormatCases
<1>2. /\ DOMAIN output.sources = {1, 2}
      /\ Expected(1) = Snaps[1].rows /\ Expected(2) = Snaps[2].rows
      /\ TwoSnapped(Snaps, output.flag)
  BY <1>1, TwoExpected, Zenon
<1> DEFINE calls == Calls(output.format, Snaps, output.flag)
<1>3. calls = Csv(Snaps, output.flag)
  BY DEF Calls
<1>4. /\ Says(calls, "http", Expected(1)) /\ Says(calls, "stream", Expected(2))
      /\ Says(calls, "count up", <<>>)
  BY <1>2, <1>3, CsvSays, Zenon
<1>5. Answer = Joined(calls)
  BY DEF Answer
<1>6. /\ output.format \notin {"json", "prometheus", "legacy html", "legacy json"}
      /\ output.format \notin {"json", "legacy html", "legacy json"}
      /\ output.format # "prometheus" /\ output.format # "html"
  OBVIOUS
<1> HIDE DEF calls
<1>7. calls \in Seq(Texts)
  BY <1>4, SaysRead, Zenon
<1>8. RowsShown(Answer)
  BY <1>2, <1>4, <1>5, <1>6, TwoShown, Zenon
<1>9. TotalsMatch(Answer)
  BY <1>4, <1>5, <1>6, TotalsOf, Zenon
<1>10. CommasBetweenRows(Answer)
  BY DEF CommasBetweenRows
<1>11. QED
  BY <1>7, <1>8, <1>9, <1>10, Zenon DEF Right, calls

\* The commas of a text that is neat.
LEMMA CommasOf ==
    ASSUME NEW text, Neat(text), Starts(text, {"count"}), Stops(text, {"end"})
    PROVE  CommasBetweenRows(text)
  BY NeatCommas, Zenon DEF CommasBetweenRows

LEMMA JsonRight ==
    ASSUME Requested, output.format = "json"
    PROVE  Right
<1>1. output.format \notin LegacyFormats
  BY FormatCases
<1>2. /\ DOMAIN output.sources = {1, 2}
      /\ Expected(1) = Snaps[1].rows /\ Expected(2) = Snaps[2].rows
      /\ Snaps[1].rows \in Seq(RowRecords) /\ Snaps[2].rows \in Seq(RowRecords)
      /\ Snaps[1].generation = output.sources[1].generation
      /\ Snaps[2].generation = output.sources[2].generation
      /\ Snaps[1].generation = 1 /\ Snaps[2].generation \in Nat
      /\ TwoSnapped(Snaps, output.flag)
  BY <1>1, TwoExpected, Zenon
<1> DEFINE known == {output.sources[s].generation : s \in DOMAIN output.sources} \ {0}
           rows == Joined([s \in DOMAIN output.sources |-> Expected(s)])
           calls == Calls(output.format, Snaps, output.flag)
<1>3. PICK g \in Nat : Generation(Snaps) = Number("generation", g) /\ <<g>>[1] \in known
  BY <1>2, GenerationTwo, Zenon
<1>4. calls = Json(Snaps)
  BY DEF Calls
<1>5. Answer = Joined(calls)
  BY DEF Answer
<1>6. rows = Cat(Expected(1), Expected(2))
  BY <1>2, AllTwo, Zenon
<1> HIDE DEF calls, rows, known
<1>7. Len(rows) = Len(Snaps[1].rows) + Len(Snaps[2].rows)
  BY <1>2, <1>6, PairRows, Zenon
<1>8. /\ Says(calls, "http", Expected(1)) /\ Says(calls, "stream", Expected(2))
      /\ Says(calls, "count", <<Len(rows)>>) /\ Says(calls, "generation", <<g>>)
      /\ Says(calls, "count up", <<>>)
  BY <1>2, <1>3, <1>4, <1>7, JsonSays, Zenon
<1>9. calls \in Seq(Texts)
  BY <1>8, SaysRead, Zenon
<1>10. output.format # "prometheus" /\ output.format # "html"
  OBVIOUS
<1>11. RowsShown(Answer)
  BY <1>2, <1>5, <1>8, <1>10, TwoShown, Zenon
<1>12. TotalsMatch(Answer)
  BY <1>3, <1>5, <1>8, <1>10, TotalsOf, Zenon DEF rows, known
<1>13. CommasBetweenRows(Answer)
  BY <1>2, <1>3, <1>4, <1>5, JsonNeat, CommasOf, Zenon
<1>14. QED
  BY <1>9, <1>11, <1>12, <1>13, Zenon DEF Right, calls

LEMMA LegacyRight ==
    ASSUME Requested, output.format \in LegacyFormats
    PROVE  Right
<1>1. /\ DOMAIN output.sources = {1}
      /\ Expected(1) = Snaps[1].rows /\ Snaps[1].rows \in Seq(RowRecords)
      /\ Snaps[1].generation = output.sources[1].generation
      /\ Snaps[1].generation = 1
      /\ Snapped(Snaps[1], output.flag)
  BY OneExpected, Zenon
<1> DEFINE known == {output.sources[s].generation : s \in DOMAIN output.sources} \ {0}
           rows == Joined([s \in DOMAIN output.sources |-> Expected(s)])
           calls == Calls(output.format, Snaps, output.flag)
           g == Snaps[1].generation
<1>2. calls = Legacy(output.format, Snaps[1])
  BY FormatCases DEF Calls
<1>3. Answer = Joined(calls)
  BY DEF Answer
<1>4. rows = Expected(1)
  BY <1>1, AllOne, Zenon
<1>5. <<g>>[1] \in known
  <2>1. 1 \in DOMAIN output.sources /\ <<g>>[1] = output.sources[1].generation /\ g # 0
    BY <1>1
  <2>2. QED
    BY <1>1, <2>1
<1> HIDE DEF calls, rows, known, g
<1>6. output.format \in {"legacy html", "legacy csv", "legacy json"}
  BY DEF LegacyFormats
<1>7. /\ Says(calls, "http", Expected(1)) /\ Says(calls, "count up", <<>>)
      /\ output.format # "legacy csv" =>
            Says(calls, "count", <<Len(rows)>>) /\ Says(calls, "generation", <<g>>)
  BY <1>1, <1>2, <1>4, <1>6, LegacyHtmlSays, LegacyCsvSays, LegacyJsonSays, Zenon DEF g
<1>8. calls \in Seq(Texts)
  BY <1>7, SaysRead, Zenon
<1>9. /\ output.format # "prometheus" /\ output.format # "html"
      /\ output.format \in {"json", "legacy html", "legacy json"} => output.format # "legacy csv"
  BY <1>6
<1>10. RowsShown(Answer)
  BY <1>1, <1>3, <1>7, <1>9, OneShown, Zenon
<1>11. TotalsMatch(Answer)
  BY <1>3, <1>5, <1>7, <1>9, TotalsOf, Zenon DEF rows, known
<1>12. CommasBetweenRows(Answer)
  <2>1. CASE output.format = "legacy json"
    BY <1>1, <1>2, <1>3, <2>1, LegacyJsonNeat, CommasOf, Zenon
  <2>2. CASE output.format # "legacy json"
    <3>1. output.format \notin {"json", "legacy json"}
      BY <1>6, <2>2
    <3>2. QED
      BY <3>1, Zenon DEF CommasBetweenRows
  <2>3. QED
    BY <2>1, <2>2, Zenon
<1>13. QED
  BY <1>8, <1>10, <1>11, <1>12, Zenon DEF Right, calls

LEMMA PrometheusRight ==
    ASSUME Requested, output.format = "prometheus"
    PROVE  Right
<1>1. output.format \notin LegacyFormats
  BY FormatCases
<1>2. /\ DOMAIN output.sources = {1, 2}
      /\ Expected(1) = Snaps[1].rows /\ Expected(2) = Snaps[2].rows
      /\ Snaps[1].rows \in Seq(RowRecords) /\ Snaps[2].rows \in Seq(RowRecords)
      /\ Snaps[1].generation = output.sources[1].generation
      /\ Snaps[2].generation = output.sources[2].generation
      /\ Snaps[1].generation = 1 /\ Snaps[2].generation \in Nat
      /\ TwoSnapped(Snaps, output.flag)
  BY <1>1, TwoExpected, Zenon
<1> DEFINE known == {output.sources[s].generation : s \in DOMAIN output.sources} \ {0}
           rows == Joined([s \in DOMAIN output.sources |-> Expected(s)])
           calls == Calls(output.format, Snaps, output.flag)
           up == Len(Kept("up", rows))
           down == Len(Kept("down", rows))
<1>3. PICK g \in Nat : Generation(Snaps) = Number("generation", g) /\ <<g>>[1] \in known
  BY <1>2, GenerationTwo, Zenon
<1>4. calls = Prometheus(Snaps, output.flag)
  BY DEF Calls
<1>5. Answer = Joined(calls)
  BY DEF Answer
<1>6. rows = Cat(Snaps[1].rows, Snaps[2].rows)
  BY <1>2, AllTwo, Zenon
<1> HIDE DEF calls, rows, known
<1>7. rows \in Seq(RowRecords)
  BY <1>2, <1>6, CatType, Zenon
<1>8. up \in Nat /\ down \in Nat /\ up + down = Len(rows)
  BY <1>7, KeptSplit, Zenon
<1>9. Shown(Expected(1)) = Cat(Cat(Snaps[1].rows, Snaps[1].rows), Snaps[1].rows)
  BY <1>2 DEF Shown
<1>10. Shown(Expected(2)) = Cat(Cat(Snaps[2].rows, Snaps[2].rows), Snaps[2].rows)
  BY <1>2 DEF Shown
<1>11. /\ Says(calls, "http", Shown(Expected(1))) /\ Says(calls, "stream", Shown(Expected(2)))
       /\ Says(calls, "count", <<Len(rows)>>) /\ Says(calls, "generation", <<g>>)
       /\ Says(calls, "count up", <<up>>) /\ Says(calls, "count down", <<down>>)
  BY <1>2, <1>3, <1>4, <1>6, <1>9, <1>10, PrometheusSays, Zenon
<1>12. calls \in Seq(Texts)
  BY <1>11, SaysRead, Zenon
<1>13. RowsShown(Answer)
  <2>1. \A s \in DOMAIN output.sources : s = 1 \/ s = 2
    BY <1>2
  <2>2. \A s \in DOMAIN output.sources :
           Names[s] \in RowNames /\ Says(calls, Names[s], Shown(Expected(s)))
    BY <1>11, <2>1, LabelNames, Zenon
  <2>3. QED
    BY <1>5, <2>2, RowsShownOf, Zenon
<1>14. TotalsMatch(Answer)
  <2> DEFINE ups == <<up>>  downs == <<down>>  counts == <<Len(rows)>>
  <2>1. \A k \in DOMAIN ups : ups[k] + downs[k] = counts[k]
    BY <1>8
  <2>2. output.format # "html"
    OBVIOUS
  <2>3. /\ ReadNumbers(Answer, "count") = counts
        /\ ReadNumbers(Answer, "generation") = <<g>>
        /\ ReadNumbers(Answer, "count up") = ups
        /\ ReadNumbers(Answer, "count down") = downs
    <3>1. /\ "count" \notin RowNames /\ "generation" \notin RowNames
          /\ "count up" \notin RowNames /\ "count down" \notin RowNames
      BY LabelNames
    <3>2. QED
      BY <1>5, <1>11, <3>1, SaysRead, Zenon
  <2>4. ReadNumbers(Answer, "generation")[1] \in known
    BY <1>3, <2>3, Zenon
  <2>5. ups = <<Len(Kept("up", rows))>> /\ counts = <<Len(rows)>>
    OBVIOUS
  <2> HIDE DEF ups, downs, counts
  <2>6. QED
    BY <2>1, <2>2, <2>3, <2>4, <2>5, Zenon DEF TotalsMatch, rows, known
<1>15. CommasBetweenRows(Answer)
  BY DEF CommasBetweenRows
<1>16. QED
  BY <1>12, <1>13, <1>14, <1>15, Zenon DEF Right, calls

\* Whatever the format, the filter and the peers.
LEMMA AnswerRight == ASSUME Requested PROVE Right
<1>1. \/ output.format = "html" \/ output.format = "csv" \/ output.format = "json"
      \/ output.format = "prometheus" \/ output.format \in LegacyFormats
  BY DEF Requested, StatusFormats
<1>2. QED
  BY <1>1, HtmlRight, CsvRight, JsonRight, PrometheusRight, LegacyRight, Zenon

(***************************************************************************)
(* The writer                                                              *)
(***************************************************************************)
\* s is front, then last.
Ends(s, front, last) ==
    /\ s = Append(front, last) /\ Len(s) = Len(front) + 1
    /\ s[Len(s)] = last /\ Len(s) \in DOMAIN s
    /\ \A i \in DOMAIN front : i \in DOMAIN s /\ i # Len(s) /\ front[i] = s[i]

\* A sequence that is not empty has a last element.
LEMMA LastOf ==
    ASSUME NEW S, NEW s \in Seq(S), s # <<>>
    PROVE  \E front \in Seq(S), last \in S : Ends(s, front, last)
<1> DEFINE front == SubSeq(s, 1, Len(s) - 1)
           last == s[Len(s)]
           N == Len(s) - 1
<1>1. /\ Len(s) \in Nat /\ Len(s) >= 1 /\ last \in S /\ N \in Nat /\ 1 \in Int /\ N \in Int
      /\ \A i \in 1..N : s[i] \in S
  OBVIOUS
<1> HIDE DEF N
<1>2. front \in Seq(S) /\ Len(front) = N /\ \A i \in 1..N : front[i] = s[i]
  <2>1. front = SubSeq(s, 1, N)
    BY DEF N
  <2> HIDE DEF front
  <2>2. /\ front \in Seq(S)
        /\ Len(front) = IF 1 <= N THEN N - 1 + 1 ELSE 0
        /\ \A i \in 1..(N - 1 + 1) : front[i] = s[1 + i - 1]
    BY <1>1, <2>1, SubSeqProperties
  <2>3. QED
    BY <1>1, <2>2
<1> HIDE DEF front
<1>3. DOMAIN front = 1..N /\ DOMAIN s = 1..Len(s) /\ Len(s) = N + 1
  BY <1>1, <1>2 DEF N
<1>4. s = Append(front, last)
  BY <1>1, <1>2, <1>3
<1>5. \A i \in DOMAIN front : i \in DOMAIN s /\ i # Len(s) /\ front[i] = s[i]
  BY <1>1, <1>2, <1>3
<1>6. Len(s) = Len(front) + 1 /\ Len(s) \in DOMAIN s
  BY <1>1, <1>2, <1>3
<1>7. Ends(s, front, last)
  BY <1>4, <1>5, <1>6, Zenon DEF Ends
<1>8. QED
  BY <1>1, <1>2, <1>7, Zenon

\* And it has a first element.
LEMMA FirstOf ==
    ASSUME NEW S, NEW s \in Seq(S), s # <<>>
    PROVE  Head(s) \in S /\ Tail(s) \in Seq(S) /\ s = Cat(<<Head(s)>>, Tail(s))
  BY DEF Cat

\* Texts, one after the other, in whatever order they are joined.
LEMMA UnitsAssoc ==
    \A s, t, u \in Seq(Units) : Cat(Cat(s, t), u) = Cat(s, Cat(t, u))
  BY CatAssoc

\* To append is to join with one element.
LEMMA AddOne == ASSUME NEW S, NEW s \in Seq(S), NEW x PROVE Append(s, x) = Cat(s, <<x>>)
  BY DEF Cat

\* The text of a printf call is not empty.
LEMMA TextsType ==
    /\ \A t \in Texts : t \in Seq(Units) /\ t # <<>> /\ Len(t) \in Nat /\ Len(t) >= 1
    /\ \A texts \in Seq(Texts) : texts \in Seq(Seq(Units))
<1>1. \A t \in Texts : t \in Seq(Units) /\ t # <<>>
  BY Zenon DEF Texts
<1>2. \A t \in Seq(Units) : t # <<>> => Len(t) \in Nat /\ Len(t) >= 1
  OBVIOUS
<1> DEFINE S == Seq(Units)
<1>3. \A t \in Texts : t \in S
  BY <1>1, Zenon
<1> HIDE DEF S
<1>4. \A texts \in Seq(Texts) : texts \in Seq(S)
  BY <1>3
<1>5. QED
  BY <1>1, <1>2, <1>4, Zenon DEF S

\* One text.
LEMMA SingleText == ASSUME NEW S, NEW t \in S PROVE <<t>> \in Seq(S)
  OBVIOUS

\* What is joined with a last text, and with a first one.
LEMMA JoinedAppend ==
    ASSUME NEW S, NEW texts \in Seq(Seq(S)), NEW t \in Seq(S)
    PROVE  Joined(Append(texts, t)) = Cat(Joined(texts), t)
<1>1. Append(texts, t) = Cat(texts, <<t>>)
  BY AddOne, Zenon
<1>2. <<t>> \in Seq(Seq(S))
  BY SingleText, Zenon
<1>3. Joined(Cat(texts, <<t>>)) = Cat(Joined(texts), Joined(<<t>>))
  BY <1>2, JoinedConcat, Zenon
<1>4. Joined(<<t>>) = t
  BY JoinedOne, Zenon
<1>5. QED
  BY <1>1, <1>3, <1>4, Zenon

LEMMA JoinedFirst ==
    ASSUME NEW S, NEW texts \in Seq(Seq(S)), texts # <<>>
    PROVE  Joined(texts) = Cat(Head(texts), Joined(Tail(texts)))
<1>1. /\ Head(texts) \in Seq(S) /\ Tail(texts) \in Seq(Seq(S))
      /\ texts = Cat(<<Head(texts)>>, Tail(texts))
  BY FirstOf, Zenon
<1>2. <<Head(texts)>> \in Seq(Seq(S))
  BY <1>1, SingleText, Zenon
<1>3. Joined(Cat(<<Head(texts)>>, Tail(texts))) = Cat(Joined(<<Head(texts)>>), Joined(Tail(texts)))
  BY <1>1, <1>2, JoinedConcat, Zenon
<1>4. Joined(<<Head(texts)>>) = Head(texts)
  BY <1>1, JoinedOne, Zenon
<1>5. QED
  BY <1>1, <1>3, <1>4, Zenon

\* The first part of a text, and what is left.
LEMMA CutText ==
    ASSUME NEW S, NEW t \in Seq(S), NEW copy \in 1..Len(t)
    PROVE  /\ SubSeq(t, 1, copy) \in Seq(S) /\ SubSeq(t, copy + 1, Len(t)) \in Seq(S)
           /\ Len(SubSeq(t, 1, copy)) = copy
           /\ t = Cat(SubSeq(t, 1, copy), SubSeq(t, copy + 1, Len(t)))
<1>1. SubSeq(t, 1, copy) \in Seq(S) /\ Len(SubSeq(t, 1, copy)) = copy
  OBVIOUS
<1>2. SubSeq(t, copy + 1, Len(t)) \in Seq(S)
  OBVIOUS
<1>3. t = SubSeq(t, 1, copy) \o SubSeq(t, copy + 1, Len(t))
  <2>1. SubSeq(t, 1, copy) \o SubSeq(t, copy + 1, Len(t)) = SubSeq(t, 1, Len(t))
    OBVIOUS
  <2>2. SubSeq(t, 1, Len(t)) = t
    OBVIOUS
  <2>3. QED
    BY <2>1, <2>2
<1>4. QED
  BY <1>1, <1>2, <1>3, Zenon DEF Cat

\* A block that has room: the last one, or a new one.
Open(blocks) == IF Room(blocks) = 0 THEN Append(blocks, <<>>) ELSE blocks

\* The blocks before it are full, it has room, and their text is what it was.
LEMMA OpenRoom ==
    ASSUME NEW blocks, Filled(blocks)
    PROVE  \E full \in Seq(Texts), last \in Seq(Units) :
              /\ Open(blocks) = Append(full, last)
              /\ \A b \in DOMAIN full : Len(full[b]) = BlockSize
              /\ Len(last) < BlockSize /\ Room(Open(blocks)) = BlockSize - Len(last)
              /\ Joined(blocks) = Cat(Joined(full), last)
<1>1. blocks \in Seq(Texts) /\ blocks \in Seq(Seq(Units)) /\ BlockSize \in Nat \ {0}
  BY TextsType, OutputAssumption, Zenon DEF Filled
<1>2. CASE Room(blocks) = 0
  <2>1. Open(blocks) = Append(blocks, <<>>)
    BY <1>2, Zenon DEF Open
  <2>2. <<>> \in Seq(Units) /\ Len(<<>>) = 0
    OBVIOUS
  <2>3. Joined(blocks) = Cat(Joined(blocks), <<>>)
    BY <1>1, JoinedType, CatEmpty, Zenon
  <2>4. \A b \in DOMAIN blocks : Len(blocks[b]) = BlockSize
    <3>1. SUFFICES ASSUME NEW b \in DOMAIN blocks, b = Len(blocks)
                   PROVE  Len(blocks[b]) = BlockSize
      BY <3>1, Zenon DEF Filled
    <3>2. blocks # <<>>
      BY NoneUp
    <3>3. BlockSize - Len(blocks[b]) = 0
      BY <1>2, <3>1, <3>2, Zenon DEF Room
    <3>4. blocks[b] \in Texts
      BY <1>1
    <3>5. Len(blocks[b]) \in Nat
      BY <3>4, TextsType, Zenon
    <3>6. QED
      BY <1>1, <3>3, <3>5
  <2>5. Room(Open(blocks)) = BlockSize - 0 /\ 0 < BlockSize
    <3> DEFINE open == Append(blocks, <<>>)
    <3>1. open # <<>> /\ open[Len(open)] = <<>>
      BY <1>1
    <3> HIDE DEF open
    <3>2. Room(open) = BlockSize - Len(<<>>)
      BY <3>1, Zenon DEF Room
    <3>3. 0 < BlockSize
      BY <1>1
    <3>4. QED
      BY <2>1, <2>2, <3>2, <3>3, Zenon DEF open
  <2>6. QED
    BY <1>1, <2>1, <2>2, <2>3, <2>4, <2>5, Zenon
<1>3. CASE Room(blocks) # 0
  <2>1. Open(blocks) = blocks /\ blocks # <<>>
    BY <1>3, Zenon DEF Open, Room
  <2>2. PICK full \in Seq(Texts), last \in Texts : Ends(blocks, full, last)
    BY <1>1, <2>1, LastOf, Zenon
  <2>3. /\ blocks = Append(full, last)
        /\ blocks[Len(blocks)] = last /\ Len(blocks) \in DOMAIN blocks
        /\ \A i \in DOMAIN full : i \in DOMAIN blocks /\ i # Len(blocks) /\ full[i] = blocks[i]
    BY <2>2, Zenon DEF Ends
  <2>4. \A b \in DOMAIN full : Len(full[b]) = BlockSize
    BY <2>3, Zenon DEF Filled
  <2>5. full \in Seq(Seq(Units)) /\ last \in Seq(Units) /\ Len(last) \in Nat
    BY TextsType, Zenon
  <2>6. Joined(blocks) = Cat(Joined(full), last)
    BY <2>3, <2>5, JoinedAppend, Zenon
  <2>7. Room(blocks) = BlockSize - Len(last)
    BY <2>1, <2>3, Zenon DEF Room
  <2>8. Len(last) <= BlockSize
    BY <2>3, Zenon DEF Filled
  <2>9. Len(last) < BlockSize
    BY <1>1, <1>3, <2>5, <2>7, <2>8
  <2>10. QED
    BY <2>1, <2>3, <2>4, <2>5, <2>6, <2>7, <2>9, Zenon
<1>4. QED
  BY <1>2, <1>3, Zenon

\* The last element is replaced.
Changed(t, y) == [t EXCEPT ![Len(t)] = y]

LEMMA LastChanged ==
    ASSUME NEW S, NEW s \in Seq(S), NEW x \in S, NEW y \in S
    PROVE  Changed(Append(s, x), y) = Append(s, y)
<1> DEFINE t == Append(s, x)
           changed == Changed(t, y)
           added == Append(s, y)
           N == Len(s) + 1
<1>1. /\ Len(t) = N /\ DOMAIN t = 1..N /\ N \in Nat
      /\ \A i \in 1..N : i # N => i \in 1..Len(s) /\ t[i] = s[i]
  OBVIOUS
<1>2. /\ added \in Seq(S) /\ Len(added) = N
      /\ added[N] = y /\ \A i \in 1..Len(s) : added[i] = s[i]
  OBVIOUS
<1>3. /\ changed = [i \in 1..N |-> IF i = N THEN y ELSE t[i]]
  BY <1>1 DEF Changed
<1> HIDE DEF N
<1> HIDE DEF changed, added
<1>4. added = [i \in 1..N |-> added[i]]
  <2>1. added \in [1..Len(added) -> S]
    BY <1>2
  <2>2. QED
    BY <1>2, <2>1
<1>5. \A i \in 1..N : (IF i = N THEN y ELSE t[i]) = added[i]
  BY <1>1, <1>2, Zenon
<1>6. changed = added
  BY <1>3, <1>4, <1>5
<1>7. QED
  BY <1>6 DEF changed, added

\* Full blocks and a last one that fits are as they should be.
LEMMA FilledAdd ==
    ASSUME NEW full \in Seq(Texts), NEW grown \in Texts,
           \A b \in DOMAIN full : Len(full[b]) = BlockSize, Len(grown) <= BlockSize
    PROVE  Filled(Append(full, grown))
<1> DEFINE more == Append(full, grown)
<1>1. more \in Seq(Texts)
  OBVIOUS
<1>2. \A b \in DOMAIN more : \/ b \in DOMAIN full /\ b # Len(more) /\ more[b] = full[b]
                             \/ b = Len(more) /\ more[b] = grown
  OBVIOUS
<1>3. BlockSize <= BlockSize
  BY OutputAssumption
<1> HIDE DEF more
<1>4. \A b \in DOMAIN more : /\ Len(more[b]) <= BlockSize
                             /\ b # Len(more) => Len(more[b]) = BlockSize
  BY <1>2, <1>3, Zenon
<1>5. QED
  BY <1>1, <1>4, Zenon DEF Filled, more

\* What is copied into it.
Copied(blocks, text) == Fewer(Room(Open(blocks)), Len(text))
Part(blocks, text) == SubSeq(text, 1, Copied(blocks, text))
More(blocks, part) == [Open(blocks) EXCEPT ![Len(Open(blocks))] = @ \o part]

LEMMA PartWritten ==
    ASSUME NEW blocks, Filled(blocks), NEW text \in Texts
    PROVE  /\ Copied(blocks, text) \in 1..Len(text)
           /\ Filled(More(blocks, Part(blocks, text)))
           /\ Joined(More(blocks, Part(blocks, text))) = Cat(Joined(blocks), Part(blocks, text))
<1> DEFINE open == Open(blocks)
           copy == Copied(blocks, text)
           part == Part(blocks, text)
           more == More(blocks, part)
<1>1. PICK full \in Seq(Texts), last \in Seq(Units) :
              /\ open = Append(full, last)
              /\ \A b \in DOMAIN full : Len(full[b]) = BlockSize
              /\ Len(last) < BlockSize /\ Room(open) = BlockSize - Len(last)
              /\ Joined(blocks) = Cat(Joined(full), last)
  BY OpenRoom, Zenon
<1>2. /\ text \in Seq(Units) /\ Len(text) \in Nat /\ Len(text) >= 1
      /\ full \in Seq(Seq(Units))
  BY TextsType, Zenon
<1>3. BlockSize \in Nat /\ Len(last) \in Nat
  BY OutputAssumption
<1>4. copy \in 1..Len(text) /\ copy <= BlockSize - Len(last)
  <2> DEFINE room == Room(open)  length == Len(text)
  <2>1. room \in Nat /\ room >= 1
    BY <1>1, <1>3
  <2>2. length \in Nat /\ length >= 1
    BY <1>2
  <2> HIDE DEF room, length
  <2>3. copy \in 1..length /\ copy <= room
    BY <2>1, <2>2 DEF Fewer, Copied, room, length
  <2>4. QED
    BY <1>1, <2>3, Zenon DEF room, length
<1>5. /\ part \in Seq(Units) /\ Len(part) = copy
  BY <1>2, <1>4, CutText, Zenon DEF Part
<1> DEFINE grown == Cat(last, part)
<1> HIDE DEF part, copy
<1>6. grown \in Seq(Units) /\ Len(grown) = Len(last) + copy
  BY <1>5 DEF Cat
<1>7. more = Append(full, grown)
  <2>1. open[Len(open)] = last
    BY <1>1
  <2>2. open[Len(open)] \o part = grown
    BY <2>1 DEF Cat
  <2>3. more = Changed(open, grown)
    BY <2>2 DEF Changed, More
  <2> HIDE DEF grown
  <2>4. \A s \in Seq(Seq(Units)) : \A x, y \in Seq(Units) :
           Changed(Append(s, x), y) = Append(s, y)
    BY LastChanged, Zenon
  <2>5. QED
    BY <1>1, <1>2, <1>6, <2>3, <2>4, Zenon
<1> HIDE DEF grown, more, open
<1>8. Len(grown) \in Nat /\ Len(grown) >= 1 /\ Len(grown) <= BlockSize
  BY <1>3, <1>4, <1>6, <1>2
<1>9. grown \in Texts
  <2>1. grown # <<>>
    BY <1>8
  <2>2. QED
    BY <1>6, <2>1, Zenon DEF Texts
<1>10. Filled(more)
  BY <1>1, <1>7, <1>8, <1>9, FilledAdd, Zenon
<1>11. Joined(more) = Cat(Joined(blocks), part)
  <2>1. Joined(more) = Cat(Joined(full), grown)
    BY <1>2, <1>6, <1>7, JoinedAppend, Zenon
  <2>2. Joined(full) \in Seq(Units)
    BY <1>2, JoinedType, Zenon
  <2>3. Cat(Joined(full), grown) = Cat(Cat(Joined(full), last), part)
    BY <1>5, <2>2, UnitsAssoc, Zenon DEF grown
  <2>4. QED
    BY <1>1, <2>1, <2>3, Zenon
<1>12. QED
  BY <1>4, <1>10, <1>11, Zenon DEF copy, part, more

\* What is left of the text.
LEMMA LeftOver ==
    ASSUME NEW calls \in Seq(Texts), calls # <<>>,
           NEW copy \in 1..Len(Head(calls)),
           NEW left, left = SubSeq(Head(calls), copy + 1, Len(Head(calls))),
           NEW later, later = (IF left = <<>> THEN <<>> ELSE <<left>>) \o Tail(calls)
    PROVE  /\ later \in Seq(Texts)
           /\ Joined(calls) = Cat(SubSeq(Head(calls), 1, copy), Joined(later))
<1> DEFINE text == Head(calls)
           part == SubSeq(text, 1, copy)
           rest == IF left = <<>> THEN <<>> ELSE <<left>>
<1>1. text \in Texts /\ Tail(calls) \in Seq(Texts)
  BY FirstOf, Zenon
<1>2. text \in Seq(Units) /\ calls \in Seq(Seq(Units)) /\ Tail(calls) \in Seq(Seq(Units))
  BY <1>1, TextsType, Zenon
<1>3. part \in Seq(Units) /\ left \in Seq(Units) /\ text = Cat(part, left)
  BY <1>2, CutText, Zenon
<1>4. Joined(calls) = Cat(text, Joined(Tail(calls)))
  BY <1>2, JoinedFirst, Zenon
<1>5. rest \in Seq(Texts) /\ rest \in Seq(Seq(Units)) /\ Joined(rest) = left
  <2>1. CASE left = <<>>
    <3>1. rest = <<>>
      BY <2>1, Zenon
    <3>2. <<>> \in Seq(Texts) /\ <<>> \in Seq(Seq(Units))
      OBVIOUS
    <3>3. QED
      BY <2>1, <3>1, <3>2, JoinedNone, Zenon
  <2>2. CASE left # <<>>
    <3>1. rest = <<left>>
      BY <2>2, Zenon
    <3>2. left \in Texts
      BY <1>3, <2>2, Zenon DEF Texts
    <3>3. <<left>> \in Seq(Texts) /\ <<left>> \in Seq(Seq(Units))
      BY <1>3, <3>2, SingleText, Zenon
    <3>4. Joined(<<left>>) = left
      BY <1>3, JoinedOne, Zenon
    <3>5. QED
      BY <3>1, <3>3, <3>4, Zenon
  <2>3. QED
    BY <2>1, <2>2, Zenon
<1>6. later = Cat(rest, Tail(calls))
  BY DEF Cat
<1> HIDE DEF text, part, rest
<1>7. later \in Seq(Texts)
  BY <1>1, <1>5, <1>6, CatType, Zenon
<1>8. Joined(later) = Cat(left, Joined(Tail(calls)))
  BY <1>2, <1>5, <1>6, JoinedConcat, Zenon
<1>9. Joined(Tail(calls)) \in Seq(Units)
  BY <1>2, JoinedType, Zenon
<1>10. Cat(Cat(part, left), Joined(Tail(calls))) = Cat(part, Cat(left, Joined(Tail(calls))))
  BY <1>3, <1>9, UnitsAssoc, Zenon
<1>11. QED
  BY <1>3, <1>4, <1>7, <1>8, <1>10, Zenon DEF text, part

----------------------------------------------------------------------------
(***************************************************************************)
(* The inductive invariant                                                 *)
(***************************************************************************)
\* The request does not change once it is there.
RequestUnchanged ==
    /\ output'.format = output.format /\ output'.flag = output.flag
    /\ output'.sources = output.sources

\* The answer of a request that does not change is the same.
LEMMA RequestKept ==
    ASSUME RequestUnchanged
    PROVE  Answer' = Answer /\ (Requested => Requested')
<1>1. Snaps' = Snaps
  BY DEF RequestUnchanged, Snaps
<1>2. Answer' = Answer
  BY <1>1, Zenon DEF RequestUnchanged, Answer
<1>3. Requested => Requested'
  BY Zenon DEF RequestUnchanged, Requested
<1>4. QED
  BY <1>2, <1>3, Zenon

\* The invariant holds at first, and every step keeps it.
LEMMA OutputInvInit == ASSUME OutputInit PROVE OutputInv
<1>1. output = NoOutput
  BY Zenon DEF OutputInit
<1>2. output.pc = "collected"
  BY <1>1 DEF NoOutput
<1>3. /\ output.pc \in {"collected", "write", "sent", "failed"}
      /\ output.pc \notin {"write", "sent"} /\ output.pc \notin {"write", "failed"}
      /\ output.pc # "sent"
  BY <1>2
<1>4. QED
  BY <1>1, <1>3, Zenon DEF OutputInv

LEMMA FormatStep == ASSUME OutputInv, Format PROVE OutputInv'
<1>1. PICK http \in Collected(1), stream \in Collected(2) \cup {NoSource},
           format \in StatusFormats \cup LegacyFormats, flag \in Flags :
         LET sources == IF format \in LegacyFormats THEN <<http>> ELSE <<http, stream>>
             snaps == [s \in DOMAIN sources |-> Snapshot(sources[s], flag)]
         IN  output' = [NoOutput EXCEPT !.pc = "write", !.format = format,
                            !.flag = flag, !.sources = sources,
                            !.calls = Calls(format, snaps, flag)]
  BY Zenon DEF Format
<1> DEFINE sources == IF format \in LegacyFormats THEN <<http>> ELSE <<http, stream>>
           snaps == [s \in DOMAIN sources |-> Snapshot(sources[s], flag)]
           calls == Calls(format, snaps, flag)
<1>2. output' = [NoOutput EXCEPT !.pc = "write", !.format = format, !.flag = flag,
                                 !.sources = sources, !.calls = calls]
  BY <1>1, Zenon
<1> HIDE DEF sources, calls
<1>3. /\ output'.pc = "write" /\ output'.format = format /\ output'.flag = flag
      /\ output'.sources = sources /\ output'.calls = calls /\ output'.blocks = <<>>
      /\ output'.length = 0 /\ output'.body = <<>> /\ DOMAIN output' = DOMAIN NoOutput
  BY <1>2 DEF NoOutput
<1>4. Snaps' = snaps
  BY <1>3, Zenon DEF Snaps
<1>5. Answer' = Joined(calls)
  BY <1>3, <1>4, Zenon DEF Answer, calls
<1>6. Requested'
  BY <1>3, Zenon DEF Requested, sources
<1>7. calls \in Seq(Texts)
  <2>1. Right'
    <3>1. (Requested => Right)'
      BY AnswerRight, PTL
    <3>2. QED
      BY <1>6, <3>1, Zenon
  <2>2. Calls(output'.format, Snaps', output'.flag) \in Seq(Texts)
    BY <2>1, Zenon DEF Right
  <2>3. QED
    BY <1>3, <1>4, <2>2, Zenon DEF calls
<1>8. Filled(<<>>)
  BY DEF Filled
<1>9. Len(Joined(<<>>)) = 0
  BY JoinedNone
<1>10. Cat(Joined(<<>>), Joined(calls)) = Joined(calls)
  <2>1. Joined(calls) \in Seq(Units)
    BY <1>7, TextsType, JoinedType, Zenon
  <2>2. QED
    BY <2>1, JoinedNone, CatEmpty, Zenon
<1>11. Written'
  BY <1>3, <1>5, <1>7, <1>8, <1>9, <1>10, Zenon DEF Written
<1>12. /\ output'.pc \in {"collected", "write", "sent", "failed"}
       /\ output'.pc # "collected" /\ output'.pc # "sent"
  BY <1>3
<1>13. QED
  BY <1>3, <1>6, <1>11, <1>12, Zenon DEF OutputInv

LEMMA WriteStep == ASSUME OutputInv, Write PROVE OutputInv'
<1> DEFINE text == Head(output.calls)
           copy == Copied(output.blocks, text)
           part == Part(output.blocks, text)
           left == SubSeq(text, copy + 1, Len(text))
           more == More(output.blocks, part)
           later == (IF left = <<>> THEN <<>> ELSE <<left>>) \o Tail(output.calls)
<1>1. output.pc = "write" /\ output.calls # <<>>
  BY Zenon DEF Write
<1>2. /\ DOMAIN output = DOMAIN NoOutput /\ Requested /\ Written /\ output.body = <<>>
      /\ output.pc \in {"write", "sent"} /\ output.pc \in {"write", "failed"}
  BY <1>1 DEF OutputInv
<1>3. output' = [output EXCEPT !.blocks = more, !.length = output.length + copy, !.calls = later]
  BY Zenon DEF Write, Open, Copied, Part, More
<1>4. /\ Filled(output.blocks) /\ output.calls \in Seq(Texts)
      /\ output.length = Len(Joined(output.blocks))
      /\ Cat(Joined(output.blocks), Joined(output.calls)) = Answer
  BY <1>2, Zenon DEF Written
<1>5. text \in Texts
  BY <1>1, <1>4, FirstOf, Zenon
<1>6. copy \in 1..Len(text) /\ Filled(more) /\ Joined(more) = Cat(Joined(output.blocks), part)
  BY <1>4, <1>5, PartWritten, Zenon
<1>7. later \in Seq(Texts) /\ Joined(output.calls) = Cat(part, Joined(later))
  BY <1>1, <1>4, <1>6, LeftOver DEF Part
<1> HIDE DEF more, later, copy
<1>8. /\ output'.blocks = more /\ output'.length = output.length + copy
      /\ output'.calls = later /\ output'.pc = output.pc /\ output'.body = output.body
      /\ output'.format = output.format /\ output'.flag = output.flag
      /\ output'.sources = output.sources /\ DOMAIN output' = DOMAIN NoOutput
  BY <1>2, <1>3 DEF NoOutput
<1>9. Answer' = Answer /\ Requested'
  BY <1>2, <1>8, RequestKept, Zenon DEF RequestUnchanged
<1>10. /\ part \in Seq(Units) /\ Len(part) = copy
       /\ Joined(output.blocks) \in Seq(Units) /\ Joined(later) \in Seq(Units)
  <2>1. text \in Seq(Units)
    BY <1>5, TextsType, Zenon
  <2>2. part \in Seq(Units) /\ Len(part) = copy
    <3>1. \A t \in Seq(Units) : \A c \in 1..Len(t) :
             SubSeq(t, 1, c) \in Seq(Units) /\ Len(SubSeq(t, 1, c)) = c
      BY CutText, Zenon
    <3>2. part = SubSeq(text, 1, copy)
      BY Zenon DEF Part, copy
    <3>3. QED
      BY <1>6, <2>1, <3>1, <3>2, Zenon
  <2>3. Joined(output.blocks) \in Seq(Units) /\ Joined(later) \in Seq(Units)
    BY <1>4, <1>7, TextsType, JoinedType, Zenon DEF Filled
  <2>4. QED
    BY <2>2, <2>3, Zenon
<1>11. Cat(Joined(more), Joined(later)) = Answer
  <2>1. Cat(Cat(Joined(output.blocks), part), Joined(later))
           = Cat(Joined(output.blocks), Cat(part, Joined(later)))
    BY <1>10, UnitsAssoc, Zenon
  <2>2. QED
    BY <1>4, <1>6, <1>7, <2>1, Zenon
<1>12. output.length + copy = Len(Joined(more))
  <2>1. \A s, t \in Seq(Units) : Len(Cat(s, t)) = Len(s) + Len(t)
    BY DEF Cat
  <2> HIDE DEF part
  <2>2. QED
    BY <1>4, <1>6, <1>10, <2>1, Zenon
<1>13. Written'
  BY <1>6, <1>7, <1>8, <1>9, <1>11, <1>12, Zenon DEF Written
<1>14. /\ output'.pc \in {"collected", "write", "sent", "failed"}
       /\ output'.pc # "collected" /\ output'.pc # "sent"
  BY <1>1, <1>8
<1>15. QED
  BY <1>2, <1>8, <1>9, <1>13, <1>14, Zenon DEF OutputInv

LEMMA WriteFailsStep == ASSUME OutputInv, WriteFails PROVE OutputInv'
<1>1. output.pc = "write" /\ output' = [output EXCEPT !.pc = "failed"]
  BY Zenon DEF WriteFails
<1>2. DOMAIN output = DOMAIN NoOutput /\ output.body = <<>>
  BY <1>1 DEF OutputInv
<1>3. /\ output'.pc = "failed" /\ output'.body = <<>> /\ DOMAIN output' = DOMAIN NoOutput
  BY <1>1, <1>2 DEF NoOutput
<1>4. /\ output'.pc \in {"collected", "write", "sent", "failed"}
      /\ output'.pc # "collected" /\ output'.pc # "sent" /\ output'.pc \notin {"write", "sent"}
  BY <1>3
<1>5. QED
  BY <1>3, <1>4, Zenon DEF OutputInv

LEMMA SendStep == ASSUME OutputInv, Send PROVE OutputInv'
<1>1. PICK body \in {<<>>, Joined(output.blocks)} :
         output' = [output EXCEPT !.pc = "sent", !.body = body]
  BY Zenon DEF Send
<1>2. output.pc = "write" /\ output.calls = <<>>
  BY Zenon DEF Send
<1>3. DOMAIN output = DOMAIN NoOutput /\ Requested /\ Written
  BY <1>2 DEF OutputInv
<1>4. /\ output'.pc = "sent" /\ output'.body = body /\ output'.blocks = output.blocks
      /\ output'.calls = output.calls /\ output'.length = output.length
      /\ output'.format = output.format /\ output'.flag = output.flag
      /\ output'.sources = output.sources /\ DOMAIN output' = DOMAIN NoOutput
  BY <1>1, <1>3 DEF NoOutput
<1>5. Answer' = Answer /\ Requested'
  BY <1>3, <1>4, RequestKept, Zenon DEF RequestUnchanged
<1>6. Written'
  BY <1>3, <1>4, <1>5, Zenon DEF Written
<1>7. output'.calls = <<>> /\ output'.body \in {<<>>, Joined(output'.blocks)}
  BY <1>1, <1>2, <1>4, Zenon
<1>8. /\ output'.pc \in {"collected", "write", "sent", "failed"}
      /\ output'.pc # "collected" /\ output'.pc \notin {"write", "failed"}
  BY <1>4
<1>9. QED
  BY <1>4, <1>5, <1>6, <1>7, <1>8, Zenon DEF OutputInv

\* The invariant gives the property.
LEMMA OutputInvSound == ASSUME OutputInv PROVE AnswerSound
<1>1. ASSUME output.pc = "failed" PROVE output.body = <<>>
  BY <1>1 DEF OutputInv
<1>2. ASSUME output.pc = "sent"
      PROVE  LET text == Joined(output.blocks)
             IN  /\ BlocksWhole(text) /\ RowsShown(text)
                 /\ TotalsMatch(text) /\ CommasBetweenRows(text)
                 /\ output.body \in {<<>>, text}
  <2>1. Requested /\ Written /\ output.calls = <<>> /\ output.body \in {<<>>, Joined(output.blocks)}
    BY <1>2 DEF OutputInv
  <2>2. /\ Filled(output.blocks) /\ output.length = Len(Joined(output.blocks))
        /\ Cat(Joined(output.blocks), Joined(<<>>)) = Answer
    BY <2>1, Zenon DEF Written
  <2>3. Joined(output.blocks) \in Seq(Units)
    BY <2>2, TextsType, JoinedType, Zenon DEF Filled
  <2>4. Joined(output.blocks) = Answer
    BY <2>2, <2>3, JoinedNone, CatEmpty, Zenon
  <2>5. RowsShown(Answer) /\ TotalsMatch(Answer) /\ CommasBetweenRows(Answer)
    BY <2>1, AnswerRight, Zenon DEF Right
  <2>6. BlocksWhole(Joined(output.blocks))
    <3>1. \A b \in DOMAIN output.blocks :
             /\ output.blocks[b] # <<>>
             /\ b # Len(output.blocks) => Len(output.blocks[b]) = BlockSize
      <4>1. \A b \in DOMAIN output.blocks : output.blocks[b] \in Texts
        BY <2>2 DEF Filled
      <4>2. QED
        BY <2>2, <4>1, TextsType, Zenon DEF Filled
    <3>2. QED
      BY <2>2, <3>1, Zenon DEF BlocksWhole
  <2>7. QED
    BY <2>1, <2>4, <2>5, <2>6, Zenon
<1>3. QED
  BY <1>1, <1>2, Zenon DEF AnswerSound

\* README: "JSON total matches the emitted array length" and "allocation failures return
\* HTTP 500": whatever was collected, selected and asked for, and whatever the size of a
\* block, every answer the formatters and the writer send
\* is complete, and its length, rows, totals and commas are right.
THEOREM AnswerSafety == OutputSpec => []AnswerSound
<1>1. OutputInit => OutputInv
  BY OutputInvInit, Zenon
<1>2. OutputInv /\ [OutputNext]_output => OutputInv'
  <2>1. SUFFICES ASSUME OutputInv, [OutputNext]_output PROVE OutputInv'
    BY <2>1, Zenon
  <2>2. CASE OutputNext
    BY <2>1, <2>2, FormatStep, WriteStep, WriteFailsStep, SendStep, Zenon DEF OutputNext
  <2>3. CASE UNCHANGED output
    <3>1. RequestUnchanged
      BY <2>3 DEF RequestUnchanged
    <3>2. Answer' = Answer /\ (Requested => Requested')
      BY <3>1, RequestKept, Zenon
    <3>3. Written => Written'
      BY <2>3, <3>2, Zenon DEF Written
    <3>4. QED
      BY <2>1, <2>3, <3>2, <3>3, Zenon DEF OutputInv
  <2>4. QED
    BY <2>1, <2>2, <2>3, Zenon
<1>3. OutputInv => AnswerSound
  BY OutputInvSound, Zenon
<1>4. QED
  BY <1>1, <1>2, <1>3, PTL DEF OutputSpec
=============================================================================
