--------------------------- MODULE TcpCheckProofs ---------------------------
(***************************************************************************)
(* The safety properties of the TCP check, for every timeout, lifetime of  *)
(* a connection and limit of discarded bytes.  The inductive invariant     *)
(* TcpInv extends RoundStructure to the middle of a handler and says what  *)
(* the state of a connection, the events of its socket and its use in an   *)
(* earlier round have to do with each other.                               *)
(***************************************************************************)
EXTENDS TcpCheck, TLAPS

----------------------------------------------------------------------------
(***************************************************************************)
(* Types                                                                   *)
(***************************************************************************)
LEMMA Ranges ==
    /\ 0 \in 0..CheckTimeout /\ CheckTimeout \in 0..CheckTimeout
    /\ 0 \in 0..Rehandshake /\ 0 \in 0..DiscardMax /\ 0 \in 0..MaxUnread
    /\ \A n \in 0..CheckTimeout : n > 0 => n - 1 \in 0..CheckTimeout
    /\ \A n \in 0..Rehandshake : n < Rehandshake => n + 1 \in 0..Rehandshake
    /\ \A n \in 0..MaxUnread : n + 1..MaxUnread \subseteq 0..MaxUnread
  BY TcpAssumption

LEMMA FreshType ==
    ASSUME NEW state \in {"none", "connecting", "open", "refused"}
    PROVE  Fresh(state) \in Connections
  BY Ranges DEF Fresh, Connections

LEMMA NewRoundType == NewRound \in Rounds
  BY Ranges DEF NewRound, Rounds

LEMMA InitType == Init => TypeOK
<1> SUFFICES ASSUME Init PROVE TypeOK
  OBVIOUS
<1>1. round \in Rounds
  <2>1. NewRound \in Rounds /\ 0 \in 0..CheckTimeout
    BY NewRoundType, Ranges
  <2>2. round = [NewRound EXCEPT !.stage = "idle", !.left = 0]
    BY DEF Init
  <2>3. QED
    BY <2>1, <2>2 DEF Rounds
<1>2. conn \in Connections
  BY FreshType DEF Init, NoConnection
<1>3. QED
  BY <1>1, <1>2 DEF Init, TypeOK, Handlers

LEMMA KeepType ==
    ASSUME NEW c \in Connections, Keep(c)
    PROVE  conn' \in Connections /\ at' \in {"idle", "loop"}
<1>1. CASE conn' = [c EXCEPT !.idle = TRUE, !.wposted = FALSE] /\ at' = AfterKeeping(c)
  BY <1>1 DEF Connections, AfterKeeping
<1>2. CASE Close /\ at' = "loop"
  BY <1>2, FreshType DEF Close, NoConnection
<1>3. QED
  BY <1>1, <1>2 DEF Keep

Sources == {"none", "recv", "timer", "connect", "setsockopt", "clock"}

LEMMA FinishType ==
    ASSUME TypeOK, NEW success \in BOOLEAN, NEW source \in Sources,
           NEW c \in Connections, Finish(success, source, c)
    PROVE  TypeOK'
<1>1. PICK clock \in BOOLEAN, submitted \in BOOLEAN :
        /\ round' = [round EXCEPT
               !.stage = IF submitted THEN "idle" ELSE "pending",
               !.verdict = IF success THEN "success" ELSE "failure",
               !.source = source,
               !.sample = success /\ c.state # "none" /\ ~c.used /\ clock]
        /\ timer' = FALSE
        /\ IF submitted /\ success /\ round.mine
           THEN Keep(CountRequest(c))
           ELSE Close /\ at' = "loop"
        /\ UNCHANGED fault
  BY DEF Finish
<1>2. round' \in Rounds
  <2>1. PICK stage \in {"idle", "pending"}, verdict \in {"success", "failure"},
            sample \in BOOLEAN :
          round' = [round EXCEPT !.stage = stage, !.verdict = verdict,
                                 !.source = source, !.sample = sample]
    BY <1>1
  <2>2. QED
    BY <2>1 DEF TypeOK, Rounds, Sources
<1>3. CountRequest(c) \in Connections
  BY DEF CountRequest, Connections
<1>4. conn' \in Connections /\ at' \in Handlers
  BY <1>1, <1>3, KeepType, FreshType DEF Close, NoConnection, Handlers
<1>5. QED
  BY <1>1, <1>2, <1>4 DEF TypeOK

LEMMA DropType ==
    ASSUME TypeOK, Drop
    PROVE  TypeOK'
  BY FreshType DEF TypeOK, Drop, Close, NoConnection, Rounds, Handlers

LEMMA PrepareType ==
    ASSUME TypeOK, NEW c \in Connections, NEW new \in BOOLEAN, Prepare(c, new)
    PROVE  TypeOK'
<1>1. CASE Finish(FALSE, "clock", c)
  BY <1>1, FinishType DEF Sources
<1>2. CASE /\ round' = [round EXCEPT !.prepared = TRUE, !.left = CheckTimeout,
                                     !.fresh = new]
           /\ timer' = TRUE
           /\ conn' = [c EXCEPT !.idle = FALSE]
           /\ at' = IF c.state = "open" THEN "check" ELSE "loop"
           /\ UNCHANGED fault
  <2>1. round' \in Rounds
    <3>1. CheckTimeout \in 0..CheckTimeout
      BY Ranges
    <3>2. QED
      BY <1>2, <3>1 DEF TypeOK, Rounds
  <2>2. conn' \in Connections
    BY <1>2 DEF Connections
  <2>3. QED
    BY <1>2, <2>1, <2>2 DEF TypeOK, Handlers
<1>3. QED
  BY <1>1, <1>2 DEF Prepare

LEMMA NextType ==
    ASSUME TypeOK, [Next]_vars
    PROVE  TypeOK'
<1>1. CASE Start
  <2>1. CASE StartLater
    BY <2>1 DEF StartLater, TypeOK, Handlers
  <2>2. CASE StartLost
    BY <2>2, DropType DEF StartLost
  <2>3. CASE StartLate
    BY <2>3, FinishType DEF StartLate, TypeOK, Sources
  <2>4. CASE StartReuse
    BY <2>4, PrepareType DEF StartReuse, TypeOK
  <2>5. CASE StartConnect
    BY <2>5, PrepareType, FinishType, FreshType DEF StartConnect, NoConnection, Sources
  <2>6. QED
    BY <1>1, <2>1, <2>2, <2>3, <2>4, <2>5 DEF Start
<1>2. CASE Check
  <2>1. CASE CheckLater
    BY <2>1 DEF CheckLater, TypeOK, Handlers
  <2>2. CASE CheckLost
    BY <2>2, DropType DEF CheckLost
  <2>3. CASE CheckLate
    BY <2>3, FinishType DEF CheckLate, TypeOK, Sources
  <2>4. CASE CheckResult
    <3>1. Peek(conn) \in BOOLEAN
      BY Zenon DEF Peek
    <3>2. QED
      BY <2>4, <3>1, FinishType DEF CheckResult, TypeOK, Sources
  <2>5. QED
    BY <1>2, <2>1, <2>2, <2>3, <2>4 DEF Check
<1>3. CASE Discard
  <2>1. PICK n \in 1..conn.unread :
          /\ n <= DiscardMax - conn.discarded + 1
          /\ LET total == conn.discarded + n
             IN  IF OverLimit(total)
                 THEN Close /\ at' = "loop"
                 ELSE /\ conn' = [conn EXCEPT !.discarded = total, !.unread = @ - n]
                      /\ UNCHANGED at
    BY <1>3 DEF Discard
  <2>2. conn' \in Connections
    <3>1. CASE Close
      BY <3>1, FreshType DEF Close, NoConnection
    <3>2. CASE /\ ~OverLimit(conn.discarded + n)
               /\ conn' = [conn EXCEPT !.discarded = conn.discarded + n,
                                       !.unread = conn.unread - n]
      <4>1. conn.discarded \in 0..DiscardMax /\ conn.unread \in 0..MaxUnread
        BY DEF TypeOK, Connections
      <4> DEFINE discarded == conn.discarded + n
                 unread == conn.unread - n
      <4>2. discarded \in 0..DiscardMax /\ unread \in 0..MaxUnread
        BY <3>2, <4>1, TcpAssumption DEF OverLimit
      <4>3. conn' = [conn EXCEPT !.discarded = discarded, !.unread = unread]
        BY <3>2
      <4> HIDE DEF discarded, unread
      <4>4. QED
        BY <4>2, <4>3 DEF TypeOK, Connections
    <3>3. QED
      BY <2>1, <3>1, <3>2
  <2>3. at' \in Handlers
    BY <2>1 DEF TypeOK, Handlers
  <2>4. QED
    BY <1>3, <2>2, <2>3 DEF Discard, TypeOK
<1>4. CASE IdleRead \/ NothingLeft \/ IdleEnd \/ Drain
  <2>1. conn' \in Connections
    BY <1>4, FreshType
    DEF IdleRead, NothingLeft, IdleEnd, Drain, Close, NoConnection, TypeOK, Connections
  <2>2. QED
    BY <1>4, <2>1 DEF IdleRead, NothingLeft, IdleEnd, Drain, TypeOK, Handlers
<1>5. CASE Claim
  <2>1. conn' \in Connections
    BY <1>5 DEF Claim, TypeOK, Connections
  <2>2. QED
    BY <1>5, <2>1, NewRoundType DEF Claim, TypeOK, Handlers
<1>6. CASE Timeout
  BY <1>6, FinishType, DropType DEF Timeout, TypeOK, Sources
<1>7. CASE PollRead \/ PollWrite \/ Posted
  <2>1. conn' \in Connections
    <3> conn \in Connections
      BY DEF TypeOK
    <3>1. CASE PollRead
      <4>1. CASE conn' = [conn EXCEPT !.edge = FALSE, !.ready = TRUE]
        BY <4>1 DEF Connections
      <4>2. CASE conn' = [conn EXCEPT !.edge = FALSE, !.ready = TRUE, !.posted = TRUE]
        BY <4>2 DEF Connections
      <4>3. QED
        BY <3>1, <4>1, <4>2 DEF PollRead
    <3>2. CASE PollWrite
      <4>1. CASE conn' = [conn EXCEPT !.wedge = FALSE, !.wready = TRUE]
        BY <4>1 DEF Connections
      <4>2. CASE conn' = [conn EXCEPT !.wedge = FALSE, !.wready = TRUE, !.wposted = TRUE]
        BY <4>2 DEF Connections
      <4>3. QED
        BY <3>2, <4>1, <4>2 DEF PollWrite
    <3>3. CASE Posted
      BY <3>3 DEF Posted, TypeOK, Connections
    <3>4. QED
      BY <1>7, <3>1, <3>2, <3>3
  <2>2. at' \in Handlers
    BY <1>7 DEF PollRead, PollWrite, Posted, TypeOK, Handlers, ReadHandler, WriteHandler
  <2>3. QED
    BY <1>7, <2>1, <2>2 DEF PollRead, PollWrite, Posted, TypeOK
<1>8. CASE Resume
  BY <1>8 DEF Resume, TypeOK, Handlers
<1>9. CASE Resubmit
  BY <1>9 DEF Resubmit, TypeOK, Rounds
<1>10. CASE WatchLost
  BY <1>10, DropType DEF WatchLost
<1>11. CASE Stop
  BY <1>11, FreshType DEF Stop, Close, NoConnection, TypeOK, Rounds, Handlers
<1>12. CASE TakenOver
  BY <1>12 DEF TakenOver, TypeOK, Rounds
<1>13. CASE ConnectDone \/ PeerEnds
  <2>1. conn' \in Connections
    BY <1>13 DEF ConnectDone, PeerEnds, TypeOK, Connections
  <2>2. fault' \in BOOLEAN
    BY <1>13, Zenon DEF ConnectDone, PeerEnds, TypeOK, InRound
  <2>3. QED
    BY <1>13, <2>1, <2>2 DEF ConnectDone, PeerEnds, TypeOK
<1>14. CASE PeerSends
  <2>1. PICK n \in conn.unread + 1..MaxUnread :
          conn' = [conn EXCEPT !.unread = n, !.edge = TRUE]
    BY <1>14 DEF PeerSends
  <2>2. n \in 0..MaxUnread
    BY <2>1, Ranges DEF TypeOK, Connections
  <2>3. conn' \in Connections
    BY <2>1, <2>2 DEF TypeOK, Connections
  <2>4. QED
    BY <1>14, <2>3 DEF PeerSends, TypeOK
<1>15. CASE Tick
  <2>1. conn' \in Connections
    <3>1. CASE conn' = conn
      BY <3>1 DEF TypeOK
    <3>2. CASE conn.age < Rehandshake /\ conn' = [conn EXCEPT !.age = conn.age + 1]
      <4> DEFINE age == conn.age + 1
      <4>1. age \in 0..Rehandshake
        BY <3>2, Ranges DEF TypeOK, Connections
      <4>2. conn' = [conn EXCEPT !.age = age]
        BY <3>2
      <4> HIDE DEF age
      <4>3. QED
        BY <4>1, <4>2 DEF TypeOK, Connections
    <3>3. QED
      BY <1>15, <3>1, <3>2 DEF Tick, Older
  <2>2. round' \in Rounds
    <3>1. CASE round' = round
      BY <3>1 DEF TypeOK
    <3>2. CASE round.left > 0 /\ round' = [round EXCEPT !.left = round.left - 1]
      <4> DEFINE left == round.left - 1
      <4>1. left \in 0..CheckTimeout
        BY <3>2, Ranges DEF TypeOK, Rounds
      <4>2. round' = [round EXCEPT !.left = left]
        BY <3>2
      <4> HIDE DEF left
      <4>3. QED
        BY <4>1, <4>2 DEF TypeOK, Rounds
    <3>3. QED
      BY <1>15, <3>1, <3>2 DEF Tick, Nearer
  <2>3. QED
    BY <1>15, <2>1, <2>2 DEF Tick, TypeOK
<1>16. CASE UNCHANGED vars
  BY <1>16 DEF vars, TypeOK
<1>17. QED
  BY <1>1, <1>2, <1>3, <1>4, <1>5, <1>6, <1>7, <1>8, <1>9, <1>10, <1>11, <1>12,
     <1>13, <1>14, <1>15, <1>16
  DEF Next, IdleStep, Loop, Environment

\* Every variable of the TCP check keeps its type; a connection never has more
\* bytes discarded than may be.
THEOREM TcpTypeSafety == Spec => []TypeOK
<1>1. QED
  BY InitType, NextType, PTL DEF Spec

----------------------------------------------------------------------------
(***************************************************************************)
(* The invariant                                                           *)
(***************************************************************************)
\* Which handler runs when; connection, timeout and round belong together.
PlaceInv ==
    /\ timer <=> InRound
    /\ (InRound /\ round.prepared) <=> (Connected /\ ~conn.idle)
    /\ at = "start" => InRound /\ ~round.prepared
    /\ at = "check" => InRound /\ round.prepared
    /\ at \in {"idle", "recv"} => Connected /\ conn.idle
    /\ at = "stopped" => ~InRound

\* What a connection can be like in each of its states.
ConnInv ==
    /\ conn.state = "none" =>
          /\ ~conn.edge /\ ~conn.wedge /\ ~conn.posted /\ ~conn.wposted
    /\ conn.state = "connecting" =>
          /\ ~conn.edge /\ ~conn.ready /\ ~conn.posted
          /\ ~conn.wedge /\ ~conn.wready /\ ~conn.wposted
    /\ conn.state # "open" => ~conn.ended /\ conn.unread = 0
    /\ conn.state \in {"open", "refused"} => conn.wedge \/ conn.wready
    /\ Connected /\ conn.idle => conn.state = "open" /\ conn.used
    /\ at = "check" => conn.state # "connecting"

\* Data and ends that have arrived are with the kernel or marked ready; what
\* is marked ready on an idle connection is served next, or by the round.
EventInv ==
    /\ conn.unread > 0 \/ conn.ended => conn.edge \/ conn.ready
    /\ conn.idle /\ conn.ready /\ ~InRound => conn.posted \/ at \in {"idle", "recv"}

\* Within a round: a connection it did not make was used before, and one that
\* is broken was broken in this round.
RoundInv ==
    /\ InRound => ~round.sample /\ round.verdict = "none"
    /\ InRound /\ round.prepared =>
          /\ ~conn.used => round.fresh
          /\ conn.state = "refused" => fault
          /\ conn.ended /\ conn.unread = 0 => fault

Core ==
    /\ PlaceInv /\ ConnInv /\ EventInv /\ RoundInv
    /\ FailureFromRound /\ SampleIsHandshake

TcpInv == TypeOK /\ Core

----------------------------------------------------------------------------
(***************************************************************************)
(* Every step keeps the invariant                                          *)
(***************************************************************************)
LEMMA NoConnectionFields ==
    /\ NoConnection.state = "none" /\ ~NoConnection.idle
    /\ ~NoConnection.edge /\ ~NoConnection.ready /\ ~NoConnection.posted
    /\ ~NoConnection.wedge /\ ~NoConnection.wready /\ ~NoConnection.wposted
    /\ NoConnection.unread = 0 /\ ~NoConnection.ended
  BY DEF NoConnection, Fresh

LEMMA InitCore == Init => Core
<1> SUFFICES ASSUME Init PROVE Core
  OBVIOUS
<1>1. ~InRound /\ ~timer /\ at = "loop" /\ round.verdict = "none" /\ ~round.sample
  BY DEF Init, InRound, NewRound
<1>2. conn = NoConnection
  BY DEF Init
<1>3. QED
  BY <1>1, <1>2, NoConnectionFields
  DEF Core, PlaceInv, ConnInv, EventInv, RoundInv, FailureFromRound,
      SampleIsHandshake, Connected

\* A round that is over and leaves no connection.
LEMMA ClosedCore ==
    ASSUME round'.stage # "active", timer' = FALSE, conn' = NoConnection,
           at' \in {"loop", "stopped"},
           round'.verdict = "failure" /\ round'.source = "recv" => fault',
           round'.sample => round'.fresh
    PROVE  Core'
  BY NoConnectionFields
  DEF Core, PlaceInv, ConnInv, EventInv, RoundInv, FailureFromRound,
      SampleIsHandshake, Connected, InRound

\* The end of a round: what decides it, and the connection it may keep.
LEMMA FinishCore ==
    ASSUME TcpInv, NEW success \in BOOLEAN, NEW source \in Sources,
           NEW c \in Connections, Finish(success, source, c),
           success => InRound /\ round.prepared /\ c = conn /\ conn.state = "open",
           ~success /\ source = "recv" => fault
    PROVE  Core'
<1>1. PICK clock \in BOOLEAN, submitted \in BOOLEAN :
        /\ round' = [round EXCEPT
               !.stage = IF submitted THEN "idle" ELSE "pending",
               !.verdict = IF success THEN "success" ELSE "failure",
               !.source = source,
               !.sample = success /\ c.state # "none" /\ ~c.used /\ clock]
        /\ timer' = FALSE
        /\ IF submitted /\ success /\ round.mine
           THEN Keep(CountRequest(c))
           ELSE Close /\ at' = "loop"
        /\ UNCHANGED fault
  BY DEF Finish
<1>2. /\ round'.stage # "active" /\ round'.source = source
      /\ round'.verdict = (IF success THEN "success" ELSE "failure")
      /\ round'.fresh = round.fresh
      /\ round'.sample => success /\ ~c.used
  BY <1>1 DEF TcpInv, TypeOK, Rounds
<1>3. round'.verdict = "failure" /\ round'.source = "recv" => fault'
  BY <1>1, <1>2
<1>4. round'.sample => round'.fresh
  BY <1>2 DEF TcpInv, Core, RoundInv
<1>5. CASE Close /\ at' = "loop"
  BY <1>1, <1>2, <1>3, <1>4, <1>5, ClosedCore DEF Close
<1>6. CASE success /\ conn' = [CountRequest(conn) EXCEPT !.idle = TRUE, !.wposted = FALSE]
           /\ at' = AfterKeeping(CountRequest(conn))
  <2>1. /\ conn'.state = "open" /\ conn'.idle /\ conn'.used
        /\ conn'.edge = conn.edge /\ conn'.ready = conn.ready
        /\ conn'.posted = conn.posted /\ conn'.wedge = conn.wedge
        /\ conn'.wready = conn.wready /\ conn'.unread = conn.unread
        /\ conn'.ended = conn.ended
    BY <1>6 DEF TcpInv, TypeOK, Connections, CountRequest
  <2>2. at' = IF conn.ready THEN "idle" ELSE "loop"
    BY <1>6 DEF AfterKeeping, CountRequest, TcpInv, TypeOK, Connections
  <2>3. QED
    BY <1>1, <1>2, <1>3, <1>4, <1>6, <2>1, <2>2
    DEF TcpInv, Core, PlaceInv, ConnInv, EventInv, RoundInv, FailureFromRound,
        SampleIsHandshake, Connected, InRound
<1>7. QED
  BY <1>1, <1>5, <1>6 DEF Keep

LEMMA DropCore ==
    ASSUME TcpInv, Drop
    PROVE  Core'
<1>1. /\ round'.stage # "active" /\ round'.verdict = round.verdict
      /\ round'.source = round.source /\ round'.sample = round.sample
      /\ round'.fresh = round.fresh
  BY DEF Drop, TcpInv, TypeOK, Rounds
<1>2. QED
  BY <1>1, ClosedCore DEF Drop, Close, TcpInv, Core, FailureFromRound, SampleIsHandshake

\* The preparation of a round on a kept connection, or on one just made.
LEMMA PrepareCore ==
    ASSUME TcpInv, at = "start", NEW c \in Connections, NEW new \in BOOLEAN,
           Prepare(c, new),
           c.state # "none",
           \/ c = conn /\ Peek(conn)
           \/ new /\ c \in {Fresh("open"), Fresh("connecting")}
    PROVE  Core'
<1>1. CASE Finish(FALSE, "clock", c)
  BY <1>1, FinishCore DEF Sources
<1>2. CASE /\ round' = [round EXCEPT !.prepared = TRUE, !.left = CheckTimeout,
                                     !.fresh = new]
           /\ timer' = TRUE
           /\ conn' = [c EXCEPT !.idle = FALSE]
           /\ at' = IF c.state = "open" THEN "check" ELSE "loop"
           /\ UNCHANGED fault
  <2>1. /\ InRound /\ ~round.sample /\ round.verdict = "none"
    BY DEF TcpInv, Core, PlaceInv, RoundInv
  <2>2. /\ round'.stage = "active" /\ round'.prepared /\ round'.fresh = new
        /\ ~round'.sample /\ round'.verdict = "none"
    BY <1>2, <2>1 DEF TcpInv, TypeOK, Rounds, InRound
  <2>3. /\ conn'.state = c.state /\ ~conn'.idle /\ conn'.edge = c.edge
        /\ conn'.ready = c.ready /\ conn'.posted = c.posted
        /\ conn'.wedge = c.wedge /\ conn'.wready = c.wready
        /\ conn'.wposted = c.wposted /\ conn'.unread = c.unread
        /\ conn'.ended = c.ended /\ conn'.used = c.used
    BY <1>2 DEF Connections
  <2>4. CASE c = conn /\ Peek(conn)
    <3>1. conn.state = "open" /\ conn.used /\ (conn.unread > 0 \/ ~conn.ended)
      BY <2>4 DEF TcpInv, Core, PlaceInv, ConnInv, Connected, Peek
    <3>2. conn.unread # 0 \/ ~conn.ended
      BY <3>1
    <3>3. QED
      BY <1>2, <2>2, <2>3, <2>4, <3>1, <3>2
      DEF TcpInv, Core, PlaceInv, ConnInv, EventInv, RoundInv, FailureFromRound,
          SampleIsHandshake, Connected, InRound
  <2>5. CASE new /\ c \in {Fresh("open"), Fresh("connecting")}
    <3>1. /\ c.state \in {"open", "connecting"}
          /\ ~c.edge /\ ~c.ready /\ ~c.posted /\ ~c.wedge /\ ~c.wposted
          /\ c.wready <=> c.state = "open"
          /\ c.unread = 0 /\ ~c.ended
      <4>1. Fresh("open").wready = TRUE /\ Fresh("connecting").wready = FALSE
        BY DEF Fresh
      <4>2. /\ c.state \in {"open", "connecting"}
            /\ ~c.edge /\ ~c.ready /\ ~c.posted /\ ~c.wedge /\ ~c.wposted
            /\ c.unread = 0 /\ ~c.ended
        BY <2>5 DEF Fresh
      <4>3. Fresh("open").state = "open" /\ Fresh("connecting").state = "connecting"
        BY DEF Fresh
      <4>4. QED
        BY <2>5, <4>1, <4>2, <4>3
    <3>2. QED
      BY <1>2, <2>2, <2>3, <2>5, <3>1
      DEF TcpInv, Core, PlaceInv, ConnInv, EventInv, RoundInv, FailureFromRound,
          SampleIsHandshake, Connected, InRound
  <2>6. QED
    BY <2>4, <2>5
<1>3. QED
  BY <1>1, <1>2 DEF Prepare

\* Steps of a handler at work that touch neither the round nor the connection.
LEMMA WalkCore ==
    ASSUME TcpInv, UNCHANGED <<round, timer, conn, fault>>,
           \/ at' = "loop" /\ at \in {"start", "check"}
           \/ at' = "start" /\ InRound /\ ~round.prepared
           \/ at' = "check" /\ InRound /\ round.prepared /\ conn.state # "connecting"
              /\ at = "loop"
           \/ at' = "recv" /\ at = "idle"
    PROVE  Core'
  BY DEF TcpInv, Core, PlaceInv, ConnInv, EventInv, RoundInv, FailureFromRound,
         SampleIsHandshake, Connected, InRound

\* An idle connection is closed; the round goes on if it is active.
LEMMA CloseIdleCore ==
    ASSUME TcpInv, Connected, conn.idle, Close, at' = "loop",
           UNCHANGED <<round, timer, fault>>
    PROVE  Core'
  BY NoConnectionFields
  DEF Close, TcpInv, Core, PlaceInv, ConnInv, EventInv, RoundInv, FailureFromRound,
      SampleIsHandshake, Connected, InRound

LEMMA NextCore ==
    ASSUME TcpInv, [Next]_vars
    PROVE  Core'
<1>1. CASE Start
  <2>1. CASE StartLater
    BY <2>1, WalkCore DEF StartLater
  <2>2. CASE StartLost
    BY <2>2, DropCore DEF StartLost
  <2>3. CASE StartLate
    BY <2>3, FinishCore DEF StartLate, TcpInv, TypeOK, Sources
  <2>4. CASE StartReuse
    BY <2>4, PrepareCore DEF StartReuse, Starting, Reusable, TcpInv, TypeOK
  <2>5. CASE StartConnect
    <3>1. CASE Finish(FALSE, "connect", NoConnection) \/ Finish(FALSE, "setsockopt", NoConnection)
      BY <3>1, FinishCore, FreshType DEF NoConnection, Sources
    <3>2. CASE Prepare(Fresh("open"), TRUE) \/ Prepare(Fresh("connecting"), TRUE)
      <4>1. Fresh("open").state = "open" /\ Fresh("connecting").state = "connecting"
        BY DEF Fresh
      <4>2. at = "start"
        BY <2>5 DEF StartConnect, Starting
      <4>3. QED
        BY <3>2, <4>1, <4>2, PrepareCore, FreshType
    <3>3. QED
      BY <2>5, <3>1, <3>2 DEF StartConnect
  <2>6. QED
    BY <1>1, <2>1, <2>2, <2>3, <2>4, <2>5 DEF Start
<1>2. CASE Check
  <2>1. CASE CheckLater
    BY <2>1, WalkCore DEF CheckLater
  <2>2. CASE CheckLost
    BY <2>2, DropCore DEF CheckLost
  <2>3. CASE CheckLate
    BY <2>3, FinishCore DEF CheckLate, TcpInv, TypeOK, Sources
  <2>4. CASE CheckResult
    <3>1. at = "check" /\ Finish(Peek(conn), "recv", conn)
      BY <2>4 DEF CheckResult
    <3>2. /\ InRound /\ round.prepared /\ conn.state \in {"open", "refused"}
      BY <3>1 DEF TcpInv, TypeOK, Connections, Core, PlaceInv, ConnInv, Connected
    <3>3. CASE Peek(conn)
      <4>1. conn.state = "open"
        BY <3>2, <3>3 DEF Peek
      <4>2. Finish(TRUE, "recv", conn)
        <5>1. Peek(conn) = TRUE
          BY <3>3, Zenon DEF Peek
        <5>2. QED
          BY <3>1, <5>1
      <4>3. QED
        BY <3>2, <4>1, <4>2, FinishCore DEF TcpInv, TypeOK, Sources
    <3>4. CASE ~Peek(conn)
      <4>1. fault
        <5>1. conn.unread \in 0..MaxUnread
          BY DEF TcpInv, TypeOK, Connections
        <5>2. conn.state = "refused" \/ (conn.ended /\ conn.unread = 0)
          BY <3>2, <3>4, <5>1, TcpAssumption DEF Peek
        <5>3. QED
          BY <3>2, <5>2 DEF TcpInv, Core, RoundInv
      <4>2. Finish(FALSE, "recv", conn)
        <5>1. Peek(conn) = FALSE
          BY <3>4, Zenon DEF Peek
        <5>2. QED
          BY <3>1, <5>1
      <4>3. QED
        BY <4>1, <4>2, FinishCore DEF TcpInv, TypeOK, Sources
    <3>5. QED
      BY <3>3, <3>4
  <2>5. QED
    BY <1>2, <2>1, <2>2, <2>3, <2>4 DEF Check
<1>3. CASE IdleStep
  <2>1. at \in {"idle", "recv"} => Connected /\ conn.idle
    BY DEF TcpInv, Core, PlaceInv
  <2>2. CASE Close /\ at' = "loop" /\ UNCHANGED <<round, timer, fault>>
             /\ Connected /\ conn.idle
    BY <2>2, CloseIdleCore
  <2>3. CASE IdleRead
    <3>1. CASE at' = "recv" /\ UNCHANGED conn
      BY <2>3, <3>1, WalkCore DEF IdleRead
    <3>2. QED
      BY <2>1, <2>2, <2>3, <3>1 DEF IdleRead
  <2>4. CASE Discard
    <3>1. PICK n \in 1..conn.unread :
            LET total == conn.discarded + n
            IN  IF OverLimit(total)
                THEN Close /\ at' = "loop"
                ELSE /\ conn' = [conn EXCEPT !.discarded = total, !.unread = @ - n]
                     /\ UNCHANGED at
      BY <2>4 DEF Discard
    <3>2. CASE /\ conn' = [conn EXCEPT !.discarded = conn.discarded + n, !.unread = conn.unread - n]
               /\ UNCHANGED at
      <4>1. /\ conn'.state = conn.state /\ conn'.idle = conn.idle
            /\ conn'.edge = conn.edge /\ conn'.ready = conn.ready
            /\ conn'.posted = conn.posted /\ conn'.wedge = conn.wedge
            /\ conn'.wready = conn.wready /\ conn'.wposted = conn.wposted
            /\ conn'.ended = conn.ended /\ conn'.used = conn.used
        BY <3>2 DEF TcpInv, TypeOK, Connections
      <4>2. at = "recv" /\ Connected /\ conn.idle /\ conn.state = "open"
            /\ conn.unread > 0 /\ UNCHANGED <<round, timer, fault>>
        BY <2>1, <2>4 DEF Discard, TcpInv, Core, ConnInv
      <4>3. conn.edge \/ conn.ready
        BY <4>2 DEF TcpInv, Core, EventInv
      <4>4. QED
        BY <3>2, <4>1, <4>2, <4>3
        DEF TcpInv, Core, PlaceInv, ConnInv, EventInv, RoundInv, FailureFromRound,
            SampleIsHandshake, Connected, InRound
    <3>3. CASE Close /\ at' = "loop"
      BY <2>1, <2>2, <2>4, <3>3 DEF Discard
    <3>4. QED
      BY <3>1, <3>2, <3>3
  <2>5. CASE NothingLeft
    <3>1. CASE conn' = [conn EXCEPT !.ready = FALSE]
      <4>1. /\ conn'.state = conn.state /\ conn'.idle = conn.idle
            /\ conn'.edge = conn.edge /\ ~conn'.ready
            /\ conn'.posted = conn.posted /\ conn'.wedge = conn.wedge
            /\ conn'.wready = conn.wready /\ conn'.wposted = conn.wposted
            /\ conn'.ended = conn.ended /\ conn'.used = conn.used
            /\ conn'.unread = conn.unread
        BY <3>1 DEF TcpInv, TypeOK, Connections
      <4>2. at = "recv" /\ Connected /\ conn.idle /\ at' = "loop"
            /\ conn.unread = 0 /\ ~conn.ended /\ UNCHANGED <<round, timer, fault>>
        BY <2>1, <2>5 DEF NothingLeft
      <4>3. QED
        BY <4>1, <4>2
        DEF TcpInv, Core, PlaceInv, ConnInv, EventInv, RoundInv, FailureFromRound,
            SampleIsHandshake, Connected, InRound
    <3>2. QED
      BY <2>1, <2>2, <2>5, <3>1 DEF NothingLeft
  <2>6. CASE IdleEnd \/ Drain
    BY <2>1, <2>2, <2>6 DEF IdleEnd, Drain
  <2>7. QED
    BY <1>3, <2>3, <2>4, <2>5, <2>6 DEF IdleStep
<1>4. CASE Claim
  <2>1. /\ conn'.state = conn.state /\ conn'.idle = conn.idle
        /\ conn'.edge = conn.edge /\ conn'.ready = conn.ready
        /\ ~conn'.posted /\ conn'.wedge = conn.wedge
        /\ conn'.wready = conn.wready /\ ~conn'.wposted
        /\ conn'.ended = conn.ended /\ conn'.used = conn.used
        /\ conn'.unread = conn.unread
    BY <1>4 DEF Claim, TcpInv, TypeOK, Connections
  <2>2. /\ round'.stage = "active" /\ ~round'.prepared /\ ~round'.sample
        /\ round'.verdict = "none" /\ timer' = TRUE /\ at' = "start"
        /\ ~InRound
    BY <1>4 DEF Claim, NewRound, InRound
  <2>3. QED
    BY <2>1, <2>2
    DEF TcpInv, Core, PlaceInv, ConnInv, EventInv, RoundInv, FailureFromRound,
        SampleIsHandshake, Connected, InRound
<1>5. CASE Timeout
  BY <1>5, FinishCore, DropCore DEF Timeout, TcpInv, TypeOK, Sources
<1>6. CASE PollRead \/ PollWrite \/ Posted
  <2>1. at = "loop" /\ UNCHANGED <<round, timer, fault>>
    BY <1>6 DEF PollRead, PollWrite, Posted
  <2>2. conn.state \in {"open", "refused"}
    BY <1>6 DEF PollRead, PollWrite, Posted, TcpInv, TypeOK, Connections, Core, ConnInv
  <2>3. /\ conn'.state = conn.state /\ conn'.idle = conn.idle
        /\ conn'.ended = conn.ended /\ conn'.used = conn.used
        /\ conn'.unread = conn.unread
        /\ conn.edge \/ conn.ready => conn'.edge \/ conn'.ready
        /\ conn.wedge \/ conn.wready => conn'.wedge \/ conn'.wready
        /\ at' = at \/ at' = (IF conn.idle THEN "idle" ELSE "check")
           \/ (conn.idle /\ at' = "loop")
        /\ conn.idle /\ conn'.ready => conn'.posted \/ at' = "idle"
           \/ (conn.ready /\ conn.posted = conn'.posted)
    BY <1>6, <2>1, <2>2
    DEF PollRead, PollWrite, Posted, ReadHandler, WriteHandler, TcpInv, TypeOK, Connections
  <2>4. QED
    BY <2>1, <2>2, <2>3
    DEF TcpInv, Core, PlaceInv, ConnInv, EventInv, RoundInv, FailureFromRound,
        SampleIsHandshake, Connected, InRound
<1>7. CASE Resume
  <2>1. round.prepared /\ InRound /\ HasEvent(conn) => conn.state # "connecting"
    BY DEF HasEvent, TcpInv, Core, ConnInv
  <2>2. QED
    BY <1>7, <2>1, WalkCore DEF Resume
<1>8. CASE Resubmit
  <2>1. /\ round'.stage = "idle" /\ ~InRound /\ round'.prepared = round.prepared
        /\ round'.verdict = round.verdict /\ round'.source = round.source
        /\ round'.sample = round.sample /\ round'.fresh = round.fresh
        /\ UNCHANGED <<timer, conn, at, fault>>
    BY <1>8 DEF Resubmit, InRound, TcpInv, TypeOK, Rounds
  <2>2. QED
    BY <2>1
    DEF TcpInv, Core, PlaceInv, ConnInv, EventInv, RoundInv, FailureFromRound,
        SampleIsHandshake, Connected, InRound
<1>9. CASE WatchLost
  BY <1>9, DropCore DEF WatchLost
<1>10. CASE Stop
  <2>1. /\ round'.stage = "idle" /\ round'.verdict = round.verdict
        /\ round'.source = round.source /\ round'.sample = round.sample
        /\ round'.fresh = round.fresh
    BY <1>10 DEF Stop, TcpInv, TypeOK, Rounds
  <2>2. QED
    BY <1>10, <2>1, ClosedCore
    DEF Stop, Close, TcpInv, Core, FailureFromRound, SampleIsHandshake
<1>11. CASE TakenOver \/ Tick
  <2>1. /\ round'.stage = round.stage /\ round'.prepared = round.prepared
        /\ round'.verdict = round.verdict /\ round'.source = round.source
        /\ round'.sample = round.sample /\ round'.fresh = round.fresh
    BY <1>11 DEF TakenOver, Tick, Nearer, TcpInv, TypeOK, Rounds
  <2>2. /\ conn'.state = conn.state /\ conn'.idle = conn.idle
        /\ conn'.edge = conn.edge /\ conn'.ready = conn.ready
        /\ conn'.posted = conn.posted /\ conn'.wedge = conn.wedge
        /\ conn'.wready = conn.wready /\ conn'.wposted = conn.wposted
        /\ conn'.ended = conn.ended /\ conn'.used = conn.used
        /\ conn'.unread = conn.unread
    BY <1>11 DEF TakenOver, Tick, Older, TcpInv, TypeOK, Connections
  <2>3. UNCHANGED <<timer, at, fault>>
    BY <1>11 DEF TakenOver, Tick
  <2>4. QED
    BY <2>1, <2>2, <2>3
    DEF TcpInv, Core, PlaceInv, ConnInv, EventInv, RoundInv, FailureFromRound,
        SampleIsHandshake, Connected, InRound
<1>12. CASE ConnectDone
  <2>1. /\ conn.state = "connecting" /\ UNCHANGED <<round, timer, at>>
        /\ conn'.state = "open" \/ (conn'.state = "refused" /\ fault')
        /\ fault => fault'
    BY <1>12 DEF ConnectDone, TcpInv, TypeOK, Connections
  <2>2. /\ conn'.wedge /\ conn'.idle = conn.idle /\ conn'.used = conn.used
        /\ conn'.ended = conn.ended /\ conn'.unread = conn.unread
        /\ conn'.posted = conn.posted /\ conn'.ready = conn.ready
        /\ conn'.wready = conn.wready /\ conn'.wposted = conn.wposted
    BY <1>12 DEF ConnectDone, TcpInv, TypeOK, Connections
  <2>3. QED
    BY <2>1, <2>2
    DEF TcpInv, Core, PlaceInv, ConnInv, EventInv, RoundInv, FailureFromRound,
        SampleIsHandshake, Connected, InRound
<1>13. CASE PeerSends \/ PeerEnds
  <2>1. conn.state = "open" /\ UNCHANGED <<round, timer, at>> /\ ~conn.ended
    BY <1>13 DEF PeerSends, PeerEnds
  <2>2. /\ conn'.state = "open" /\ conn'.edge /\ conn'.idle = conn.idle
        /\ conn'.used = conn.used /\ conn'.posted = conn.posted
        /\ conn'.ready = conn.ready /\ conn'.wedge = conn.wedge
        /\ conn'.wready = conn.wready /\ conn'.wposted = conn.wposted
    BY <1>13, <2>1 DEF PeerSends, PeerEnds, TcpInv, TypeOK, Connections
  <2>3. fault => fault'
    BY <1>13 DEF PeerSends, PeerEnds
  <2>4. InRound /\ conn'.ended => fault'
    <3>1. CASE PeerSends
      BY <2>1, <3>1 DEF PeerSends, TcpInv, TypeOK, Connections
    <3>2. CASE PeerEnds
      BY <3>2, Zenon DEF PeerEnds
    <3>3. QED
      BY <1>13, <3>1, <3>2
  <2>5. QED
    BY <2>1, <2>2, <2>3, <2>4
    DEF TcpInv, Core, PlaceInv, ConnInv, EventInv, RoundInv, FailureFromRound,
        SampleIsHandshake, Connected, InRound
<1>14. CASE UNCHANGED vars
  BY <1>14
  DEF vars, TcpInv, Core, PlaceInv, ConnInv, EventInv, RoundInv, FailureFromRound,
      SampleIsHandshake, Connected, InRound
<1>15. QED
  BY <1>1, <1>2, <1>3, <1>4, <1>5, <1>6, <1>7, <1>8, <1>9, <1>10, <1>11, <1>12,
     <1>13, <1>14
  DEF Next, Loop, Environment

----------------------------------------------------------------------------
(***************************************************************************)
(* The theorems                                                            *)
(***************************************************************************)
LEMMA TcpInductive == Spec => []TcpInv
<1>1. Init => TcpInv
  BY InitType, InitCore DEF TcpInv
<1>2. TcpInv /\ [Next]_vars => TcpInv'
  BY NextType, NextCore DEF TcpInv
<1>3. QED
  BY <1>1, <1>2, PTL DEF Spec

\* A round, its handlers and its timeout come and go together.
THEOREM RoundStructureSafety == Spec => []RoundStructure
<1>1. TcpInv => RoundStructure
  BY DEF TcpInv, Core, PlaceInv, RoundStructure, HandlersMatchRound, TimerWhileActive
<1>2. QED
  BY <1>1, TcpInductive, PTL

\* A peek fails a round only if the peer broke the connection in that round.
THEOREM FailureFromRoundSafety == Spec => []FailureFromRound
<1>1. TcpInv => FailureFromRound
  BY DEF TcpInv, Core
<1>2. QED
  BY <1>1, TcpInductive, PTL

\* Delays are measured on connections the round made, never on reused ones.
THEOREM SampleSafety == Spec => []SampleIsHandshake
<1>1. TcpInv => SampleIsHandshake
  BY DEF TcpInv, Core
<1>2. QED
  BY <1>1, TcpInductive, PTL

\* Between handlers every event of the connection will be served.
THEOREM TcpEventSafety == Spec => []NoLostEvent
<1>1. TcpInv => NoLostEvent
  BY DEF TcpInv, TypeOK, Connections, Core, PlaceInv, ConnInv, EventInv, NoLostEvent,
         Connected, HasEvent
<1>2. QED
  BY <1>1, TcpInductive, PTL

\* Only a step of the check can decide for success, on an open connection.
THEOREM SuccessSafety == Spec => SuccessOnOpen
<1>1. ASSUME TcpInv, [Next]_vars
      PROVE  [round'.verdict = "success" /\ round.verdict # "success" =>
                 conn.state = "open"]_vars
  <2> SUFFICES ASSUME Next, round'.verdict = "success", round.verdict # "success"
               PROVE  conn.state = "open"
    BY <1>1
  <2>1. ASSUME NEW source, NEW c, Finish(FALSE, source, c)
        PROVE  FALSE
    BY <1>1, <2>1 DEF Finish, TcpInv, TypeOK, Rounds
  <2>2. ~Drop
    BY <1>1 DEF Drop, TcpInv, TypeOK, Rounds
  <2>3. ASSUME NEW c, NEW new, Prepare(c, new)
        PROVE  FALSE
    BY <1>1, <2>1, <2>3 DEF Prepare, TcpInv, TypeOK, Rounds
  <2>4. ~Start
    BY <1>1, <2>1, <2>2, <2>3
    DEF Start, StartLater, StartLost, StartLate, StartReuse, StartConnect
  <2>5. CASE Check
    <3>1. CASE CheckResult
      <4>1. at = "check" /\ (Peek(conn) \/ ~Peek(conn))
        BY <3>1 DEF CheckResult
      <4>2. CASE ~Peek(conn)
        <5>1. Peek(conn) = FALSE
          BY <4>2, Zenon DEF Peek
        <5>2. QED
          BY <2>1, <3>1, <5>1 DEF CheckResult
      <4>3. CASE Peek(conn)
        BY <1>1, <4>1, <4>3 DEF Peek, TcpInv, Core, ConnInv
      <4>4. QED
        BY <4>1, <4>2, <4>3
    <3>2. QED
      BY <2>1, <2>2, <2>5, <3>1 DEF Check, CheckLater, CheckLost, CheckLate
  <2>6. ~IdleStep
    BY DEF IdleStep, IdleRead, Discard, NothingLeft, IdleEnd, Drain
  <2>7. ~Loop
    <3>1. ~Claim
      BY DEF Claim, NewRound
    <3>2. ~Timeout /\ ~WatchLost
      BY <2>1, <2>2 DEF Timeout, WatchLost
    <3>3. ~PollRead /\ ~PollWrite /\ ~Posted /\ ~Resume
      BY DEF PollRead, PollWrite, Posted, Resume
    <3>4. ~Resubmit /\ ~Stop
      BY <1>1 DEF Resubmit, Stop, TcpInv, TypeOK, Rounds
    <3>5. QED
      BY <3>1, <3>2, <3>3, <3>4 DEF Loop
  <2>8. ~Environment
    BY <1>1 DEF Environment, TakenOver, ConnectDone, PeerSends, PeerEnds, Tick, Nearer,
                TcpInv, TypeOK, Rounds
  <2>9. QED
    BY <2>4, <2>5, <2>6, <2>7, <2>8 DEF Next
<1>2. QED
  BY <1>1, TcpInductive, PTL DEF Spec, SuccessOnOpen

\* Discarded data closes an idle connection only beyond the limit.
THEOREM DiscardSafety == Spec => DiscardLimit
<1>1. ASSUME TcpInv, [Next]_vars
      PROVE  [at = "recv" /\ conn.unread > 0 /\ conn' # conn /\ conn'.state = "none" =>
                 conn.discarded + conn.unread > DiscardMax]_vars
  <2> SUFFICES ASSUME Next, at = "recv", conn.unread > 0, conn' # conn,
                      conn'.state = "none"
               PROVE  conn.discarded + conn.unread > DiscardMax
    BY <1>1
  <2>1. conn.state = "open"
    BY <1>1 DEF TcpInv, Core, PlaceInv, ConnInv
  <2>2. CASE Discard
    <3>1. PICK n \in 1..conn.unread :
            LET total == conn.discarded + n
            IN  IF OverLimit(total)
                THEN Close /\ at' = "loop"
                ELSE /\ conn' = [conn EXCEPT !.discarded = total, !.unread = @ - n]
                     /\ UNCHANGED at
      BY <2>2 DEF Discard
    <3>2. OverLimit(conn.discarded + n)
      BY <1>1, <2>1, <3>1 DEF TcpInv, TypeOK, Connections
    <3>3. conn.discarded \in 0..DiscardMax /\ conn.unread \in 0..MaxUnread
      BY <1>1 DEF TcpInv, TypeOK, Connections
    <3>4. QED
      BY <3>2, <3>3, TcpAssumption DEF OverLimit
  <2>3. ~NothingLeft /\ ~IdleEnd /\ ~IdleRead /\ ~Drain
    BY DEF NothingLeft, IdleEnd, IdleRead, Drain
  <2>4. ~Start /\ ~Check /\ ~Loop
    BY DEF Start, StartLater, StartLost, StartLate, StartReuse, StartConnect, Starting,
           Check, CheckLater, CheckLost, CheckLate, CheckResult,
           Loop, Claim, Timeout, PollRead, PollWrite, Posted, Resume, Resubmit,
           WatchLost, Stop
  <2>5. ~Environment
    BY <1>1, <2>1 DEF Environment, TakenOver, ConnectDone, PeerSends, PeerEnds, Tick, Older,
                TcpInv, TypeOK, Connections
  <2>6. QED
    BY <2>2, <2>3, <2>4, <2>5 DEF Next, IdleStep
<1>2. QED
  BY <1>1, TcpInductive, PTL DEF Spec, DiscardLimit

=============================================================================
