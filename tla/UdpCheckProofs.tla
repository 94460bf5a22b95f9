--------------------------- MODULE UdpCheckProofs ---------------------------
(***************************************************************************)
(* The safety properties of the UDP check, for every timeout and every     *)
(* number of tries.  The inductive invariant UdpInv ties the place of the  *)
(* running handler to the round and its socket, counts the datagrams, and  *)
(* says where a refusal and an unserved event are at every instant, also   *)
(* in the middle of a handler.                                             *)
(***************************************************************************)
EXTENDS UdpCheck, TLAPS

----------------------------------------------------------------------------
(***************************************************************************)
(* Types                                                                   *)
(***************************************************************************)
\* Facts on the constants, each with the range it is about.
LEMMA Ranges ==
    /\ 0 \in 0..CheckTimeout /\ CheckTimeout \in 0..CheckTimeout
    /\ 0 \in 0..Retries - 1
    /\ \A n \in 0..CheckTimeout : n > 0 => n - 1 \in 0..CheckTimeout
  BY UdpAssumption

LEMMA InitType == Init => TypeOK
<1> SUFFICES ASSUME Init PROVE TypeOK
  OBVIOUS
<1>1. round \in Rounds
  BY Ranges DEF Init, NewRound, Rounds, Sources
<1>2. sock \in Sockets
  BY DEF Init, NoSocket, NewSocket, Sockets, Errors
<1>3. tries \in 0..Retries - 1 /\ sends \in 0..2
  BY Ranges DEF Init
<1>4. QED
  BY <1>1, <1>2, <1>3 DEF Init, TypeOK, Nothing, Handlers, Errors, Sources

\* What all the ends of a round have in common.
LEMMA FinishType ==
    ASSUME TypeOK, NEW success \in BOOLEAN, NEW source \in Sources,
           Finish(success, source) \/ Drop
    PROVE  /\ round' \in Rounds /\ round'.stage # "active"
           /\ timer' = FALSE /\ sock' = NoSocket /\ sock' \in Sockets
           /\ at' = "loop" /\ tries' = 0 /\ returned' = Nothing
<1>1. round' \in Rounds /\ round'.stage # "active"
  <2>1. CASE Drop
    BY <2>1 DEF Drop, TypeOK, Rounds
  <2>2. CASE Finish(success, source)
    <3>1. PICK stage \in {"idle", "pending"}, verdict \in {"success", "failure"} :
            round' = [round EXCEPT !.stage = stage, !.source = source,
                                   !.verdict = verdict]
      BY <2>2 DEF Finish
    <3>2. QED
      BY <3>1 DEF TypeOK, Rounds
  <2>3. QED
    BY <2>1, <2>2
<1>2. Cleanup
  BY DEF Finish, Drop
<1>3. NoSocket \in Sockets
  BY DEF NoSocket, NewSocket, Sockets, Errors
<1>4. QED
  BY <1>1, <1>2, <1>3 DEF Cleanup, Goto

\* The state without the auxiliary variables.
HandlerTypeOK ==
    /\ round \in Rounds
    /\ timer \in BOOLEAN
    /\ sock \in Sockets
    /\ at \in Handlers
    /\ tries \in 0..Retries - 1
    /\ returned \in [error : Errors, from : Sources]

LEMMA GotoType ==
    ASSUME NEW place \in Handlers, Goto(place)
    PROVE  at' \in Handlers /\ tries' \in 0..Retries - 1
           /\ returned' \in [error : Errors, from : Sources]
  BY UdpAssumption DEF Goto, Nothing, Errors, Sources

LEMMA EndType ==
    ASSUME TypeOK, NEW success \in BOOLEAN, NEW source \in Sources,
           Finish(success, source) \/ Drop
    PROVE  HandlerTypeOK'
<1>1. tries' \in 0..Retries - 1
  BY FinishType, Ranges
<1>2. returned' = Nothing /\ at' = "loop"
  BY FinishType, Zenon
<1> Nothing \in [error : Errors, from : Sources] /\ "loop" \in Handlers
  BY DEF Handlers, Nothing, Errors, Sources
<1>3. round' \in Rounds /\ sock' \in Sockets /\ timer' \in BOOLEAN
  BY FinishType
<1>4. QED
  BY <1>1, <1>2, <1>3 DEF HandlerTypeOK

LEMMA NotReadyType ==
    ASSUME TypeOK, NotReady
    PROVE  HandlerTypeOK'
<1>1. CASE Goto("loop") /\ UNCHANGED <<round, timer, sock>>
  BY <1>1, GotoType DEF TypeOK, HandlerTypeOK, Handlers
<1>2. CASE Drop \/ Finish(TRUE, "timer")
  BY <1>2, EndType DEF Sources
<1>3. QED
  BY <1>1, <1>2 DEF NotReady

LEMMA WaitReplyType ==
    ASSUME TypeOK, WaitReply
    PROVE  HandlerTypeOK'
<1>1. CASE Finish(TRUE, "event")
  BY <1>1, EndType DEF Sources
<1>2. CASE round' = StopSending(round) /\ Goto("loop") /\ UNCHANGED <<timer, sock>>
  BY <1>2, GotoType DEF TypeOK, HandlerTypeOK, Handlers, StopSending, Rounds
<1>3. QED
  BY <1>1, <1>2 DEF WaitReply

LEMMA NothingToReadType ==
    ASSUME TypeOK, NothingToRead
    PROVE  HandlerTypeOK'
<1>1. CASE Finish(TRUE, "event")
  BY <1>1, EndType DEF Sources
<1>2. CASE /\ sock' = [sock EXCEPT !.ready = FALSE]
           /\ Goto("loop") /\ UNCHANGED <<round, timer>>
  BY <1>2, GotoType DEF TypeOK, HandlerTypeOK, Handlers, Sockets
<1>3. QED
  BY <1>1, <1>2 DEF NothingToRead

LEMMA InterruptedType ==
    ASSUME TypeOK, NEW posted \in Sockets, Interrupted(posted)
    PROVE  HandlerTypeOK'
<1>1. CASE NotReady
  BY <1>1, NotReadyType
<1>2. CASE LastTry /\ sock' = posted /\ Goto("loop") /\ UNCHANGED <<round, timer>>
  BY <1>2, GotoType DEF TypeOK, HandlerTypeOK, Handlers
<1>3. CASE /\ ~LastTry /\ tries' = tries + 1
           /\ UNCHANGED <<round, timer, sock, at, returned>>
  BY <1>3, UdpAssumption DEF TypeOK, HandlerTypeOK, LastTry
<1>4. QED
  BY <1>1, <1>2, <1>3 DEF Interrupted

LEMMA NextType ==
    ASSUME TypeOK, [Next]_vars
    PROVE  TypeOK'
<1> USE DEF HandlerTypeOK
<1>1. CASE Start
  <2>1. aux' = aux
    BY <1>1 DEF Start
  <2>2. HandlerTypeOK'
    <3>1. CASE NotReady
      BY <3>1, NotReadyType
    <3>2. CASE Finish(TRUE, "connect") \/ Finish(TRUE, "clock")
      BY <3>2, EndType DEF Sources
    <3>3. CASE /\ round' = [round EXCEPT !.prepared = TRUE] /\ sock' = NewSocket
               /\ Goto("write") /\ UNCHANGED timer
      BY <3>3, GotoType DEF TypeOK, Rounds, Sockets, NewSocket, Errors, Handlers
    <3>4. QED
      BY <1>1, <3>1, <3>2, <3>3 DEF Start
  <2>3. QED
    BY <2>1, <2>2 DEF TypeOK, aux
<1>2. CASE Judge
  <2>1. aux' = aux
    BY <1>2 DEF Judge
  <2>2. returned.from \in Sources
    BY DEF TypeOK
  <2>3. HandlerTypeOK'
    <3>1. CASE Unconfirmed
      <4>1. CASE WaitReply
        BY <4>1, WaitReplyType
      <4>2. CASE NothingToRead
        BY <4>2, NothingToReadType
      <4>3. CASE ReceiveNext
        BY <4>3, GotoType DEF TypeOK, ReceiveNext, Handlers
      <4>4. QED
        BY <3>1, <4>1, <4>2, <4>3 DEF Unconfirmed
    <3>2. CASE Finish(TRUE, "clock") \/ Finish(TRUE, "timer")
      BY <3>2, EndType DEF Sources
    <3>3. CASE Finish(FALSE, returned.from) \/ Finish(TRUE, returned.from)
      BY <2>2, <3>3, EndType
    <3>4. QED
      BY <1>2, <3>1, <3>2, <3>3 DEF Judge
  <2>4. QED
    BY <2>1, <2>3 DEF TypeOK, aux
<1>3. CASE Write
  <2>1. aux' = aux
    BY <1>3 DEF Write
  <2>2. HandlerTypeOK'
    <3>1. CASE NotReady
      BY <3>1, NotReadyType
    <3>2. CASE /\ round' = [round EXCEPT !.attempted = TRUE] /\ Goto("send")
               /\ UNCHANGED <<timer, sock>>
      BY <3>2, GotoType DEF TypeOK, Rounds, Handlers
    <3>3. CASE Goto("loop") /\ UNCHANGED <<round, timer, sock>>
      BY <3>3, GotoType DEF TypeOK, Handlers
    <3>4. QED
      BY <1>3, <3>1, <3>2, <3>3 DEF Write
  <2>3. QED
    BY <2>1, <2>2 DEF TypeOK, aux
<1>4. CASE SendDatagram
  <2>1. HandlerTypeOK'
    BY <1>4, WaitReplyType DEF SendDatagram
  <2>2. sends' \in 0..2 /\ refused' \in BOOLEAN
    BY <1>4 DEF SendDatagram, TypeOK
  <2>3. QED
    BY <2>1, <2>2 DEF TypeOK
<1>5. CASE SendPart
  BY <1>5, EndType DEF SendPart, TypeOK, aux, Sources
<1>6. CASE SendError
  BY <1>6, UdpAssumption DEF SendError, Returns, TypeOK, aux, Sockets, Errors, Sources, Handlers
<1>7. CASE SendInterrupted \/ QueryInterrupted \/ ReceiveInterrupted
  <2>1. PostRead(sock) \in Sockets /\ PostWrite(sock) \in Sockets
    BY DEF TypeOK, PostRead, PostWrite, Sockets
  <2>2. QED
    BY <1>7, <2>1, InterruptedType
    DEF SendInterrupted, QueryInterrupted, ReceiveInterrupted, TypeOK, aux
<1>8. CASE SendBlocked
  <2>1. aux' = aux
    BY <1>8 DEF SendBlocked
  <2>2. CASE Finish(TRUE, "event")
    BY <2>1, <2>2, EndType DEF TypeOK, aux, Sources
  <2>3. CASE /\ sock' = [sock EXCEPT !.wready = FALSE, !.writable = FALSE]
             /\ Goto("loop") /\ UNCHANGED <<round, timer>>
    BY <2>1, <2>3, GotoType DEF TypeOK, aux, Sockets, Handlers
  <2>4. QED
    BY <1>8, <2>2, <2>3 DEF SendBlocked
<1>9. CASE Read
  <2>1. CASE NotReady
    BY <1>9, <2>1, NotReadyType DEF Read, TypeOK, aux
  <2>2. CASE Goto("query") /\ UNCHANGED <<round, timer, sock>>
    BY <1>9, <2>2, GotoType DEF Read, TypeOK, aux, Handlers
  <2>3. QED
    BY <1>9, <2>1, <2>2 DEF Read
<1>10. CASE Query
  <2>1. CASE Finish(TRUE, "getsockopt")
    BY <1>10, <2>1, EndType DEF Query, TypeOK, aux, Sources
  <2>2. CASE /\ Queried(sock.error) /\ sock' = [sock EXCEPT !.error = "none"]
             /\ UNCHANGED <<round, timer>>
    <3>1. sock' \in Sockets /\ sock.error \in Errors
      BY <2>2 DEF TypeOK, Sockets, Errors
    <3>2. /\ at' \in Handlers /\ tries' \in 0..Retries - 1
          /\ returned' \in [error : Errors, from : Sources]
      BY <2>2, <3>1, GotoType, UdpAssumption DEF Queried, Returns, Handlers, Sources
    <3>3. QED
      BY <1>10, <2>2, <3>1, <3>2 DEF Query, TypeOK, aux
  <2>3. QED
    BY <1>10, <2>1, <2>2 DEF Query
<1>11. CASE Receive
  <2>1. CASE Finish(TRUE, "recv")
    BY <1>11, <2>1, EndType DEF Receive, TypeOK, aux, Sources
  <2>2. CASE NothingToRead
    BY <1>11, <2>2, NothingToReadType DEF Receive, TypeOK, aux
  <2>3. CASE /\ Returns(sock.error, "recv") /\ sock' = [sock EXCEPT !.error = "none"]
             /\ UNCHANGED <<round, timer>>
    BY <1>11, <2>3, UdpAssumption
    DEF Receive, Returns, TypeOK, aux, Sockets, Errors, Sources, Handlers
  <2>4. QED
    BY <1>11, <2>1, <2>2, <2>3 DEF Receive
<1>12. CASE Claim
  <2>1. NewRound \in Rounds
    BY Ranges DEF NewRound, Rounds, Sources
  <2>2. HandlerTypeOK'
    BY <1>12, <2>1, GotoType DEF Claim, TypeOK, Handlers
  <2>3. sends' = 0 /\ refused' = FALSE
    BY <1>12, Zenon DEF Claim
  <2>4. sends' \in 0..2
    BY <2>3
  <2>5. refused' \in BOOLEAN
    BY <2>3, Zenon
  <2>6. QED
    BY <2>2, <2>4, <2>5 DEF TypeOK
<1>13. CASE Poll
  <2>1. sock' \in Sockets
    <3>1. Polled \in Sockets /\ WritePolled \in Sockets
      BY DEF Polled, WritePolled, TypeOK, Sockets
    <3>2. PostRead(Polled) \in Sockets /\ PostWrite(WritePolled) \in Sockets
      BY <3>1 DEF PostRead, PostWrite, Sockets
    <3>3. QED
      BY <1>13, <3>1, <3>2 DEF Poll
  <2>2. QED
    BY <1>13, <2>1, GotoType DEF Poll, TypeOK, aux, Handlers
<1>14. CASE Posted
  <2>1. sock' \in Sockets
    BY <1>14 DEF Posted, TypeOK, Sockets
  <2>2. QED
    BY <1>14, <2>1, GotoType DEF Posted, TypeOK, aux, Handlers
<1>15. CASE Resume
  BY <1>15, GotoType DEF Resume, TypeOK, aux, Handlers
<1>16. CASE Resubmit
  BY <1>16 DEF Resubmit, TypeOK, aux, Rounds
<1>17. CASE WatchLost \/ Timeout
  BY <1>17, EndType DEF WatchLost, Timeout, TypeOK, aux, Sources
<1>18. CASE TakenOver \/ Tick
  <2>1. round' \in Rounds
    <3>1. CASE TakenOver
      BY <3>1 DEF TakenOver, TypeOK, Rounds
    <3>2. CASE Tick
      <4>1. round.left \in 0..CheckTimeout /\ round.left > 0
        BY <3>2 DEF Tick, TypeOK, Rounds
      <4> DEFINE later == round.left - 1
      <4>2. later \in 0..CheckTimeout
        BY <4>1, Ranges
      <4>3. round' = [round EXCEPT !.left = later]
        BY <3>2 DEF Tick
      <4> HIDE DEF later
      <4>4. QED
        BY <4>2, <4>3 DEF TypeOK, Rounds
    <3>3. QED
      BY <1>18, <3>1, <3>2
  <2>2. QED
    BY <1>18, <2>1 DEF TakenOver, Tick, TypeOK, aux
<1>19. CASE ErrorArrives
  <2>1. sock' \in Sockets
    BY <1>19 DEF ErrorArrives, TypeOK, Sockets, Errors
  <2>2. refused' \in BOOLEAN
    <3>1. round.attempted \in BOOLEAN
      BY DEF TypeOK, Rounds
    <3>2. QED
      BY <1>19, <3>1, Zenon DEF ErrorArrives
  <2>3. QED
    BY <1>19, <2>1, <2>2 DEF ErrorArrives, TypeOK
<1>20. CASE ReplyArrives \/ Writable
  BY <1>20 DEF ReplyArrives, Writable, TypeOK, aux, Sockets
<1>21. CASE UNCHANGED vars
  BY <1>21 DEF vars, aux, TypeOK
<1>22. QED
  BY <1>1, <1>2, <1>3, <1>4, <1>5, <1>6, <1>7, <1>8, <1>9, <1>10, <1>11, <1>12,
     <1>13, <1>14, <1>15, <1>16, <1>17, <1>18, <1>19, <1>20, <1>21
  DEF Next, Handler, Loop, Environment

\* Every variable of the UDP check keeps its type, and a loop never makes more
\* tries than it may.
THEOREM UdpTypeSafety == Spec => []TypeOK
<1>1. QED
  BY InitType, NextType, PTL DEF Spec

----------------------------------------------------------------------------
(***************************************************************************)
(* The handler and its socket                                              *)
(***************************************************************************)
\* A handler runs for an active round only, and the socket is there exactly
\* while the round is prepared.
PlaceInv ==
    /\ at # "loop" => InRound
    /\ sock.open <=> InRound /\ round.prepared
    /\ ~sock.open => sock = NoSocket
    /\ at = "start" => ~round.prepared
    /\ at \notin {"loop", "start"} => round.prepared

\* The datagram is sent while round.sending lasts, which it ends.
SendInv ==
    /\ sends \in {0, 1}
    /\ InRound /\ round.sending => sends = 0
    /\ at = "send" => round.sending

\* A refusal after an attempt is in the socket, or being judged.
RefusalInv ==
    InRound /\ refused =>
        /\ round.attempted
        /\ sock.error = "refused" \/ (at = "judge" /\ returned.error = "refused")

\* What arrived is with the kernel or marked ready, also in a handler, and the
\* error that recv found came after the one SO_ERROR had taken away.
EventInv ==
    sock.open =>
        /\ sock.error # "none" \/ sock.reply => sock.edge \/ sock.ready
        /\ at = "recv" /\ sock.error # "none" => sock.edge
        /\ at = "judge" /\ returned.from = "recv" => sock.edge
        /\ at = "judge" /\ returned.from = "SO_ERROR" /\ sock.error # "none" => sock.edge
        /\ round.sending => sock.wedge \/ sock.wready \/ ~sock.writable

UdpInv == TypeOK /\ PlaceInv /\ SendInv /\ RefusalInv /\ EventInv

----------------------------------------------------------------------------
(***************************************************************************)
(* Every step keeps the invariant                                          *)
(***************************************************************************)
Core == PlaceInv /\ SendInv /\ RefusalInv /\ EventInv

LEMMA InitCore == Init => Core
  BY DEF Init, Core, PlaceInv, SendInv, RefusalInv, EventInv, InRound, NewRound,
         NoSocket, NewSocket

\* The end of a round.
LEMMA EndCore ==
    ASSUME TypeOK, NEW success \in BOOLEAN, NEW source \in Sources,
           Finish(success, source) \/ Drop, sends' \in {0, 1}
    PROVE  Core'
<1>1. round'.stage # "active" /\ sock' = NoSocket /\ at' = "loop"
  BY FinishType
<1>2. ~NoSocket.open
  BY DEF NoSocket, NewSocket
<1>3. QED
  BY <1>1, <1>2 DEF Core, PlaceInv, SendInv, RefusalInv, EventInv, InRound

\* A handler that returns without having done anything.
LEMMA ReturnCore ==
    ASSUME UdpInv, Goto("loop"), UNCHANGED <<round, sock, aux>>,
           at = "judge" => FALSE
    PROVE  Core'
  BY DEF UdpInv, Core, PlaceInv, SendInv, RefusalInv, EventInv, InRound, Goto, aux

LEMMA NotReadyCore ==
    ASSUME UdpInv, NotReady, UNCHANGED aux, at # "judge"
    PROVE  Core'
<1>1. CASE Goto("loop") /\ UNCHANGED <<round, timer, sock>>
  BY <1>1, ReturnCore
<1>2. CASE Drop \/ Finish(TRUE, "timer")
  <2>1. sends' \in {0, 1}
    BY DEF UdpInv, SendInv, aux
  <2>2. QED
    BY <1>2, <2>1, EndCore DEF UdpInv, Sources
<1>3. QED
  BY <1>1, <1>2 DEF NotReady

\* An interrupted call: the socket keeps all but a posted event.
LEMMA InterruptedCore ==
    ASSUME UdpInv, UNCHANGED aux, at \in {"send", "query", "recv"},
           Interrupted(PostRead(sock)) \/ Interrupted(PostWrite(sock))
    PROVE  Core'
<1>1. CASE NotReady
  BY <1>1, NotReadyCore
<1>2. CASE UNCHANGED <<round, sock, at, returned>>
  BY <1>2 DEF UdpInv, Core, PlaceInv, SendInv, RefusalInv, EventInv, InRound, aux
<1>3. CASE /\ sock' = PostRead(sock) \/ sock' = PostWrite(sock)
           /\ Goto("loop") /\ UNCHANGED <<round, timer>>
  <2>1. /\ sock.open /\ sock'.open
        /\ sock'.error = sock.error /\ sock'.reply = sock.reply
        /\ sock'.edge = sock.edge /\ sock'.ready = sock.ready
        /\ sock'.wedge = sock.wedge /\ sock'.wready = sock.wready
        /\ sock'.writable = sock.writable
    BY <1>3 DEF UdpInv, PlaceInv, TypeOK, Sockets, PostRead, PostWrite
  <2>2. QED
    BY <1>3, <2>1 DEF UdpInv, Core, PlaceInv, SendInv, RefusalInv, EventInv, InRound, Goto, aux
<1>4. ASSUME NEW posted, posted \in {PostRead(sock), PostWrite(sock)}, Interrupted(posted)
      PROVE  Core'
  BY <1>1, <1>2, <1>3, <1>4 DEF Interrupted
<1>5. QED
  BY <1>4

LEMMA NextCore ==
    ASSUME UdpInv, [Next]_vars
    PROVE  Core'
<1> USE DEF Core
<1>1. CASE Start
  <2>1. aux' = aux /\ at = "start"
    BY <1>1 DEF Start
  <2>2. sends' \in {0, 1}
    BY <2>1 DEF UdpInv, SendInv, aux
  <2>3. CASE NotReady
    BY <2>1, <2>3, NotReadyCore
  <2>4. CASE Finish(TRUE, "connect") \/ Finish(TRUE, "clock")
    BY <2>2, <2>4, EndCore DEF UdpInv, Sources
  <2>5. CASE /\ round' = [round EXCEPT !.prepared = TRUE] /\ sock' = NewSocket
             /\ Goto("write") /\ UNCHANGED timer
    <3>1. InRound /\ ~sock.open /\ ~refused
      <4>1. InRound /\ ~sock.open /\ sock = NoSocket
        BY <2>1 DEF UdpInv, PlaceInv
      <4>2. sock.error = "none"
        BY <4>1 DEF NoSocket, NewSocket
      <4>3. QED
        BY <2>1, <4>1, <4>2 DEF UdpInv, RefusalInv
    <3>2. /\ round'.prepared /\ round'.stage = round.stage
          /\ round'.sending = round.sending
      BY <2>5 DEF UdpInv, TypeOK, Rounds
    <3>3. /\ sock'.open /\ sock'.error = "none" /\ ~sock'.reply /\ sock'.wready
      BY <2>5 DEF NewSocket
    <3>4. QED
      BY <2>1, <2>5, <3>1, <3>2, <3>3
      DEF UdpInv, PlaceInv, SendInv, RefusalInv, EventInv, InRound, Goto, aux
  <2>6. QED
    BY <1>1, <2>3, <2>4, <2>5 DEF Start
<1>2. CASE Judge
  <2>1. aux' = aux /\ at = "judge"
    BY <1>2 DEF Judge
  <2>2. sends' \in {0, 1}
    BY <2>1 DEF UdpInv, SendInv, aux
  <2>3. CASE Finish(TRUE, "clock") \/ Finish(TRUE, "timer") \/ Finish(TRUE, "event")
    BY <2>2, <2>3, EndCore DEF UdpInv, Sources
  <2>4. CASE Finish(FALSE, returned.from) \/ Finish(TRUE, returned.from)
    <3>1. returned.from \in Sources
      BY DEF UdpInv, TypeOK
    <3>2. QED
      BY <2>2, <2>4, <3>1, EndCore DEF UdpInv
  <2>5. CASE ~Confirmed /\ Unconfirmed
    <3>1. InRound /\ round.prepared /\ sock.open
      BY <2>1 DEF UdpInv, PlaceInv
    <3>2. refused => sock.error = "refused"
      BY <2>5, <3>1 DEF UdpInv, RefusalInv, Confirmed
    <3>3. CASE /\ returned.from = "send" /\ round' = StopSending(round)
               /\ Goto("loop") /\ UNCHANGED <<timer, sock>>
      <4>1. /\ ~round'.sending /\ round'.stage = round.stage
            /\ round'.prepared = round.prepared /\ round'.attempted = round.attempted
        BY <3>3 DEF UdpInv, TypeOK, Rounds, StopSending
      <4>2. QED
        BY <2>1, <3>1, <3>2, <3>3, <4>1
        DEF UdpInv, PlaceInv, SendInv, RefusalInv, EventInv, InRound, Goto, aux
    <3>4. CASE returned.from = "SO_ERROR" /\ ReceiveNext
      BY <2>1, <3>1, <3>2, <3>4
      DEF UdpInv, PlaceInv, SendInv, RefusalInv, EventInv, InRound, ReceiveNext, Goto, aux
    <3>5. CASE /\ returned.from = "recv" /\ sock' = [sock EXCEPT !.ready = FALSE]
               /\ Goto("loop") /\ UNCHANGED <<round, timer>>
      <4>1. /\ sock'.open /\ sock'.edge /\ sock'.error = sock.error
            /\ sock'.wedge = sock.wedge /\ sock'.wready = sock.wready
            /\ sock'.writable = sock.writable
        BY <2>1, <3>1, <3>5 DEF UdpInv, EventInv, TypeOK, Sockets
      <4>2. QED
        BY <2>1, <3>1, <3>2, <3>5, <4>1
        DEF UdpInv, PlaceInv, SendInv, RefusalInv, EventInv, InRound, Goto, aux
    <3>6. QED
      BY <2>3, <2>5, <3>3, <3>4, <3>5 DEF Unconfirmed, WaitReply, NothingToRead
  <2>6. QED
    BY <1>2, <2>3, <2>4, <2>5 DEF Judge
<1>3. CASE Write
  <2>1. aux' = aux /\ at = "write"
    BY <1>3 DEF Write
  <2>2. CASE NotReady
    BY <2>1, <2>2, NotReadyCore
  <2>3. CASE Goto("loop") /\ UNCHANGED <<round, timer, sock>>
    BY <2>1, <2>3, ReturnCore
  <2>4. CASE /\ round.sending /\ round' = [round EXCEPT !.attempted = TRUE]
             /\ Goto("send") /\ UNCHANGED <<timer, sock>>
    <3>1. /\ round'.sending /\ round'.stage = round.stage
          /\ round'.prepared = round.prepared /\ round'.attempted
      BY <2>4 DEF UdpInv, TypeOK, Rounds
    <3>2. QED
      BY <2>1, <2>4, <3>1
      DEF UdpInv, PlaceInv, SendInv, RefusalInv, EventInv, InRound, Goto, aux
  <2>5. QED
    BY <1>3, <2>2, <2>3, <2>4 DEF Write
<1>4. CASE SendDatagram
  <2>1. sends = 0 /\ sends' = 1 /\ refused' = refused /\ at = "send" /\ InRound
        /\ round.prepared
    BY <1>4 DEF SendDatagram, UdpInv, PlaceInv, SendInv
  <2>2. CASE Finish(TRUE, "event")
    BY <2>1, <2>2, EndCore DEF UdpInv, Sources
  <2>3. CASE /\ round' = StopSending(round) /\ Goto("loop")
             /\ UNCHANGED <<timer, sock>>
    <3>1. /\ ~round'.sending /\ round'.stage = round.stage
          /\ round'.prepared = round.prepared /\ round'.attempted = round.attempted
      BY <2>3 DEF UdpInv, TypeOK, Rounds, StopSending
    <3>2. QED
      BY <2>1, <2>3, <3>1
      DEF UdpInv, PlaceInv, SendInv, RefusalInv, EventInv, InRound, Goto
  <2>4. QED
    BY <1>4, <2>2, <2>3 DEF SendDatagram, WaitReply
<1>5. CASE SendPart
  <2>1. sends' \in {0, 1}
    BY <1>5 DEF SendPart, UdpInv, SendInv, aux
  <2>2. QED
    BY <1>5, <2>1, EndCore DEF SendPart, UdpInv, Sources
<1>6. CASE SendError
  <2>1. /\ at = "send" /\ at' = "judge" /\ returned'.from = "send"
        /\ round' = round /\ aux' = aux
    BY <1>6 DEF SendError, Returns
  <2>2. sock.open /\ round.prepared
    BY <2>1 DEF UdpInv, PlaceInv
  <2>3. CASE sock' = sock
    BY <2>1, <2>2, <2>3
    DEF UdpInv, PlaceInv, SendInv, RefusalInv, EventInv, InRound, aux
  <2>4. CASE Returns(sock.error, "send") /\ sock' = [sock EXCEPT !.error = "none"]
    <3>1. /\ sock'.open /\ sock'.error = "none" /\ sock'.reply = sock.reply
          /\ sock'.edge = sock.edge /\ sock'.ready = sock.ready
          /\ sock'.wedge = sock.wedge /\ sock'.wready = sock.wready
          /\ sock'.writable = sock.writable /\ returned'.error = sock.error
      BY <2>2, <2>4 DEF UdpInv, TypeOK, Sockets, Returns
    <3>2. QED
      BY <2>1, <2>2, <3>1
      DEF UdpInv, PlaceInv, SendInv, RefusalInv, EventInv, InRound, aux
  <2>5. QED
    BY <1>6, <2>3, <2>4 DEF SendError
<1>7. CASE SendInterrupted \/ QueryInterrupted \/ ReceiveInterrupted
  BY <1>7, InterruptedCore DEF SendInterrupted, QueryInterrupted, ReceiveInterrupted
<1>8. CASE SendBlocked
  <2>1. aux' = aux /\ at = "send"
    BY <1>8 DEF SendBlocked
  <2>2. CASE Finish(TRUE, "event")
    <3>1. sends' \in {0, 1}
      BY <2>1 DEF UdpInv, SendInv, aux
    <3>2. QED
      BY <2>2, <3>1, EndCore DEF UdpInv, Sources
  <2>3. CASE /\ sock' = [sock EXCEPT !.wready = FALSE, !.writable = FALSE]
             /\ Goto("loop") /\ UNCHANGED <<round, timer>>
    <3>1. /\ sock'.open = sock.open /\ sock'.error = sock.error
          /\ sock'.reply = sock.reply /\ sock'.edge = sock.edge
          /\ sock'.ready = sock.ready /\ ~sock'.writable
      BY <2>3 DEF UdpInv, TypeOK, Sockets
    <3>2. QED
      BY <2>1, <2>3, <3>1
      DEF UdpInv, PlaceInv, SendInv, RefusalInv, EventInv, InRound, Goto, aux
  <2>4. QED
    BY <1>8, <2>2, <2>3 DEF SendBlocked
<1>9. CASE Read
  <2>1. aux' = aux /\ at = "read"
    BY <1>9 DEF Read
  <2>2. CASE NotReady
    BY <2>1, <2>2, NotReadyCore
  <2>3. CASE Goto("query") /\ UNCHANGED <<round, timer, sock>>
    BY <2>1, <2>3 DEF UdpInv, PlaceInv, SendInv, RefusalInv, EventInv, InRound, Goto, aux
  <2>4. QED
    BY <1>9, <2>2, <2>3 DEF Read
<1>10. CASE Query \/ Receive
  <2>1. aux' = aux /\ at \in {"query", "recv"}
    BY <1>10 DEF Query, Receive
  <2>2. sock.open /\ round.prepared /\ InRound
    BY <2>1 DEF UdpInv, PlaceInv
  <2>3. CASE Finish(TRUE, "getsockopt") \/ Finish(TRUE, "recv") \/ Finish(TRUE, "event")
    <3>1. sends' \in {0, 1}
      BY <2>1 DEF UdpInv, SendInv, aux
    <3>2. QED
      BY <2>3, <3>1, EndCore DEF UdpInv, Sources
  <2>4. CASE /\ sock' = [sock EXCEPT !.error = "none"] /\ UNCHANGED <<round, timer>>
             /\ \/ sock.error = "none" /\ at = "query" /\ Goto("recv")
                \/ at = "query" /\ Returns(sock.error, "SO_ERROR")
                \/ at = "recv" /\ sock.error # "none" /\ Returns(sock.error, "recv")
    <3>1. /\ sock'.open /\ sock'.error = "none" /\ sock'.reply = sock.reply
          /\ sock'.edge = sock.edge /\ sock'.ready = sock.ready
          /\ sock'.wedge = sock.wedge /\ sock'.wready = sock.wready
          /\ sock'.writable = sock.writable
      BY <2>2, <2>4 DEF UdpInv, TypeOK, Sockets
    <3>2. \/ at' = "recv" /\ sock.error = "none"
          \/ at' = "judge" /\ returned'.error = sock.error /\ returned'.from = "SO_ERROR"
          \/ /\ at' = "judge" /\ returned'.error = sock.error /\ sock.edge
      BY <2>2, <2>4 DEF Goto, Returns, UdpInv, EventInv
    <3>3. QED
      BY <2>1, <2>2, <2>4, <3>1, <3>2
      DEF UdpInv, PlaceInv, SendInv, RefusalInv, EventInv, InRound, aux
  <2>5. CASE /\ sock.error = "none" /\ ~sock.reply
             /\ sock' = [sock EXCEPT !.ready = FALSE]
             /\ Goto("loop") /\ UNCHANGED <<round, timer>>
    <3>1. /\ sock'.open /\ sock'.error = "none" /\ ~sock'.reply
          /\ sock'.wedge = sock.wedge /\ sock'.wready = sock.wready
          /\ sock'.writable = sock.writable
      BY <2>2, <2>5 DEF UdpInv, TypeOK, Sockets
    <3>2. QED
      BY <2>1, <2>2, <2>5, <3>1
      DEF UdpInv, PlaceInv, SendInv, RefusalInv, EventInv, InRound, Goto, aux
  <2>6. QED
    BY <1>10, <2>3, <2>4, <2>5 DEF Query, Queried, Receive, NothingToRead
<1>11. CASE Claim
  <2>1. /\ at' = "start" /\ sends' = 0 /\ ~refused' /\ sock' = sock
        /\ round'.stage = "active" /\ ~round'.prepared
    BY <1>11 DEF Claim, Goto, NewRound
  <2>2. ~sock.open
    BY <1>11 DEF Claim, UdpInv, PlaceInv, InRound
  <2>3. QED
    BY <2>1, <2>2 DEF UdpInv, PlaceInv, SendInv, RefusalInv, EventInv, InRound
<1>12. CASE Poll \/ Posted
  <2>1. aux' = aux /\ at = "loop" /\ round' = round
    BY <1>12 DEF Poll, Posted
  <2>2. sock.open
    BY <1>12 DEF Poll, Posted, UdpInv, PlaceInv, NoSocket, NewSocket
  <2>3. /\ sock'.open /\ sock'.error = sock.error /\ sock'.reply = sock.reply
        /\ sock.edge \/ sock.ready => sock'.edge \/ sock'.ready
        /\ sock.wedge \/ sock.wready => sock'.wedge \/ sock'.wready
        /\ sock'.writable = sock.writable
    BY <1>12, <2>2 DEF Poll, Posted, Polled, WritePolled, PostRead, PostWrite,
                       UdpInv, TypeOK, Sockets
  <2>4. at' \in {"loop", "read", "write"}
    BY <1>12 DEF Poll, Posted, Goto
  <2>5. QED
    BY <2>1, <2>2, <2>3, <2>4
    DEF UdpInv, PlaceInv, SendInv, RefusalInv, EventInv, InRound, aux
<1>13. CASE Resume
  BY <1>13 DEF Resume, Goto, UdpInv, PlaceInv, SendInv, RefusalInv, EventInv, InRound, aux
<1>14. CASE Resubmit
  <2>1. round'.stage = "idle" /\ ~InRound /\ sock' = sock /\ at' = at /\ at = "loop"
        /\ sends' = sends
    BY <1>14 DEF Resubmit, UdpInv, TypeOK, Rounds, InRound, aux
  <2>2. QED
    BY <2>1 DEF UdpInv, PlaceInv, SendInv, RefusalInv, EventInv, InRound
<1>15. CASE WatchLost \/ Timeout
  <2>1. sends' \in {0, 1}
    BY <1>15 DEF WatchLost, Timeout, UdpInv, SendInv, aux
  <2>2. QED
    BY <1>15, <2>1, EndCore DEF WatchLost, Timeout, UdpInv, Sources
<1>16. CASE TakenOver \/ Tick
  <2>1. /\ round'.stage = round.stage /\ round'.prepared = round.prepared
        /\ round'.sending = round.sending /\ round'.attempted = round.attempted
    BY <1>16 DEF TakenOver, Tick, UdpInv, TypeOK, Rounds
  <2>2. UNCHANGED <<sock, at, returned, sends, refused>>
    BY <1>16 DEF TakenOver, Tick, aux
  <2>3. QED
    BY <2>1, <2>2 DEF UdpInv, PlaceInv, SendInv, RefusalInv, EventInv, InRound
<1>17. CASE ErrorArrives
  <2>1. UNCHANGED <<round, at, returned, sends>> /\ sock.open
    BY <1>17 DEF ErrorArrives
  <2>2. PICK error \in {"refused", "other"} :
            /\ sock' = [sock EXCEPT !.error = error, !.edge = TRUE]
            /\ refused' = (error = "refused" /\ round.attempted)
    BY <1>17 DEF ErrorArrives
  <2>3. /\ sock'.open /\ sock'.error = error /\ sock'.edge
        /\ sock'.wedge = sock.wedge /\ sock'.wready = sock.wready
        /\ sock'.writable = sock.writable
    BY <2>1, <2>2 DEF UdpInv, TypeOK, Sockets
  <2>4. refused' => error = "refused" /\ round.attempted
    BY <2>2, Zenon
  <2>5. QED
    BY <2>1, <2>3, <2>4 DEF UdpInv, PlaceInv, SendInv, RefusalInv, EventInv, InRound
<1>18. CASE ReplyArrives \/ Writable
  <2>1. UNCHANGED <<round, at, returned, sends, refused>> /\ sock.open
    BY <1>18 DEF ReplyArrives, Writable, aux
  <2>2. /\ sock'.open /\ sock'.error = sock.error
        /\ sock.edge => sock'.edge
        /\ sock'.edge \/ (sock'.edge = sock.edge /\ sock'.reply = sock.reply)
        /\ sock'.ready = sock.ready /\ sock'.wready = sock.wready
        /\ sock'.wedge \/ (sock'.wedge = sock.wedge /\ sock'.writable = sock.writable)
    BY <1>18, <2>1 DEF ReplyArrives, Writable, UdpInv, TypeOK, Sockets
  <2>3. QED
    BY <2>1, <2>2 DEF UdpInv, PlaceInv, SendInv, RefusalInv, EventInv, InRound
<1>19. CASE UNCHANGED vars
  BY <1>19 DEF vars, aux, UdpInv, PlaceInv, SendInv, RefusalInv, EventInv, InRound
<1>20. QED
  BY <1>1, <1>2, <1>3, <1>4, <1>5, <1>6, <1>7, <1>8, <1>9, <1>10, <1>11, <1>12,
     <1>13, <1>14, <1>15, <1>16, <1>17, <1>18, <1>19
  DEF Next, Handler, Loop, Environment

----------------------------------------------------------------------------
(***************************************************************************)
(* The theorems                                                            *)
(***************************************************************************)
LEMMA UdpInductive == Spec => []UdpInv
<1>1. Init => UdpInv
  BY InitType, InitCore DEF UdpInv, Core
<1>2. UdpInv /\ [Next]_vars => UdpInv'
  BY NextType, NextCore DEF UdpInv, Core
<1>3. QED
  BY <1>1, <1>2, PTL DEF Spec

\* However sending is interrupted, blocked, resumed or judged, no round sends
\* its datagram twice.
THEOREM SentOnceSafety == Spec => []SentOnce
<1>1. UdpInv => SentOnce
  BY DEF UdpInv, SendInv, SentOnce
<1>2. QED
  BY <1>1, UdpInductive, PTL

\* Between handlers a refusal of an attempt is still in the socket.
THEOREM RefusalSafety == Spec => []RefusalKept
<1>1. UdpInv => RefusalKept
  BY DEF UdpInv, RefusalInv, RefusalKept
<1>2. QED
  BY <1>1, UdpInductive, PTL

\* Between handlers every event of the socket will be served.
THEOREM EventSafety == Spec => []NoLostEvent
<1>1. UdpInv => NoLostEvent
  BY DEF UdpInv, PlaceInv, EventInv, NoLostEvent
<1>2. QED
  BY <1>1, UdpInductive, PTL

\* A round fails only where an error is judged, in time and after an attempt.
THEOREM FailureSafety == Spec => FailureConfirmed
<1>1. ASSUME UdpInv, [Next]_vars
      PROVE  [round'.verdict = "failure" /\ round.verdict # "failure" =>
                 InRound /\ round.attempted /\ round.left > 0]_vars
  <2> SUFFICES ASSUME Next, round'.verdict = "failure", round.verdict # "failure"
               PROVE  InRound /\ round.attempted /\ round.left > 0
    BY <1>1
  <2>1. ASSUME NEW source \in Sources, Finish(TRUE, source) \/ Drop
        PROVE  FALSE
    BY <1>1, <2>1 DEF Finish, Drop, UdpInv, TypeOK, Rounds
  <2>2. ~NotReady
    BY <2>1, <1>1 DEF NotReady, Goto, Sources
  <2>3. ~WaitReply /\ ~NothingToRead
    BY <2>1, <1>1 DEF WaitReply, NothingToRead, StopSending, Sources, UdpInv, TypeOK, Rounds
  <2>4. CASE Judge
    <3>1. CASE BeforeDeadline /\ Confirmed
      BY <1>1, <2>4, <3>1 DEF Judge, BeforeDeadline, Confirmed, UdpInv, PlaceInv
    <3>2. CASE Unconfirmed
      BY <2>3, <3>2 DEF Unconfirmed, ReceiveNext
    <3>3. returned.from \in Sources
      BY <1>1 DEF UdpInv, TypeOK
    <3>4. QED
      BY <2>1, <2>4, <3>1, <3>2, <3>3 DEF Judge, Sources
  <2>5. CASE Handler /\ ~Judge
    <3>1. CASE Start
      BY <1>1, <2>1, <2>2, <3>1 DEF Start, Sources, UdpInv, TypeOK, Rounds
    <3>2. CASE Write
      BY <1>1, <2>2, <3>2 DEF Write, UdpInv, TypeOK, Rounds
    <3>3. CASE SendDatagram \/ SendPart \/ SendError \/ SendBlocked
      BY <2>1, <2>3, <3>3 DEF SendDatagram, SendPart, SendError, SendBlocked, Sources
    <3>4. CASE SendInterrupted \/ QueryInterrupted \/ ReceiveInterrupted
      BY <2>2, <3>4 DEF SendInterrupted, QueryInterrupted, ReceiveInterrupted, Interrupted
    <3>5. CASE Read \/ Query \/ Receive
      BY <2>1, <2>2, <2>3, <3>5 DEF Read, Query, Receive, Sources
    <3>6. QED
      BY <2>5, <3>1, <3>2, <3>3, <3>4, <3>5 DEF Handler
  <2>6. CASE Loop
    <3>1. CASE Claim
      BY <3>1 DEF Claim, NewRound
    <3>2. CASE Poll \/ Posted \/ Resume
      BY <3>2 DEF Poll, Posted, Resume
    <3>3. CASE Resubmit
      BY <1>1, <3>3 DEF Resubmit, UdpInv, TypeOK, Rounds
    <3>4. CASE WatchLost \/ Timeout
      BY <2>1, <3>4 DEF WatchLost, Timeout, Sources
    <3>5. QED
      BY <2>6, <3>1, <3>2, <3>3, <3>4 DEF Loop
  <2>7. CASE Environment
    BY <1>1, <2>7 DEF Environment, TakenOver, ErrorArrives, ReplyArrives, Writable, Tick,
                      UdpInv, TypeOK, Rounds
  <2>8. QED
    BY <2>4, <2>5, <2>6, <2>7 DEF Next
<1>2. QED
  BY <1>1, UdpInductive, PTL DEF Spec, FailureConfirmed

=============================================================================
