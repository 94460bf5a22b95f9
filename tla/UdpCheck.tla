------------------------------ MODULE UdpCheck ------------------------------
(***************************************************************************)
(* The UDP check of one peer in one worker process: the rounds of its      *)
(* probe (protocol/ngx_healthcheck_probe.c), the send and receive handlers *)
(* with their retries and the classification of errors                     *)
(* (protocol/ngx_healthcheck_udp.c), and the socket each round makes.      *)
(*                                                                         *)
(* The handlers of a process run one at a time; a handler is one action    *)
(* per system call, so that errors and replies arrive, and time passes, in *)
(* between.  The shared state is reduced to the question whether the round *)
(* is still ours, which a busy lock or an unavailable clock leaves         *)
(* unanswered (NGX_AGAIN).                                                 *)
(***************************************************************************)
EXTENDS Integers

CONSTANTS
    CheckTimeout,  \* conf->check_timeout
    Retries        \* the 8 of the loops around interrupted calls

ASSUME UdpAssumption ==
    /\ CheckTimeout \in Nat \ {0}
    /\ Retries \in Nat \ {0}

VARIABLES round,    \* the probe and the round it works on
          timer,    \* probe->timeout.timer_set
          sock,     \* the socket of the round, with its kernel side
          at,       \* where the running handler is, or the event loop
          tries,    \* the variable retries of the loop the handler is in
          returned, \* the error a call returned, and which call it was
          sends,    \* auxiliary: datagrams sent in this round, up to two
          refused   \* auxiliary: the latest error after an attempt was a refusal

aux == <<sends, refused>>

vars == <<round, timer, sock, at, tries, returned, aux>>

Sources == {"none", "send", "SO_ERROR", "recv", "timer", "clock", "event",
            "connect", "getsockopt"}

\* left is the time to probe->deadline; mine is what probe_valid finds.
Rounds == [stage : {"idle", "active", "pending"}, prepared : BOOLEAN,
           mine : BOOLEAN, left : 0..CheckTimeout,
           attempted : BOOLEAN, sending : BOOLEAN,
           verdict : {"none", "success", "failure"}, source : Sources]

NewRound == [stage |-> "active", prepared |-> FALSE, mine |-> TRUE,
             left |-> CheckTimeout, attempted |-> FALSE, sending |-> TRUE,
             verdict |-> "none", source |-> "none"]

Errors == {"none", "refused", "resource", "other"}

(***************************************************************************)
(* An event is with the kernel (edge) until a poll marks it ready and      *)
(* calls or posts its handler, with a backend that reports a change only   *)
(* once.  The read side and the write side have one each.                  *)
(***************************************************************************)
Sockets == [open : BOOLEAN, writable : BOOLEAN, error : Errors, reply : BOOLEAN,
            edge : BOOLEAN, ready : BOOLEAN, posted : BOOLEAN,
            wedge : BOOLEAN, wready : BOOLEAN, wposted : BOOLEAN]

NewSocket == [open |-> TRUE, writable |-> TRUE, error |-> "none", reply |-> FALSE,
              edge |-> FALSE, ready |-> FALSE, posted |-> FALSE,
              wedge |-> FALSE, wready |-> TRUE, wposted |-> FALSE]

NoSocket == [NewSocket EXCEPT !.open = FALSE, !.wready = FALSE]

Handlers == {"loop", "start", "write", "send", "read", "query", "recv", "judge"}

Nothing == [error |-> "none", from |-> "none"]

Init ==
    /\ round = [NewRound EXCEPT !.stage = "idle", !.left = 0]
    /\ timer = FALSE
    /\ sock = NoSocket
    /\ at = "loop"
    /\ tries = 0
    /\ returned = Nothing
    /\ sends = 0
    /\ refused = FALSE

----------------------------------------------------------------------------
InRound == round.stage = "active"

\* The handler goes on elsewhere, or returns to the event loop.
Goto(place) == at' = place /\ tries' = 0 /\ returned' = Nothing

\* cleanup: the socket of a UDP check is never kept.
Cleanup == timer' = FALSE /\ sock' = NoSocket /\ Goto("loop")

\* The round is over without a result.
Drop == round' = [round EXCEPT !.stage = "idle"] /\ Cleanup

\* ngx_healthcheck_finish: submitted or refused at once, or pending.
Finish(success, source) ==
    /\ \E stage \in {"idle", "pending"} :
          round' = [round EXCEPT
              !.stage = stage, !.source = source,
              !.verdict = IF success THEN "success" ELSE "failure"]
    /\ Cleanup

\* What a handler tests before it acts (ngx_healthcheck_io_ready) ...
Ready == round.mine /\ round.left > 0

\* ... and what it does otherwise: nothing when it gets no answer, drop a lost
\* round, end one that is past its deadline.
NotReady ==
    \/ Goto("loop") /\ UNCHANGED <<round, timer, sock>>
    \/ ~round.mine /\ Drop
    \/ round.mine /\ round.left = 0 /\ Finish(TRUE, "timer")

----------------------------------------------------------------------------
(***************************************************************************)
(* The start of a round                                                    *)
(***************************************************************************)
Claim ==
    /\ at = "loop" /\ round.stage = "idle"
    /\ round' = NewRound
    /\ timer' = TRUE
    /\ Goto("start")
    /\ sends' = 0 /\ refused' = FALSE
    /\ UNCHANGED sock

\* After the tests, the socket is made and connected, which for UDP has a
\* result at once, and the write handler is called.  The deadline stays that
\* of the claim.
Start ==
    /\ at = "start"
    /\ \/ NotReady
       \/ /\ Ready
          /\ \/ /\ round' = [round EXCEPT !.prepared = TRUE]
                /\ sock' = NewSocket
                /\ Goto("write")
                /\ UNCHANGED timer
             \/ Finish(TRUE, "connect")
             \/ Finish(TRUE, "clock")
    /\ UNCHANGED aux

----------------------------------------------------------------------------
(***************************************************************************)
(* An error                                                                *)
(***************************************************************************)
\* A call returned an error, which took it from the socket.
Returns(error, call) ==
    /\ at' = "judge"
    /\ returned' = [error |-> error, from |-> call]
    /\ tries' = 0

\* A plausible bug: after an unconfirmed error the datagram is sent again.
KeepSending(r) == r

StopSending(r) == [r EXCEPT !.sending = FALSE]

\* udp_wait_reply: the write event goes and the read event comes, if they do.
WaitReply ==
    \/ /\ round' = StopSending(round)
       /\ Goto("loop")
       /\ UNCHANGED <<timer, sock>>
    \/ Finish(TRUE, "event")

\* The end of udp_read: nothing to read, the event is armed again, if it is.
NothingToRead ==
    \/ /\ sock' = [sock EXCEPT !.ready = FALSE]
       /\ Goto("loop")
       /\ UNCHANGED <<round, timer>>
    \/ Finish(TRUE, "event")

ReceiveNext == Goto("recv") /\ UNCHANGED <<round, timer, sock>>

\* The round goes on where the unconfirmed error came up.
Unconfirmed ==
    \/ returned.from = "send" /\ WaitReply
    \/ returned.from = "SO_ERROR" /\ ReceiveNext
    \/ returned.from = "recv" /\ NothingToRead

\* A plausible bug: the deadline is not looked at again.
InTime == TRUE

BeforeDeadline == round.left > 0

\* Only a refusal after something was sent is a failure.
Confirmed == round.attempted /\ returned.error = "refused"

\* udp_error
Judge ==
    /\ at = "judge"
    /\ \/ Finish(TRUE, "clock")
       \/ ~BeforeDeadline /\ Finish(TRUE, "timer")
       \/ BeforeDeadline /\ Confirmed /\ Finish(FALSE, returned.from)
       \/ /\ BeforeDeadline /\ returned.error = "resource"
          /\ Finish(TRUE, returned.from)
       \/ /\ BeforeDeadline /\ ~Confirmed /\ returned.error # "resource"
          /\ Unconfirmed
    /\ UNCHANGED aux

----------------------------------------------------------------------------
(***************************************************************************)
(* Interrupted calls                                                       *)
(***************************************************************************)
ForgetRead(s) == [s EXCEPT !.ready = FALSE]

LastTry == tries + 1 = Retries

PostRead(s) == [s EXCEPT !.posted = TRUE]

PostWrite(s) == [s EXCEPT !.wposted = TRUE]

\* An interrupted call is tried again after the tests of a handler; the last
\* try posts the event for the next turn of the event loop.
Interrupted(posted) ==
    \/ NotReady
    \/ /\ Ready
       /\ IF LastTry
          THEN sock' = posted /\ Goto("loop")
          ELSE tries' = tries + 1 /\ UNCHANGED <<sock, at, returned>>
       /\ UNCHANGED <<round, timer>>

----------------------------------------------------------------------------
(***************************************************************************)
(* Sending                                                                 *)
(***************************************************************************)
\* An attempt counts also when it fails.
Write ==
    /\ at = "write"
    /\ \/ NotReady
       \/ /\ Ready /\ round.sending
          /\ round' = [round EXCEPT !.attempted = TRUE]
          /\ Goto("send")
          /\ UNCHANGED <<timer, sock>>
       \/ /\ Ready /\ ~round.sending
          /\ Goto("loop")
          /\ UNCHANGED <<round, timer, sock>>
    /\ UNCHANGED aux

SendDatagram ==
    /\ at = "send"
    /\ WaitReply
    /\ sends' = IF sends < 2 THEN sends + 1 ELSE sends
    /\ UNCHANGED refused

SendPart ==
    /\ at = "send"
    /\ Finish(TRUE, "send")
    /\ UNCHANGED aux

\* send returns the error of the socket, or one of this host.
SendError ==
    /\ at = "send"
    /\ \/ /\ sock.error # "none"
          /\ Returns(sock.error, "send")
          /\ sock' = [sock EXCEPT !.error = "none"]
       \/ /\ \E error \in {"resource", "other"} : Returns(error, "send")
          /\ UNCHANGED sock
    /\ UNCHANGED <<round, timer, aux>>

SendInterrupted == at = "send" /\ Interrupted(PostWrite(sock)) /\ UNCHANGED aux

\* send would block: the kernel will tell when it no longer does.
SendBlocked ==
    /\ at = "send"
    /\ \/ /\ sock' = [sock EXCEPT !.wready = FALSE, !.writable = FALSE]
          /\ Goto("loop")
          /\ UNCHANGED <<round, timer>>
       \/ Finish(TRUE, "event")
    /\ UNCHANGED aux

----------------------------------------------------------------------------
(***************************************************************************)
(* Receiving                                                               *)
(***************************************************************************)
Read ==
    /\ at = "read"
    /\ \/ NotReady
       \/ Ready /\ Goto("query") /\ UNCHANGED <<round, timer, sock>>
    /\ UNCHANGED aux

\* A plausible bug: the error the query took from the socket is not used.
Ignored(error) == Goto("recv")

Queried(error) ==
    IF error = "none" THEN Goto("recv") ELSE Returns(error, "SO_ERROR")

\* getsockopt takes the error from the socket, or fails.
Query ==
    /\ at = "query"
    /\ \/ /\ Queried(sock.error)
          /\ sock' = [sock EXCEPT !.error = "none"]
          /\ UNCHANGED <<round, timer>>
       \/ Finish(TRUE, "getsockopt")
    /\ UNCHANGED aux

QueryInterrupted == at = "query" /\ Interrupted(PostRead(sock)) /\ UNCHANGED aux

\* recv returns an error of the socket before it returns a datagram.
Receive ==
    /\ at = "recv"
    /\ \/ /\ sock.error # "none"
          /\ Returns(sock.error, "recv")
          /\ sock' = [sock EXCEPT !.error = "none"]
          /\ UNCHANGED <<round, timer>>
       \/ sock.error = "none" /\ sock.reply /\ Finish(TRUE, "recv")
       \/ sock.error = "none" /\ ~sock.reply /\ NothingToRead
    /\ UNCHANGED aux

ReceiveInterrupted == at = "recv" /\ Interrupted(PostRead(sock)) /\ UNCHANGED aux

----------------------------------------------------------------------------
(***************************************************************************)
(* The event loop                                                          *)
(***************************************************************************)
Polled == [sock EXCEPT !.edge = FALSE, !.ready = TRUE]

WritePolled == [sock EXCEPT !.wedge = FALSE, !.wready = TRUE]

\* A poll calls the handler of an event, or posts it.
Poll ==
    /\ at = "loop"
    /\ \/ sock.edge /\ sock' = Polled /\ Goto("read")
       \/ sock.edge /\ sock' = PostRead(Polled) /\ Goto("loop")
       \/ sock.wedge /\ sock' = WritePolled /\ Goto("write")
       \/ sock.wedge /\ sock' = PostWrite(WritePolled) /\ Goto("loop")
    /\ UNCHANGED <<round, timer, aux>>

Posted ==
    /\ at = "loop"
    /\ \/ sock.posted /\ sock' = [sock EXCEPT !.posted = FALSE] /\ Goto("read")
       \/ sock.wposted /\ sock' = [sock EXCEPT !.wposted = FALSE] /\ Goto("write")
    /\ UNCHANGED <<round, timer, aux>>

\* The watch resumes an active round at its preparation or its handlers.
Resume ==
    /\ at = "loop" /\ InRound /\ round.mine
    /\ \/ ~round.prepared /\ Goto("start")
       \/ round.prepared /\ sock.ready /\ Goto("read")
       \/ round.prepared /\ sock.wready /\ Goto("write")
    /\ UNCHANGED <<round, timer, sock, aux>>

\* The watch submits a pending result, which may be refused by now.
Resubmit ==
    /\ at = "loop" /\ round.stage = "pending"
    /\ round' = [round EXCEPT !.stage = "idle"]
    /\ UNCHANGED <<timer, sock, at, tries, returned, aux>>

\* The watch reads that the peer belongs to another round.
WatchLost ==
    /\ at = "loop" /\ ~round.mine /\ round.stage # "idle"
    /\ Drop
    /\ UNCHANGED aux

\* A plausible bug: the timer does not end a round that is not prepared.
PreparedTimeout ==
    /\ at = "loop" /\ timer /\ InRound /\ round.prepared /\ round.left = 0
    /\ Finish(TRUE, "timer") \/ (~round.mine /\ Drop)
    /\ UNCHANGED aux

\* probe->timeout at its deadline.
Timeout ==
    /\ at = "loop" /\ timer /\ InRound /\ round.left = 0
    /\ Finish(TRUE, "timer") \/ (~round.mine /\ Drop)
    /\ UNCHANGED aux

----------------------------------------------------------------------------
(***************************************************************************)
(* The surroundings                                                        *)
(***************************************************************************)
TakenOver ==
    /\ round.mine
    /\ round' = [round EXCEPT !.mine = FALSE]
    /\ UNCHANGED <<timer, sock, at, tries, returned, aux>>

\* The kernel keeps the latest error only.
ErrorArrives ==
    /\ sock.open
    /\ \E error \in {"refused", "other"} :
          /\ sock' = [sock EXCEPT !.error = error, !.edge = TRUE]
          /\ refused' = (error = "refused" /\ round.attempted)
    /\ UNCHANGED <<round, timer, at, tries, returned, sends>>

ReplyArrives ==
    /\ sock.open /\ ~sock.reply
    /\ sock' = [sock EXCEPT !.reply = TRUE, !.edge = TRUE]
    /\ UNCHANGED <<round, timer, at, tries, returned, aux>>

Writable ==
    /\ sock.open /\ ~sock.writable
    /\ sock' = [sock EXCEPT !.writable = TRUE, !.wedge = TRUE]
    /\ UNCHANGED <<round, timer, at, tries, returned, aux>>

Tick ==
    /\ InRound /\ round.left > 0
    /\ round' = [round EXCEPT !.left = @ - 1]
    /\ UNCHANGED <<timer, sock, at, tries, returned, aux>>

Handler ==
    \/ Start \/ Judge
    \/ Write \/ SendDatagram \/ SendPart \/ SendError \/ SendInterrupted \/ SendBlocked
    \/ Read \/ Query \/ QueryInterrupted \/ Receive \/ ReceiveInterrupted

Loop == \/ Claim \/ Poll \/ Posted
        \/ Resume \/ Resubmit \/ WatchLost \/ Timeout

Environment == TakenOver \/ ErrorArrives \/ ReplyArrives \/ Writable \/ Tick

Next == Handler \/ Loop \/ Environment

Spec == Init /\ [][Next]_vars

(***************************************************************************)
(* A handler that runs goes on.  The clock runs, and a running event loop  *)
(* serves an expired timer however many events it polls in between.        *)
(***************************************************************************)
FairSpec == Spec /\ WF_vars(Handler) /\ WF_vars(Tick) /\ SF_vars(Timeout)

----------------------------------------------------------------------------
(***************************************************************************)
(* Properties                                                              *)
(***************************************************************************)
\* Every variable keeps its type; a loop counts its interrupted calls below
\* its limit.
TypeOK ==
    /\ round \in Rounds
    /\ timer \in BOOLEAN
    /\ sock \in Sockets
    /\ at \in Handlers
    /\ tries \in 0..Retries - 1
    /\ returned \in [error : Errors, from : Sources]
    /\ sends \in 0..2
    /\ refused \in BOOLEAN

\* README: "Only ECONNREFUSED, observed after a send attempt in a still-valid
\* round before its deadline, counts as failure": time passes and errors come
\* and go between the tests of a handler and the judgement of an error.
FailureConfirmed ==
    [][round'.verdict = "failure" /\ round.verdict # "failure" =>
          InRound /\ round.attempted /\ round.left > 0]_vars

\* The evidence of a refusal is not lost: asking a socket for its error clears
\* it, and handlers return early, but between handlers an active round that
\* was refused still has the error in its socket, unless a later one replaced
\* it there.
RefusalKept == at = "loop" /\ InRound /\ refused => sock.error = "refused"

\* "A successfully sent datagram is sent once per round" (README), however
\* often the write event comes back, also after errors.
SentOnce == sends <= 1

\* No event is forgotten between handlers: what arrived is still with the
\* kernel, posted, or marked ready for the watch, and so is the turn to send.
NoLostEvent ==
    at = "loop" /\ InRound /\ round.prepared =>
        /\ sock.error # "none" \/ sock.reply =>
              sock.edge \/ sock.posted \/ sock.ready
        /\ round.sending =>
              sock.wedge \/ sock.wposted \/ sock.wready \/ ~sock.writable

\* A round ends, with or without an answer.
RoundEnds == InRound ~> ~InRound

=============================================================================
