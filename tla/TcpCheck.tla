------------------------------ MODULE TcpCheck ------------------------------
(***************************************************************************)
(* The TCP check of one peer in one worker process: the rounds of its      *)
(* probe (protocol/ngx_healthcheck_probe.c, protocol/ngx_healthcheck_tcp.c *)
(* and the ends of runtime/ngx_healthcheck_schedule.c), the connection     *)
(* kept between them, and what the peer does to that connection.           *)
(*                                                                         *)
(* The handlers of a process run one at a time; a handler that calls       *)
(* another one, or reads in a loop, is several actions, and the peer acts  *)
(* in between.  The shared state is reduced to the question a handler asks *)
(* of it: is the round still ours?  A busy lock and an unavailable clock   *)
(* leave it unanswered (NGX_AGAIN), which is always possible.              *)
(***************************************************************************)
EXTENDS Integers

CONSTANTS
    CheckTimeout,    \* conf->check_timeout
    Rehandshake,     \* conf->rehandshake, 0: connections have no largest age
    KeepConnection,  \* conf->keep_connection
    DiscardMax,      \* NGX_HEALTHCHECK_IDLE_DISCARD_MAX
    MaxUnread        \* bound: bytes the peer may have on the way

ASSUME TcpAssumption ==
    /\ CheckTimeout \in Nat \ {0}
    /\ Rehandshake \in Nat
    /\ KeepConnection \in BOOLEAN
    /\ DiscardMax \in Nat
    /\ MaxUnread \in Nat

VARIABLES round,   \* the probe and the round it works on
          timer,   \* probe->timeout.timer_set
          conn,    \* probe->pc.connection, with both ends of its socket
          at,      \* the handler that runs, or the event loop
          fault    \* auxiliary: the peer broke a connection in this round

vars == <<round, timer, conn, at, fault>>

(***************************************************************************)
(* left is the time to probe->deadline, mine is what probe_valid finds     *)
(* when it can, fresh is auxiliary: this round made its connection.        *)
(***************************************************************************)
Rounds == [stage : {"idle", "active", "pending"}, prepared : BOOLEAN,
           mine : BOOLEAN, left : 0..CheckTimeout, fresh : BOOLEAN,
           verdict : {"none", "success", "failure"}, sample : BOOLEAN,
           source : {"none", "recv", "timer", "connect", "setsockopt", "clock"}]

(***************************************************************************)
(* idle tells the idle handlers from those of the check.  An event is with *)
(* the kernel (edge) until a poll marks it ready and calls the handler, or *)
(* posts it, with a backend that reports a change only once (on a backend  *)
(* that repeats it, an event comes back by itself).                        *)
(***************************************************************************)
Connections ==
    [state : {"none", "connecting", "open", "refused"}, idle : BOOLEAN,
     edge : BOOLEAN, ready : BOOLEAN, posted : BOOLEAN,
     wedge : BOOLEAN, wready : BOOLEAN, wposted : BOOLEAN,
     unread : 0..MaxUnread, ended : BOOLEAN, discarded : 0..DiscardMax,
     age : 0..Rehandshake, used : BOOLEAN]

Fresh(state) ==
    [state |-> state, idle |-> FALSE, edge |-> FALSE, ready |-> FALSE,
     posted |-> FALSE, wedge |-> FALSE, wready |-> state = "open",
     wposted |-> FALSE, unread |-> 0, ended |-> FALSE, discarded |-> 0,
     age |-> 0, used |-> FALSE]

NoConnection == Fresh("none")

Handlers == {"loop", "start", "check", "idle", "recv", "stopped"}

NewRound == [stage |-> "active", prepared |-> FALSE, mine |-> TRUE,
             left |-> CheckTimeout, fresh |-> FALSE, verdict |-> "none",
             sample |-> FALSE, source |-> "none"]

\* A worker starts with a peer of its own and no round.
Init ==
    /\ round = [NewRound EXCEPT !.stage = "idle", !.left = 0]
    /\ timer = FALSE
    /\ conn = NoConnection
    /\ at = "loop"
    /\ fault = FALSE

----------------------------------------------------------------------------
Connected == conn.state # "none"

InRound == round.stage = "active"

\* The connection is closed, with its timers and posted events.
Close == conn' = NoConnection

\* A plausible bug: an event that was already marked ready is left alone.
AwaitsEvent(c) == "loop"

\* cleanup goes on in tcp_idle when the socket is already readable.
AfterKeeping(c) == IF c.ready THEN "idle" ELSE "loop"

\* A plausible bug: the timeout of a lost round stays in the timer tree.
DropLeavesTimer ==
    /\ round' = [round EXCEPT !.stage = "idle"]
    /\ Close
    /\ at' = "loop"
    /\ UNCHANGED <<timer, fault>>

\* cleanup with nothing to reuse, outside a round from here on.
Drop ==
    /\ round' = [round EXCEPT !.stage = "idle"]
    /\ timer' = FALSE
    /\ Close
    /\ at' = "loop"
    /\ UNCHANGED fault

\* cleanup after a submitted success; the idle events may fail to register.
Keep(c) ==
    \/ /\ KeepConnection
       /\ conn' = [c EXCEPT !.idle = TRUE, !.wposted = FALSE]
       /\ at' = AfterKeeping(c)
    \/ Close /\ at' = "loop"

\* A plausible bug: a kept connection counts as a new one.
NeverUsed(c) == c

\* A success counts a request on its connection.
CountRequest(c) == [c EXCEPT !.used = TRUE]

\* ngx_healthcheck_finish: a connection is kept after a success that could be
\* submitted at once; a delay is measured on the first use of a connection if
\* the clock can be read.
Finish(success, source, c) ==
    \E clock \in BOOLEAN, submitted \in BOOLEAN :
       /\ round' = [round EXCEPT
              !.stage = IF submitted THEN "idle" ELSE "pending",
              !.verdict = IF success THEN "success" ELSE "failure",
              !.source = source,
              !.sample = success /\ c.state # "none" /\ ~c.used /\ clock]
       /\ timer' = FALSE
       /\ IF submitted /\ success /\ round.mine
          THEN Keep(CountRequest(c))
          ELSE Close /\ at' = "loop"
       /\ UNCHANGED fault

----------------------------------------------------------------------------
(***************************************************************************)
(* The start of a round                                                    *)
(***************************************************************************)
\* A claim of the worker's own peer, or a takeover (the watch closed what was
\* kept when it found the peer lost).  Queued events of a kept connection
\* belong to the last round.
Claim ==
    /\ at = "loop" /\ round.stage = "idle"
    /\ round.mine \/ ~Connected
    /\ round' = NewRound
    /\ timer' = TRUE
    /\ conn' = [conn EXCEPT !.posted = FALSE, !.wposted = FALSE]
    /\ at' = "start"
    /\ fault' = FALSE

\* probe_start cannot read its identity or the clock: the watch tries again.
StartLater ==
    /\ at = "start"
    /\ at' = "loop"
    /\ UNCHANGED <<round, timer, conn, fault>>

StartLost ==
    /\ at = "start" /\ ~round.mine
    /\ Drop

StartLate ==
    /\ at = "start" /\ round.mine /\ round.left = 0
    /\ Finish(FALSE, "timer", conn)

\* A connection that is still being made has nothing to peek at (EAGAIN).
Peek(c) == c.state = "connecting" \/ (c.state = "open" /\ (c.unread > 0 \/ ~c.ended))

TooOld(c) == Rehandshake # 0 /\ c.age >= Rehandshake

\* A plausible bug: the kept connection is trusted without a look.
AnyKept(c) == c.state # "none" /\ ~TooOld(c)

Reusable(c) == c.state # "none" /\ ~TooOld(c) /\ Peek(c)

\* The handlers of the check are set and it gets its whole timeout, if the
\* clock can be read; a connected socket is checked at once.
Prepare(c, new) ==
    \/ /\ round' = [round EXCEPT !.prepared = TRUE, !.left = CheckTimeout,
                                 !.fresh = new]
       /\ timer' = TRUE
       /\ conn' = [c EXCEPT !.idle = FALSE]
       /\ at' = IF c.state = "open" THEN "check" ELSE "loop"
       /\ UNCHANGED fault
    \/ Finish(FALSE, "clock", c)

Starting == at = "start" /\ round.mine /\ round.left > 0

StartReuse ==
    /\ Starting /\ Reusable(conn)
    /\ Prepare(conn, FALSE)

\* What was kept is too old or broken, or there is nothing: connect.
StartConnect ==
    /\ Starting /\ ~Reusable(conn)
    /\ \/ Prepare(Fresh("open"), TRUE)
       \/ Prepare(Fresh("connecting"), TRUE)
       \/ Finish(FALSE, "connect", NoConnection)
       \/ Finish(FALSE, "setsockopt", NoConnection)

----------------------------------------------------------------------------
(***************************************************************************)
(* The check                                                               *)
(***************************************************************************)
\* tcp_event when io_ready gets no answer: the event is dropped, ready stays.
CheckLater ==
    /\ at = "check"
    /\ at' = "loop"
    /\ UNCHANGED <<round, timer, conn, fault>>

CheckLost ==
    /\ at = "check" /\ ~round.mine
    /\ Drop

CheckLate ==
    /\ at = "check" /\ round.mine /\ round.left = 0
    /\ Finish(FALSE, "timer", conn)

CheckResult ==
    /\ at = "check" /\ round.mine /\ round.left > 0
    /\ Finish(Peek(conn), "recv", conn)

\* probe->timeout at its deadline; here an unanswered question goes on.
Timeout ==
    /\ at = "loop" /\ timer /\ InRound /\ round.left = 0
    /\ Finish(FALSE, "timer", conn) \/ (~round.mine /\ Drop)

----------------------------------------------------------------------------
(***************************************************************************)
(* The idle connection                                                     *)
(***************************************************************************)
\* The tests before the loop; the round may be lost without its noticing.
IdleRead ==
    /\ at = "idle"
    /\ \/ at' = "recv" /\ UNCHANGED conn
       \/ ~round.mine /\ Close /\ at' = "loop"
    /\ UNCHANGED <<round, timer, fault>>

\* A plausible bug: the limit itself is too much.
AtLimit(total) == total >= DiscardMax

OverLimit(total) == total > DiscardMax

\* recv returns data: at most one byte more than may still be discarded.
Discard ==
    /\ at = "recv" /\ conn.unread > 0
    /\ \E n \in 1..conn.unread :
          /\ n <= DiscardMax - conn.discarded + 1
          /\ LET total == conn.discarded + n
             IN  IF OverLimit(total)
                 THEN Close /\ at' = "loop"
                 ELSE /\ conn' = [conn EXCEPT !.discarded = total,
                                              !.unread = @ - n]
                      /\ UNCHANGED at
    /\ UNCHANGED <<round, timer, fault>>

\* recv returns EAGAIN; the event may fail to register again.
NothingLeft ==
    /\ at = "recv" /\ conn.unread = 0 /\ ~conn.ended
    /\ conn' = [conn EXCEPT !.ready = FALSE] \/ Close
    /\ at' = "loop"
    /\ UNCHANGED <<round, timer, fault>>

\* recv returns 0 or an error.
IdleEnd ==
    /\ at = "recv" /\ conn.unread = 0 /\ conn.ended
    /\ Close
    /\ at' = "loop"
    /\ UNCHANGED <<round, timer, fault>>

\* nginx runs out of connections and closes an idle one (connection->close).
Drain ==
    /\ at = "loop" /\ Connected /\ conn.idle
    /\ Close
    /\ UNCHANGED <<round, timer, at, fault>>

----------------------------------------------------------------------------
(***************************************************************************)
(* The event loop                                                          *)
(***************************************************************************)
\* The handler of a read event.
ReadHandler == IF conn.idle THEN "idle" ELSE "check"

\* The handler of a write event; that of an idle connection does nothing.
WriteHandler == IF conn.idle THEN "loop" ELSE "check"

PollRead ==
    /\ at = "loop" /\ conn.edge
    /\ \/ /\ conn' = [conn EXCEPT !.edge = FALSE, !.ready = TRUE]
          /\ at' = ReadHandler
       \/ /\ conn' = [conn EXCEPT !.edge = FALSE, !.ready = TRUE, !.posted = TRUE]
          /\ UNCHANGED at
    /\ UNCHANGED <<round, timer, fault>>

PollWrite ==
    /\ at = "loop" /\ conn.wedge
    /\ \/ /\ conn' = [conn EXCEPT !.wedge = FALSE, !.wready = TRUE]
          /\ at' = WriteHandler
       \/ /\ conn' = [conn EXCEPT !.wedge = FALSE, !.wready = TRUE, !.wposted = TRUE]
          /\ UNCHANGED at
    /\ UNCHANGED <<round, timer, fault>>

Posted ==
    /\ at = "loop"
    /\ \/ /\ conn.posted
          /\ conn' = [conn EXCEPT !.posted = FALSE]
          /\ at' = ReadHandler
       \/ /\ conn.wposted
          /\ conn' = [conn EXCEPT !.wposted = FALSE]
          /\ at' = WriteHandler
    /\ UNCHANGED <<round, timer, fault>>

\* A plausible bug: the handlers are called whether there is an event or not.
AnyEvent(c) == TRUE

HasEvent(c) == c.ready \/ c.wready

\* The watch resumes an active round: its preparation, or its check.
Resume ==
    /\ at = "loop" /\ InRound /\ round.mine
    /\ \/ ~round.prepared /\ at' = "start"
       \/ round.prepared /\ HasEvent(conn) /\ at' = "check"
    /\ UNCHANGED <<round, timer, conn, fault>>

\* The watch submits a pending result, which may be refused by now.
Resubmit ==
    /\ at = "loop" /\ round.stage = "pending"
    /\ round' = [round EXCEPT !.stage = "idle"]
    /\ UNCHANGED <<timer, conn, at, fault>>

\* The watch reads that the peer belongs to another round.
WatchLost ==
    /\ at = "loop" /\ ~round.mine
    /\ round.stage # "idle" \/ Connected
    /\ Drop

\* runtime_stop, from any handler's first test.
Stop ==
    /\ at = "loop"
    /\ round' = [round EXCEPT !.stage = "idle"]
    /\ timer' = FALSE
    /\ Close
    /\ at' = "stopped"
    /\ UNCHANGED fault

----------------------------------------------------------------------------
(***************************************************************************)
(* The surroundings                                                        *)
(***************************************************************************)
\* Another process takes the peer over.
TakenOver ==
    /\ at # "stopped" /\ round.mine
    /\ round' = [round EXCEPT !.mine = FALSE]
    /\ UNCHANGED <<timer, conn, at, fault>>

\* The connection is made, or the peer refuses it.
ConnectDone ==
    /\ conn.state = "connecting"
    /\ \/ conn' = [conn EXCEPT !.state = "open", !.wedge = TRUE] /\ UNCHANGED fault
       \/ /\ conn' = [conn EXCEPT !.state = "refused", !.edge = TRUE, !.wedge = TRUE]
          /\ fault' = TRUE
    /\ UNCHANGED <<round, timer, at>>

\* The peer sends some bytes.
PeerSends ==
    /\ conn.state = "open" /\ ~conn.ended
    /\ \E n \in conn.unread + 1..MaxUnread :
          conn' = [conn EXCEPT !.unread = n, !.edge = TRUE]
    /\ UNCHANGED <<round, timer, at, fault>>

\* The peer closes or resets the connection, or keepalive probes give it up.
PeerEnds ==
    /\ conn.state = "open" /\ ~conn.ended
    /\ conn' = [conn EXCEPT !.ended = TRUE, !.edge = TRUE]
    /\ fault' = (fault \/ InRound)
    /\ UNCHANGED <<round, timer, at>>

Older(c) == IF c.state # "none" /\ c.age < Rehandshake
            THEN [c EXCEPT !.age = @ + 1] ELSE c

Nearer(r) == IF r.stage = "active" /\ r.left > 0
             THEN [r EXCEPT !.left = @ - 1] ELSE r

Tick ==
    /\ at # "stopped"
    /\ conn' = Older(conn)
    /\ round' = Nearer(round)
    /\ UNCHANGED <<timer, at, fault>>

Start == StartLater \/ StartLost \/ StartLate \/ StartReuse \/ StartConnect

Check == CheckLater \/ CheckLost \/ CheckLate \/ CheckResult

IdleStep == IdleRead \/ Discard \/ NothingLeft \/ IdleEnd \/ Drain

Loop == \/ Claim \/ Timeout \/ PollRead \/ PollWrite \/ Posted
        \/ Resume \/ Resubmit \/ WatchLost \/ Stop

Environment == TakenOver \/ ConnectDone \/ PeerSends \/ PeerEnds \/ Tick

Next == Start \/ Check \/ IdleStep \/ Loop \/ Environment

Spec == Init /\ [][Next]_vars

----------------------------------------------------------------------------
(***************************************************************************)
(* Properties                                                              *)
(***************************************************************************)
\* Every variable keeps its type; the discarded bytes of a connection that is
\* still there never exceed the limit.
TypeOK ==
    /\ round \in Rounds
    /\ timer \in BOOLEAN
    /\ conn \in Connections
    /\ at \in Handlers
    /\ fault \in BOOLEAN

\* Between handlers, the handlers of the check belong to a prepared active
\* round and only to that: an event of an idle connection is never taken for
\* the answer of a round, and a prepared round always has its connection.
HandlersMatchRound ==
    at = "loop" =>
        ((InRound /\ round.prepared) <=> (Connected /\ ~conn.idle))

\* Between handlers the timeout is set exactly as long as the round is active:
\* whatever happens to its events, a round ends, and no round is ended by the
\* timer of an earlier one.
TimerWhileActive == at = "loop" => (timer <=> InRound)

\* Both at once: an active round, its handlers and its timeout come and go
\* together, whichever of the many ends of a round is taken.
RoundStructure == HandlersMatchRound /\ TimerWhileActive

\* A connection that broke while it was idle is no failure (README: "FIN, RST,
\* or keepalive timeout during idle closes the old connection, and the next
\* round reconnects"): when a peek decides that a round failed, the peer broke
\* or refused a connection during this round.
FailureFromRound ==
    round.verdict = "failure" /\ round.source = "recv" => fault

\* A delay is sampled from a connection this round made.
SampleIsHandshake == round.sample => round.fresh

\* What the peer did is never forgotten, even when a handler could not read
\* the shared state and dropped the event: the kernel or the posted queue
\* still has the event, or the watch finds it marked ready.
NoLostEvent ==
    at = "loop" /\ Connected =>
        /\ ~conn.idle /\ conn.state # "connecting" =>
              conn.edge \/ conn.wedge \/ HasEvent(conn)
        /\ conn.idle /\ (conn.unread > 0 \/ conn.ended) =>
              conn.edge \/ conn.posted \/ (InRound /\ conn.ready)

\* A success is decided on an established connection only: while a connection
\* is being made, peeking at it finds nothing wrong (EAGAIN) either.
SuccessOnOpen ==
    [][round'.verdict = "success" /\ round.verdict # "success" =>
          conn.state = "open"]_vars

\* Data that arrives on an idle connection is discarded and the connection
\* stays, up to exactly the limit (README: "More than 4KB accumulated on one
\* connection closes it").
DiscardLimit ==
    [][at = "recv" /\ conn.unread > 0 /\ conn' # conn /\ conn'.state = "none" =>
          conn.discarded + conn.unread > DiscardMax]_vars

\* README: "A broken check connection alone is not a failed health sample.  If
\* peeking fails during a round, that round reconnects and counts the new
\* connection's result."
FailureOnNewConnection ==
    round.verdict = "failure" /\ round.source = "recv" => round.fresh

=============================================================================
