----------------------------- MODULE Schedule -----------------------------
(***************************************************************************)
(* Scheduling and result submission (runtime/ngx_healthcheck_schedule.c    *)
(* with the round's progress in protocol/ngx_healthcheck_probe.c), for one *)
(* module and one configuration cycle.                                     *)
(*                                                                         *)
(* Worker processes share the registration table and one state per peer.   *)
(* Each process has a check timer and a probe per peer, a periodic watch   *)
(* that takes over rounds whose owner stalled, and handlers that run one   *)
(* at a time.  An action is one critical section (the caller's             *)
(* registration lock, then the peer lock) with the local updates before    *)
(* and after it; what other processes can do between two critical sections *)
(* of a handler is an interleaving of actions.  A lock that cannot be      *)
(* taken within its budget (NGX_AGAIN) is always a possible outcome.       *)
(*                                                                         *)
(* Time is in units of milliseconds.  A timer that fires early or late is  *)
(* covered: every handler compares the clock with its deadline again.  A   *)
(* handler works with a reading of the clock, which may be old by the time *)
(* its critical section takes effect.                                      *)
(***************************************************************************)
EXTENDS Integers, FiniteSets

CONSTANTS
    NumWorkers, NumPeers,
    Pids, NoPid,
    CheckInterval,  \* conf->check_interval
    CheckTimeout,   \* conf->check_timeout
    Grace,          \* runtime->grace
    Floor,          \* the 1000 of ngx_max(check_interval, 1000)
    RiseCount,      \* conf->rise_count
    FallCount,      \* conf->fall_count
    MaxCount,       \* the largest ngx_uint_t
    MaxInstance,    \* UINT64_MAX of a registration's instance
    MaxTerm,        \* UINT64_MAX of a peer's term
    MaxRound,       \* UINT64_MAX of a peer's round
    Udp,            \* the peers checked over UDP
    Lag,            \* bound: how old a reading of the clock may be
    MaxInherited,   \* bound: the largest counter a peer inherits
    MaxTime,        \* bound: the clock stops here
    LastClaim       \* bound: no round starts later

Workers == 0..(NumWorkers - 1)
Peers == 0..(NumPeers - 1)

ASSUME ScheduleAssumption ==
    /\ NumWorkers \in Nat \ {0} /\ NumPeers \in Nat
    /\ NoPid \notin Pids
    /\ CheckInterval \in Nat /\ CheckTimeout \in Nat
    /\ 0 < CheckTimeout /\ CheckTimeout < CheckInterval
    /\ Grace \in Nat /\ Floor \in Nat
    /\ RiseCount \in Nat /\ FallCount \in Nat /\ MaxCount \in Nat
    /\ 0 < RiseCount /\ RiseCount <= MaxCount
    /\ 0 < FallCount /\ FallCount <= MaxCount
    /\ MaxInstance \in Nat /\ MaxTerm \in Nat /\ MaxRound \in Nat
    /\ Udp \subseteq Peers
    /\ Lag \in Nat
    /\ MaxInherited \in 0..MaxCount
    /\ MaxTime \in Nat /\ LastClaim \in Nat

VARIABLES now,          \* the monotonic clock
          activatedAt,  \* peers_shm->activated_at, or Never
          reg,          \* the registration of each worker number
          shm,          \* the published state of each peer
          proc,         \* the process of each worker number
          probe,        \* peer->probe in each process
          armed,        \* peer->check_ev.timer_set in each process
          watch         \* the state the watch of each process is about to take
                        \* over from, as a set of at most one

vars == <<now, activatedAt, reg, shm, proc, probe, armed, watch>>

Never == -1

Larger(a, b) == IF a >= b THEN a ELSE b

(***************************************************************************)
(* The process of a worker number: its pid, the instance it registered     *)
(* (0: not registered), whether nginx told it to quit, and whether         *)
(* runtime_stop has cleaned up.                                            *)
(***************************************************************************)
Procs == [pid : Pids \union {NoPid}, instance : 0..MaxInstance,
          quit : BOOLEAN, stopped : BOOLEAN]

NoProcess == [pid |-> NoPid, instance |-> 0, quit |-> FALSE, stopped |-> FALSE]

Registrations == [pid : Pids \union {NoPid}, instance : 0..MaxInstance,
                  exiting : BOOLEAN]

Phases == {"INITIAL", "WAITING", "PREPARING", "INFLIGHT"}

PeerStates ==
    [down : BOOLEAN, rise : 0..MaxCount, fall : 0..MaxCount,
     started : Nat, owner : Pids \union {NoPid}, worker : Workers,
     instance : 0..MaxInstance, term : 0..MaxTerm, round : 0..MaxRound,
     deadline : Nat, phase : Phases]

(***************************************************************************)
(* A probe is idle, or active and preparing its socket, or active and      *)
(* waiting for I/O, or pending: its result could not be submitted yet.     *)
(* The identity of its round stays when it becomes idle; the other fields  *)
(* are not read again and are reset.                                       *)
(***************************************************************************)
Stages == {"idle", "prepare", "io", "pending"}

Probes == [stage : Stages, result : BOOLEAN, published : BOOLEAN,
           instance : 0..MaxInstance, term : 0..MaxTerm, round : 0..MaxRound,
           deadline : Nat]

NoProbe == [stage |-> "idle", result |-> FALSE, published |-> FALSE,
            instance |-> 0, term |-> 0, round |-> 0, deadline |-> 0]

Idle(pr) == [pr EXCEPT !.stage = "idle", !.result = FALSE,
                       !.published = FALSE, !.deadline = 0]

Active(pr) == pr.stage \in {"prepare", "io"}

Running(s) == s.phase \in {"PREPARING", "INFLIGHT"}

\* The peers whose check timer a new process starts.
Home(p) == p % NumWorkers

(***************************************************************************)
(* The zone right after init_zone: every peer waits for its first round of *)
(* this cycle, and inherits the health of the previous cycle's peer with   *)
(* the start of its last round (0: it never had one).                      *)
(***************************************************************************)
InitialState(p, down, rise, fall, started) ==
    [down |-> down, rise |-> rise, fall |-> fall, started |-> started,
     owner |-> NoPid, worker |-> Home(p), instance |-> 0, term |-> 0,
     round |-> 0, deadline |-> 0, phase |-> "INITIAL"]

\* Bound: the clock starts at 1, the start of a round inherited just now.
StartTime == 1

Init ==
    /\ now = StartTime
    /\ activatedAt = Never
    /\ reg = [w \in Workers |->
                [pid |-> NoPid, instance |-> 0, exiting |-> FALSE]]
    /\ \E down \in BOOLEAN, rise, fall \in 0..MaxInherited, started \in 0..StartTime :
          /\ rise = 0 \/ fall = 0
          /\ shm = [p \in Peers |-> InitialState(p, down, rise, fall, started)]
    /\ proc = [w \in Workers |-> NoProcess]
    /\ probe = [w \in Workers |-> [p \in Peers |-> NoProbe]]
    /\ armed = [w \in Workers |-> [p \in Peers |-> FALSE]]
    /\ watch = [w \in Workers |-> {}]

----------------------------------------------------------------------------
(***************************************************************************)
(* Conditions the handlers test.                                           *)
(***************************************************************************)
Alive(w) == proc[w].pid # NoPid

\* No handler but the watch runs between the watch's read and its claim.
Handling(w) == Alive(w) /\ ~proc[w].stopped /\ watch[w] = {}

Registered(w) == proc[w].instance # 0

\* What ngx_healthcheck_now may have answered to a handler.
Readings == {t \in 1..now : now <= t + Lag}

\* The handler's reading may have been before the deadline.
NotDue(deadline) == now < deadline + Lag

\* The registration of worker w still belongs to the calling process.
RegistrationOwn(w, instance) ==
    /\ reg[w].instance = instance
    /\ reg[w].pid = proc[w].pid
    /\ ~reg[w].exiting

\* The shared state still names the probe's round.
SameRound(w, s, pr) ==
    /\ s.worker = w
    /\ s.instance = pr.instance
    /\ s.term = pr.term
    /\ s.round = pr.round

\* A plausible bug: a result is let through on the registration alone.
RegisteredOnly(w, p) ==
    ~proc[w].quit /\ RegistrationOwn(w, probe[w][p].instance)

\* owned_lock succeeds; where it does not hold, the answer is NGX_DECLINED.
Owned(w, p) ==
    /\ ~proc[w].quit
    /\ RegistrationOwn(w, probe[w][p].instance)
    /\ SameRound(w, shm[p], probe[w][p])
    /\ shm[p].owner = proc[w].pid

\* The peer belongs to this very process of worker w.
Own(w, s) == s.worker = w /\ s.instance = proc[w].instance

\* ngx_healthcheck_deadline: the first wait is anchored at the activation.
Deadline(s) ==
    IF s.phase # "INITIAL" THEN s.deadline
    ELSE activatedAt + Larger(CheckInterval, Floor)
                     + Larger(CheckInterval \div 2, 1)

----------------------------------------------------------------------------
(***************************************************************************)
(* Registration                                                            *)
(***************************************************************************)
Activate ==
    IF activatedAt = Never THEN activatedAt' \in Readings
                           ELSE UNCHANGED activatedAt

\* A plausible bug: the limit of the instance is not tested.
AlwaysLeft(w) == TRUE

InstanceLeft(w) == reg[w].instance < MaxInstance

\* The process gets the next instance of its worker number, unless there is
\* none left.
Join(w, pid) ==
    /\ Activate
    /\ InstanceLeft(w)
    /\ reg' = [reg EXCEPT ![w] = [pid |-> pid, instance |-> reg[w].instance + 1,
                                  exiting |-> FALSE]]
    /\ proc' = [proc EXCEPT ![w] =
            [@ EXCEPT !.pid = pid, !.instance = reg[w].instance + 1]]

\* The registration lock or the activation lock is busy, or the instances are
\* exhausted: the process stays unregistered.
JoinLater(w, pid) ==
    /\ Activate \/ UNCHANGED activatedAt
    /\ proc' = [proc EXCEPT ![w].pid = pid]
    /\ UNCHANGED reg

\* init_process of a worker: runtime_init registers and, if that succeeded,
\* starts the check timers of the worker's home peers.
StartProcess(w) ==
    /\ ~Alive(w)
    /\ \E pid \in Pids \ {proc[v].pid : v \in Workers} :
          \/ /\ Join(w, pid)
             /\ armed' = [armed EXCEPT ![w] = [p \in Peers |-> Home(p) = w]]
          \/ JoinLater(w, pid) /\ UNCHANGED armed
    /\ UNCHANGED <<now, shm, probe, watch>>

\* The watch of an unregistered process registers it, and starts no timer.
WatchRegister(w) ==
    /\ Handling(w) /\ ~proc[w].quit /\ ~Registered(w)
    /\ Join(w, proc[w].pid) \/ JoinLater(w, proc[w].pid)
    /\ UNCHANGED <<now, shm, probe, armed, watch>>

----------------------------------------------------------------------------
(***************************************************************************)
(* Starting a round                                                        *)
(***************************************************************************)
\* The counters of the peer's identity can still grow (claim's NGX_ERROR).
CountersLeft(w, s) == s.round < MaxRound /\ (Own(w, s) \/ s.term < MaxTerm)

\* A plausible bug: a takeover does not start the check timer.
ArmedAtHome(w, p) == [armed EXCEPT ![w][p] = Home(p) = w]

Armed(w, p) == [armed EXCEPT ![w][p] = TRUE]

\* Past its tests, claim publishes the new round and ties the probe to it.
Claim(w, p, at) ==
    LET s == shm[p]
        taken == [s EXCEPT
            !.term = IF Own(w, s) THEN s.term ELSE s.term + 1,
            !.worker = w, !.owner = proc[w].pid, !.instance = proc[w].instance,
            !.round = s.round + 1, !.started = at, !.phase = "PREPARING",
            !.deadline = at + CheckTimeout]
    IN  /\ now <= LastClaim
        /\ CountersLeft(w, s)
        /\ shm' = [shm EXCEPT ![p] = taken]
        /\ probe' = [probe EXCEPT ![w][p] =
                [stage |-> "prepare", result |-> FALSE, published |-> FALSE,
                 instance |-> taken.instance, term |-> taken.term,
                 round |-> taken.round, deadline |-> taken.deadline]]
        /\ armed' = Armed(w, p)

\* A regular claim is for a peer that no other process has made its own.
Entitled(w, p) ==
    /\ RegistrationOwn(w, proc[w].instance)
    /\ shm[p].worker = w
    /\ shm[p].instance \in {0, proc[w].instance}

\* The check timer fires (ngx_healthcheck_begin).  It is set again after a
\* busy probe, an unfinished or early round, NGX_AGAIN and exhausted counters.
Begin(w, p) ==
    /\ Handling(w) /\ ~proc[w].quit
    /\ armed[w][p]
    /\ probe[w][p].stage = "idle"
    /\ Entitled(w, p)
    /\ ~Running(shm[p])
    /\ \E at \in Readings :
          /\ shm[p].started = 0 \/ at >= shm[p].started + CheckInterval
          /\ Claim(w, p, at)
    /\ UNCHANGED <<now, activatedAt, reg, proc, watch>>

\* The check timer fires for a peer of another process: NGX_DECLINED.
BeginDeclined(w, p) ==
    /\ Handling(w) /\ ~proc[w].quit
    /\ armed[w][p]
    /\ probe[w][p].stage = "idle"
    /\ ~Entitled(w, p)
    /\ armed' = [armed EXCEPT ![w][p] = FALSE]
    /\ UNCHANGED <<now, activatedAt, reg, shm, proc, probe, watch>>

----------------------------------------------------------------------------
(***************************************************************************)
(* Submitting a result                                                     *)
(***************************************************************************)
\* A plausible bug: a counter at its limit starts over.
WrappedCount(count, threshold) == (count + 1) % (MaxCount + 1)

\* A counter at its limit goes on from the configured threshold.
NextCount(count, threshold) == IF count < MaxCount THEN count + 1 ELSE threshold

Counted(s, result) ==
    LET rises == NextCount(s.rise, RiseCount)
        falls == NextCount(s.fall, FallCount)
    IN  IF result
        THEN [s EXCEPT !.fall = 0, !.rise = rises,
                       !.down = @ /\ rises < RiseCount]
        ELSE [s EXCEPT !.rise = 0, !.fall = falls,
                       !.down = @ \/ falls >= FallCount]

\* ngx_healthcheck_submit with both locks taken.
Submit(w, p, result) ==
    LET due == shm[p].started + CheckInterval
    IN  /\ probe' = [probe EXCEPT ![w][p] = Idle(@)]
        /\ \/ /\ Owned(w, p) /\ Running(shm[p])
              /\ \E at \in Readings :
                    /\ shm' = [shm EXCEPT ![p] = [Counted(@, result) EXCEPT
                                  !.phase = "WAITING",
                                  !.deadline = Larger(due, at)]]
                    /\ armed' = IF at >= due THEN Armed(w, p) ELSE armed
           \/ /\ ~(Owned(w, p) /\ Running(shm[p]))
              /\ UNCHANGED <<shm, armed>>

\* A plausible bug: a result that meets a busy lock is dropped.
Dropped(pr, result) == Idle(pr)

\* The result waits for the watch.
Pending(pr, result) == [Idle(pr) EXCEPT !.stage = "pending", !.result = result]

\* ngx_healthcheck_finish: the result is fixed; when the locks are busy it
\* stays pending for the watch.
Finish(w, p, result) ==
    \/ Submit(w, p, result)
    \/ /\ probe' = [probe EXCEPT ![w][p] = Pending(@, result)]
       /\ UNCHANGED <<shm, armed>>

----------------------------------------------------------------------------
(***************************************************************************)
(* The probe of a round                                                    *)
(***************************************************************************)
\* probe_start found the round lost (probe_valid: NGX_DECLINED).
ProbeLost(w, p) ==
    /\ Handling(w)
    /\ Active(probe[w][p])
    /\ ~Owned(w, p)
    /\ probe' = [probe EXCEPT ![w][p] = Idle(@)]
    /\ UNCHANGED <<now, activatedAt, reg, shm, proc, armed, watch>>

\* A plausible bug: a UDP check gets a timeout of its own.
RestartedDeadline(w, p) == now + CheckTimeout

CheckDeadline(w, p) ==
    IF p \in Udp THEN probe[w][p].deadline ELSE now + CheckTimeout

\* The socket is ready: a TCP check gets its whole timeout from here on.  The
\* deadline of the preparation was tested before the connect.
ProbePrepared(w, p) ==
    /\ Handling(w)
    /\ probe[w][p].stage = "prepare"
    /\ Owned(w, p)
    /\ NotDue(probe[w][p].deadline)
    /\ probe' = [probe EXCEPT ![w][p] =
            [@ EXCEPT !.stage = "io", !.deadline = CheckDeadline(w, p)]]
    /\ UNCHANGED <<now, activatedAt, reg, shm, proc, armed, watch>>

\* No socket, or no keepalive option on it: TCP fails, UDP does not.
ProbeNotPrepared(w, p) ==
    /\ Handling(w)
    /\ probe[w][p].stage = "prepare"
    /\ NotDue(probe[w][p].deadline)
    /\ Finish(w, p, p \in Udp)
    /\ UNCHANGED <<now, activatedAt, reg, proc, watch>>

\* Plausible bugs: the deadline is published and the phase is not, or the
\* phase and not the deadline.
NewDeadline(s, pr) == [s EXCEPT !.deadline = pr.deadline]
NewPhase(s, pr) == [s EXCEPT !.phase = "INFLIGHT"]

InFlight(s, pr) ==
    IF s.phase = "PREPARING"
    THEN [s EXCEPT !.phase = "INFLIGHT", !.deadline = pr.deadline]
    ELSE s

\* probe_waiting publishes the actual deadline once, after the preparation or
\* in a later watch.
ProbeWaiting(w, p) ==
    /\ Handling(w)
    /\ probe[w][p].stage = "io" /\ ~probe[w][p].published
    /\ Owned(w, p)
    /\ shm' = [shm EXCEPT ![p] = InFlight(@, probe[w][p])]
    /\ probe' = [probe EXCEPT ![w][p] = [@ EXCEPT !.published = TRUE]]
    /\ UNCHANGED <<now, activatedAt, reg, proc, armed, watch>>

\* Before the deadline, a TCP check ends with the first event of its socket:
\* the peek finds it open, or closed or failed.
TcpResult(w, p) ==
    /\ Handling(w)
    /\ p \notin Udp
    /\ probe[w][p].stage = "io"
    /\ NotDue(probe[w][p].deadline)
    /\ \E open \in BOOLEAN : Finish(w, p, open)
    /\ UNCHANGED <<now, activatedAt, reg, proc, watch>>

\* Before the deadline, a UDP check fails on a refused connection only; a reply
\* or an error of this host ends it as a success, other errors do not end it.
UdpResult(w, p) ==
    /\ Handling(w)
    /\ p \in Udp
    /\ probe[w][p].stage = "io"
    /\ NotDue(probe[w][p].deadline)
    /\ \E refused \in BOOLEAN : Finish(w, p, ~refused)
    /\ UNCHANGED <<now, activatedAt, reg, proc, watch>>

\* A plausible bug: the timer does not end a round that is still preparing.
IoTimeout(w, p) ==
    /\ Handling(w)
    /\ probe[w][p].stage = "io"
    /\ now >= probe[w][p].deadline
    /\ Finish(w, p, p \in Udp)
    /\ UNCHANGED <<now, activatedAt, reg, proc, watch>>

\* ngx_healthcheck_timeout: a TCP check failed, a UDP check did not.
ProbeTimeout(w, p) ==
    /\ Handling(w)
    /\ Active(probe[w][p])
    /\ now >= probe[w][p].deadline
    /\ Finish(w, p, p \in Udp)
    /\ UNCHANGED <<now, activatedAt, reg, proc, watch>>

----------------------------------------------------------------------------
(***************************************************************************)
(* The watch                                                               *)
(***************************************************************************)
\* The watch submits a pending result.
WatchSubmit(w, p) ==
    /\ Handling(w)
    /\ probe[w][p].stage = "pending"
    /\ Submit(w, p, probe[w][p].result)
    /\ UNCHANGED <<now, activatedAt, reg, proc, watch>>

\* What the watch remembers of the state it read.
Observed(p) == [peer |-> p, term |-> shm[p].term, round |-> shm[p].round,
                phase |-> shm[p].phase, deadline |-> shm[p].deadline]

\* The watch reads a peer.  It starts the timer of a home peer that waits for
\* its first round, and drops a probe whose round is over, with the timer (a
\* process that never claimed the peer may have no probe yet, and then keeps
\* the timer).  It may take over a peer of another process whose deadline
\* passed long enough ago: which candidate is preferred is left open.
WatchRead(w, p) ==
    LET s == shm[p]
        first == s.phase = "INITIAL" /\ s.instance = 0 /\ s.worker = w
        lost == ~SameRound(w, s, probe[w][p])
    IN  /\ Handling(w) /\ ~proc[w].quit /\ Registered(w)
        /\ \/ /\ lost
              /\ armed' = [armed EXCEPT ![w][p] = FALSE]
           \/ /\ lost => probe[w][p].instance = 0
              /\ armed' = [armed EXCEPT ![w][p] = @ \/ first]
        /\ probe' = IF lost THEN [probe EXCEPT ![w][p] = Idle(@)] ELSE probe
        /\ \/ UNCHANGED watch
           \/ /\ ~Own(w, s)
              /\ now >= Deadline(s) + Grace
              /\ watch' = [watch EXCEPT ![w] = {Observed(p)}]
        /\ UNCHANGED <<now, activatedAt, reg, shm, proc>>

\* The watch claims the peer it read, if nothing happened to it since.
WatchClaim(w) ==
    \E o \in watch[w] :
       LET p == o.peer
       IN  /\ Alive(w) /\ ~proc[w].stopped
           /\ watch' = [watch EXCEPT ![w] = {}]
           /\ \/ /\ ~proc[w].quit
                 /\ probe[w][p].stage = "idle"
                 /\ RegistrationOwn(w, proc[w].instance)
                 /\ Observed(p) = o
                 /\ ~Own(w, shm[p])
                 /\ \E at \in Readings :
                       /\ at >= Deadline(shm[p]) + Grace
                       /\ Claim(w, p, at)
              \/ UNCHANGED <<shm, probe, armed>>
           /\ UNCHANGED <<now, activatedAt, reg, proc>>

----------------------------------------------------------------------------
(***************************************************************************)
(* The end of a process                                                    *)
(***************************************************************************)
NoEvents(w) ==
    /\ armed' = [armed EXCEPT ![w] = [p \in Peers |-> FALSE]]
    /\ watch' = [watch EXCEPT ![w] = {}]

\* nginx tells the worker to quit; the module sees it at its next test.
Quit(w) ==
    /\ Alive(w) /\ ~proc[w].quit
    /\ proc' = [proc EXCEPT ![w].quit = TRUE]
    /\ UNCHANGED <<now, activatedAt, reg, shm, probe, armed, watch>>

\* runtime_stop drops every probe and timer and tries once to register the
\* exit.
Stop(w) ==
    /\ Alive(w) /\ proc[w].quit /\ ~proc[w].stopped
    /\ proc' = [proc EXCEPT ![w].stopped = TRUE]
    /\ probe' = [probe EXCEPT ![w] = [p \in Peers |-> Idle(@[p])]]
    /\ NoEvents(w)
    /\ \/ /\ Registered(w)
          /\ reg[w].pid = proc[w].pid /\ reg[w].instance = proc[w].instance
          /\ reg' = [reg EXCEPT ![w].exiting = TRUE]
       \/ UNCHANGED reg
    /\ UNCHANGED <<now, activatedAt, shm>>

\* The process exits, or dies anywhere.
Die(w) ==
    /\ Alive(w)
    /\ proc' = [proc EXCEPT ![w] = NoProcess]
    /\ probe' = [probe EXCEPT ![w] = [p \in Peers |-> NoProbe]]
    /\ NoEvents(w)
    /\ UNCHANGED <<now, activatedAt, reg, shm>>

Tick ==
    /\ now < MaxTime
    /\ now' = now + 1
    /\ UNCHANGED <<activatedAt, reg, shm, proc, probe, armed, watch>>

PeerStep(w, p) ==
    \/ Begin(w, p) \/ BeginDeclined(w, p)
    \/ ProbeLost(w, p) \/ ProbePrepared(w, p) \/ ProbeNotPrepared(w, p)
    \/ ProbeWaiting(w, p) \/ TcpResult(w, p) \/ UdpResult(w, p)
    \/ ProbeTimeout(w, p)
    \/ WatchSubmit(w, p) \/ WatchRead(w, p)

ProcessStep(w) ==
    \/ StartProcess(w) \/ WatchRegister(w) \/ WatchClaim(w)
    \/ Quit(w) \/ Stop(w) \/ Die(w)

Next ==
    \/ Tick
    \/ \E w \in Workers : ProcessStep(w)
    \/ \E w \in Workers, p \in Peers : PeerStep(w, p)

Spec == Init /\ [][Next]_vars

(***************************************************************************)
(* The clock runs.  A running event loop finishes the watch it is in and   *)
(* then serves every expired timer, so a probe whose deadline passed is    *)
(* handled and the watch comes back to a pending result, however often the *)
(* watch runs in between (strong fairness); this also says that a lock is  *)
(* not contended every single time.  Nothing else is required to happen.   *)
(***************************************************************************)
Fairness ==
    /\ WF_vars(Tick)
    /\ \A w \in Workers : WF_vars(WatchClaim(w))
    /\ \A w \in Workers, p \in Peers :
          SF_vars(ProbeTimeout(w, p)) /\ SF_vars(WatchSubmit(w, p))

FairSpec == Spec /\ Fairness

----------------------------------------------------------------------------
(***************************************************************************)
(* Properties                                                              *)
(***************************************************************************)
Takeovers == [peer : Peers, term : 0..MaxTerm, round : 0..MaxRound,
              phase : Phases, deadline : Nat]

\* Every variable keeps its type.
TypeOK ==
    /\ now \in Nat
    /\ activatedAt \in Nat \union {Never}
    /\ reg \in [Workers -> Registrations]
    /\ shm \in [Peers -> PeerStates]
    /\ proc \in [Workers -> Procs]
    /\ probe \in [Workers -> [Peers -> Probes]]
    /\ armed \in [Workers -> [Peers -> BOOLEAN]]
    /\ watch \in [Workers -> SUBSET Takeovers]

\* The peer is owned by a process that runs and was not told to quit.
OwnedAlive(w, p) ==
    /\ Alive(w) /\ ~proc[w].quit /\ Registered(w)
    /\ Own(w, shm[p])

\* The worker's probe may still bring the result of the peer's latest round.
Working(w, p) ==
    /\ Alive(w)
    /\ probe[w][p].stage # "idle"
    /\ SameRound(w, shm[p], probe[w][p])

\* A round runs exactly as long as its living owner works on it: its probe has
\* the round's identity and is active, or holds a result it will submit again.
\* Nobody else would ever pick up a running round that its owner dropped (the
\* owner's watch skips its own peers, its check timer skips running rounds),
\* and a probe left over after the result would submit a second one.
RunningIffWorking ==
    \A w \in Workers, p \in Peers :
        OwnedAlive(w, p) => (Running(shm[p]) <=> Working(w, p))

\* The owner of a peer always has its check timer set.  The watch starts the
\* timer of a peer only before its first round, so a timer lost later, in any
\* sequence of takeovers and refusals, would end the peer's checks for good.
NoLostTimer ==
    \A w \in Workers, p \in Peers : OwnedAlive(w, p) => armed[w][p]

\* The published deadline of a running round never moves beyond its budget:
\* one timeout for preparation and, for TCP, one more for the check (and what
\* passes between the test of the first and the start of the second); the
\* next round is not announced before the interval has passed.
RoundBudget ==
    \A p \in Peers :
        LET s == shm[p]
        IN  /\ s.phase = "PREPARING" => s.deadline = s.started + CheckTimeout
            /\ s.phase = "INFLIGHT" =>
                  /\ s.deadline >= s.started + CheckTimeout
                  /\ s.deadline < s.started + 2 * CheckTimeout + Lag
                  /\ p \in Udp => s.deadline = s.started + CheckTimeout
            /\ s.phase = "WAITING" => s.deadline >= s.started + CheckInterval

\* "Phases change only with actual progress; ordinary events and heartbeats
\* cannot extend deadlines" (state.h): within a round a published deadline
\* changes only in a step that moves the phase forward.
DeadlineMovesWithPhase ==
    [][\A p \in Peers :
          shm'[p].round = shm[p].round /\ shm'[p].deadline # shm[p].deadline =>
              \/ shm[p].phase = "PREPARING" /\ shm'[p].phase = "INFLIGHT"
              \/ Running(shm[p]) /\ shm'[p].phase = "WAITING"]_vars

\* A round whose owner still works on it, with its deadline published, is not
\* taken from it before the deadline of the owner's own probe and the grace.
\* The deadline is fixed in the process before it is published, by two critical
\* sections between which the watch of another process may look.
NoEarlyTakeover ==
    [][\A w \in Workers, p \in Peers :
          /\ OwnedAlive(w, p) /\ Active(probe[w][p]) /\ probe[w][p].published
          /\ ~Own(w, shm'[p])
          => now >= probe[w][p].deadline + Grace]_vars

AtMost(count, threshold) == IF count < threshold THEN count ELSE threshold

Rounds == INSTANCE PeerRounds WITH
    round <- [p \in Peers |-> shm[p].round],
    working <- [p \in Peers |-> {w \in Workers : Working(w, p)}],
    down <- [p \in Peers |-> shm[p].down],
    rise <- [p \in Peers |-> AtMost(shm[p].rise, RiseCount)],
    fall <- [p \in Peers |-> AtMost(shm[p].fall, FallCount)]

\* "Each peer has one valid result publisher": at most one result is counted
\* for a round, by the process that started it and while it is the latest, and
\* consecutive results make the verdict, also when a counter is at its limit.
ImplementsPeerRounds == Rounds!PSpec

\* "The next round is not earlier than started + interval" (state.h) for the
\* rounds a check timer and a takeover start alike.
RoundSpacing ==
    [][\A p \in Peers :
          shm'[p].round # shm[p].round /\ shm[p].started # 0 =>
              shm'[p].started >= shm[p].started + CheckInterval]_vars

\* A round ends while its owner lives: its result is counted, or another
\* process starts a later round.
RoundEnds ==
    \A w \in Workers, p \in Peers, r \in 1..MaxRound :
        (OwnedAlive(w, p) /\ Running(shm[p]) /\ shm[p].round = r)
            ~> ~(OwnedAlive(w, p) /\ Running(shm[p]) /\ shm[p].round = r)

=============================================================================
