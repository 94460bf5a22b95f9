# A TLA+ model of nginx-healthcheck-module

This directory holds specifications, model-checking runs and proofs for the
active health checks of nginx-healthcheck-module. Paths such as
`runtime/ngx_healthcheck_schedule.c` are relative to the repository.

## The system

nginx runs one master and several worker processes. All workers map one shared
zone per module (HTTP and stream) and configuration cycle. The zone has a
registration record per worker number and a state record per checked peer. Every
worker runs an event loop: handlers run one at a time in a process, processes run
concurrently, and any process may be killed, paused or told to quit at any point.

| Component | State | Operations | What makes it correct |
|---|---|---|---|
| Shared record (`runtime/ngx_healthcheck_state.c/.h`) | lock word with the holder's pid, two slots, published word | lock with a 1 ms budget and recovery of a dead holder's lock, publish, blocking and non-blocking read | at most one live holder; readers see whole states; no update lost; a death in `publish` leaves the old state; routing's bit belongs to the valid slot |
| Scheduling (`runtime/ngx_healthcheck_schedule.c`) | registration table, per peer owner/instance/term/round/phase/deadline and counters; per process probe, check timer, periodic watch | register, start timers, begin, claim, takeover, validate, submit, finish, watch, stop | one result publisher per round; no round orphaned, no timer lost; deadlines not extended; takeover only from a stalled owner |
| Probe (`protocol/ngx_healthcheck_probe.c`) | stage flags, deadline, kept connection | start, resume, I/O event, timeout, cleanup | deadline fixed per round and published once; a round always ends |
| TCP and UDP checks (`protocol/ngx_healthcheck_tcp.c`, `..._udp.c`) | socket, discarded bytes, sending flag | peek, idle events, send/receive loops, error classification | no event lost or taken for another round's; only a confirmed failure fails a UDP check; idle data limit |
| Delay statistics (`ngx_healthcheck_common.c`) | total, count, last, average, min, max | `ngx_healthcheck_update_delay` | consistent through overflow handling |
| Zone and reload (`runtime/ngx_healthcheck_zone.c`, identity index in `ngx_healthcheck_common.c`) | generation, peer records | initialise, inherit from the previous cycle | each old record inherited at most once by the same identity |
| Request routing (the two `*_check_module.c`, patched selection loops) | none of its own | `peer_down` | one look at the published word |
| Status (`status/`, `ngx_healthcheck_status*.c`) | request context, snapshot, output blocks | collect in batches, wait, resume, cancel, print | every peer counted once, request finalised once, answers agree with what was seen |
| Configuration (`configuration/ngx_healthcheck_config.c`) | parsed directive | parse, defaults, cross checks | values in their ranges |

Components interact through the zone only (scheduling, routing and status read and
write the same records) and through calls in one process: the scheduler starts a
probe, the probe finishes into the scheduler. Hard behaviours are the
interleavings of critical sections of several workers, deaths inside them, a
state read under one lock and used under the next, busy locks answered by retry,
and the exhaustion of counters. `PROJECT.json` lists each of them at its line.

## Modules

### AtomicRecord and SharedRecord

`SharedRecord` follows the locking and publication protocol store by store: the
compare-and-swap of `ngx_shmtx_trylock`, the three steps of recovery (read the
holder, `kill(holder, 0)`, compare-and-swap back to 0), the copy of a slot, the fill
of the other slot, the publishing store and the unlock. `pc` is the position of each
process, `op` what it came for, `local` its copy. A slot is copied and filled in two
stores, one for the health and one for the progress of the state, which is enough
for a torn state to show. A process may die at any `pc` (`Crash`) and be replaced
(`Respawn`). Running out of the lock's budget is the second disjunct of `Retry`.

`AtomicRecord` states what users of a record rely on: the value is read as a whole
and replaced as a whole by somebody who has seen the value he replaces, and the bit
read by routing is the down flag of the current value. `ImplementsAtomicRecord` is
the refinement: the value is the slot the published word names.

The same protocol serves the registration records, without the down bit.

### PeerRounds and Schedule

`Schedule` takes one level up: an action is one critical section (the own
registration's lock, then the peer's lock) with the local updates around it. That a
record then changes in one step is what `SharedRecord` establishes.

| Code | Actions |
|---|---|
| `ngx_healthcheck_runtime_init`, `register`, `start_timers` | `StartProcess`, `WatchRegister` (`Join`, `JoinLater`) |
| `begin` and the regular `claim` | `Begin`, `BeginDeclined` (`Entitled`, `Claim`) |
| `probe_start`, `io_ready`, `probe_resume` | `ProbeLost`, `ProbePrepared`, `ProbeNotPrepared` |
| `probe_waiting` | `ProbeWaiting` |
| `tcp_event`, `udp_write`, `udp_read` | `TcpResult`, `UdpResult` |
| `ngx_healthcheck_timeout` | `ProbeTimeout` |
| `finish`, `submit` | `Finish`, `Submit` within the four actions above |
| `watch` | `WatchSubmit` (a pending result), `WatchRead`, `WatchClaim` (takeover) |
| `runtime_stop` and the end of a process | `Quit`, `Stop`, `Die` |

The watch reads a peer under its lock and claims it under the lock later; `watch`
holds what it remembers in between, and no other handler of that process runs then
(`Handling`). A busy lock, an unavailable clock and an early timer change nothing and
set the timer again: they are stutters. A handler compares the deadlines with a
reading of the clock that may be up to `Lag` old when its critical section takes
effect. Pids are reused here. One worker number has at most one process at a time;
under that condition a registered process keeps its registration, so the watch never
sees NGX_DECLINED from `register`.

`PeerRounds` states what the scheduler promises per peer: rounds are numbered one
after the other, each is worked on by the one process that started it, its result is
counted at most once, by that process and while the round is the latest, and the
verdict changes when enough consecutive results agree. `ImplementsPeerRounds`
reads off the worker of a round from the probes: a probe works on a round if it is
not idle and has the identity of the published round.

### StatusReport and StatusRequest

A status request collects a snapshot of one source (`check_status`) or two
(`healthcheck_status`). `StatusRequest` has one action per record read, because other
processes publish between two of them (`Publish`); the record itself is an atomic
value here, which is what `SharedRecord` establishes.

| Code | Actions |
|---|---|
| `ngx_healthcheck_status_request` | `Request`, and what it shares with a resumed collection |
| `snapshot_step`, `request_collect` | `ReadRecord`, `SourceDone`, `ReadFails` |
| `request_wait` after a busy record or a used-up batch | `Contended`, `Exhausted`, `WaitFails` |
| `request_resume` | `Resume`, then the collection |
| `request_output` | `Output` |
| `request_read`, the cleanup chain | `Cancel`; `LoseConnection` is a failure nobody has noticed yet |

`refs` is this request's share of `r->main->count`: the content phase gives its own
reference back when it returns NGX_DONE, so the request takes another one. The read
event handler, the posted event and the text of the answer are left out.

`StatusReport` states what a client relies on: each peer is looked at once, in order,
and the answer shows and counts exactly what was seen. `ImplementsStatusReport` reads
off what was seen from the rows: a peer without a row has the verdict the filter hides.

### TcpCheck

One TCP peer in one process: the rounds of its probe, the connection kept between them,
and the peer at its other end. `Schedule` leaves the outcome of a check open; here it
is worked out. The shared state is reduced to the question `probe_valid` asks of it (is
the round still ours?), which a busy lock or an unavailable clock leaves unanswered at
any time. `at` is the handler that runs. A handler that calls another one or reads in a
loop is several actions, and between two of them the peer acts and time passes.

| Code | Actions |
|---|---|
| a claim, `probe_start` | `Claim`; `StartLater`, `StartLost`, `StartLate`, `StartReuse` (peek at the kept connection), `StartConnect` |
| `io_ready`, `tcp_event` | `CheckLater`, `CheckLost`, `CheckLate`, `CheckResult` |
| `tcp_idle` and its discarding | `IdleRead`, `Discard`, `NothingLeft`, `IdleEnd`, `Drain` |
| event loop, posted events | `PollRead`, `PollWrite`, `Posted` |
| `timeout`; the watch; `runtime_stop` | `Timeout`; `Resume`, `Resubmit`, `WatchLost`; `Stop` |
| the peer, the kernel, other workers | `ConnectDone`, `PeerSends`, `PeerEnds`, `Tick`, `TakenOver` |

The read side of a connection has the kernel's edge (`edge`), the posted queue
(`posted`) and the mark `ready`, since an event that is dropped on a busy lock is seen
again only through one of them. Options of the keepalive succeed or fail. The peer's
payload is a number of bytes.

### UdpCheck

One UDP peer in one process, system call by system call: `Write`, `SendDatagram`,
`SendPart`, `SendError`, `SendInterrupted`, `SendBlocked` are the send handler, `Read`,
`Query` (SO_ERROR), `Receive` and the interrupted forms the receive handler, `Judge`
the classification of the error in `returned`. Errors and replies arrive between any
two calls; asking for SO_ERROR and calls that return an error take it from the socket.
`sends` and `refused` are auxiliary: the datagrams of this round, and whether the latest
error after an attempt was a refusal.

### Takeover

What `Schedule` leaves open: which peer a watch visits and which worker takes over.
`Enter`, `Lock`, `StoreTime`, `StoreFlag`, `Register` are `ngx_healthcheck_register`
statement by statement, with a death possible in between; `Pass` and `Choose` are the
batches of the watch and its cursor; `MayClaim` is `ngx_healthcheck_preferred` over the
heartbeats; `Claim`, `ClaimFails` the takeover. Times are ages, capped where the code
stops telling them apart, so the clock never stops and liveness is not cut off by a
bound. The hash behind the scores is the constant `Score`.

### Reload

Loading a configuration, any number of times: `Configure` (the modules and peers of the
new one), `StartZone`, one `InitPeer` per turn of the loop in `init_zone`, `EndZone`,
and `Commit` or `Fail`. A peer's history is abstracted to its lineage, the peer it began
with. `Take` is the identity index: a bucket lists its entries latest first, so of equal
peers the last old one is the first to be inherited (each reload reverses them).

### CheckConfig

The check directive. `Parameter` parses one parameter into `args` (`Parsed`, `Valid`),
`Invalid` refuses one, `Finish` computes defaults and constraints (`Outcome`). Text is
abstracted to values.

### DelayStats

`ngx_healthcheck_update_delay` as a function of the statistics and a sample, with the
two limits of 64 bits as the constant `MaxTotal`. A delay is at most 2^63 - 1
milliseconds in practice (it is below the timeout), which is the assumption
`2 * MaxDelay <= MaxTotal`.

### StatusOutput

`Calls` gives the printf calls of each of the seven formats for complete snapshots;
`Write` is one turn of the loop that cuts their text into blocks, `WriteFails` an
allocation that fails, `Send` the answer. Text is a sequence of units (a number with
its label, a status, a bracket, a comma); the columns copied from a record and the
markup are left out. `AnswerSound` reads the answer back from the blocks.

`MCSequential` puts the last three together as one run: they are sequential and
independent, and a variable says which of them a behaviour is about.

### How the modules fit together

`SharedRecord` justifies the atomic critical sections of `Schedule`, the record reads of
`StatusRequest` and the unlocked look of routing. `Schedule` takes the outcome of a check
and of its preparation from a set; `TcpCheck` and `UdpCheck` work it out under any answer
the shared state can give. `Takeover` and `Reload` refine what `Schedule` chooses freely
(the visited peer, the worker that takes over, inherited counters). `StatusOutput` starts
where `StatusRequest` ends.

## Runs

| Run | Question | Bounds |
|---|---|---|
| `record` | Is the lock safe, the record atomic, and a dead holder's lock released, when workers die anywhere? | 2 processes, 3 pids (one death and its replacement), 2 updates, fairness of running processes |
| `record_pid_reuse` | What if a dead holder's pid is handed out again? | violation: 3 processes, 4 pids, symmetry; see below |
| `schedule` | Do deadlines protect a working owner and never grow; do quits, deaths and restarts orphan a round, lose a timer or count a result twice? | 2 workers, 1 TCP peer, 2 reusable pids, interval 2, timeout 1, readings up to 1 old, 2 instances, terms and rounds, clock up to 4: a check, takeovers of each phase and exhausted identities |
| `schedule_counts` | Do thresholds and counters at their limit keep the verdict, does a UDP round keep its one deadline and end? | 1 worker, 1 UDP peer, interval 3, timeout 2, thresholds 2, counters up to 3 in every inherited combination, 3 rounds, clock up to 7 |
| `schedule_spacing` | Is the interval kept between all rounds? | violation: interval 4, timeout 1, clock up to 6; see below |
| `status_request` | Does an interrupted collection see every peer once, do timer and reference last exactly as long as needed, are reports of busy records apart, does every request end? | sources of 2 and 1 peers, batches of 1 (each record needs a resumption), warning delay 1, distance 2, clock up to 6: several reports and a change of the record between them |
| `sequential` | Do the statistics survive rescaling, is an accepted directive sound whatever the order of its parameters, does an answer agree with what was seen? | width 15 and delays up to 7; directives of up to 3 parameters with values around every limit; 2 peers per source, all verdicts, filters and formats, blocks of 3 units |
| `tcp_check` | Does only what happened in a round decide it, is no event lost, is the discard limit exact? | timeout 2, age 3, 2 bytes to discard, 3 on the way: under, at and over the limit |
| `tcp_reconnect` | Does only a new connection fail a round? | violation; see below |
| `udp_check` | Does only a refusal at the right time fail, is it never forgotten, is one datagram sent, does every round end? | timeout 2, 3 tries of an interrupted call |
| `reload` | Has each old record at most one heir, of its identity, and is only a busy one forgotten? | both modules, 2 identities in one bucket, up to 2 peers, 3 generations |
| `takeover` | Is a cycle activated once, and is a peer nobody checks found? | 2 workers, 2 peers, batches of 1, grace and preference 1, one death; worker 0 is preferred for both peers and only worker 1 has memory for a probe |

Peers are independent of each other but for the order in which the watch visits them:
`Schedule` lets any peer be visited next, so one peer shows what there is to see, and
`Takeover` has the order and two peers. All bounds are constants or are named in the
modules: `MaxTime` stops the clock, `LastClaim` the rounds, `MaxVersion` the updates,
`MaxDeaths` and spare pids the deaths, `MaxUnread` the bytes on the way, `MaxPeers`,
`MaxShown` and `MaxParameters` the inputs. Three runs allow a state without successor,
where the system really stops: `tcp_check` (a process told to quit; `tcp_reconnect`
likewise), `reload` (the largest generation refuses a load) and `sequential` (a
directive or an answer is over).

Each property is broken by a plausible bug of one definition, kept beside it in the
module ("A plausible bug: ..."); `PROJECT.json` pairs them.

### Fairness

`SharedRecord`: a running process executes its next instruction, the watch brings it
back to the record and the master replaces a dead worker. Deaths are never required.

`Schedule`: the clock runs (weak fairness of `Tick`), a watch that has read a peer goes
on to its claim, and strong fairness for an expired probe's timer and for the watch's
submission of a pending result. Strong fairness is the event loop's: after each
handler it serves every expired timer, and the watch comes back to every peer, but
another handler may run in between. It also says that a lock is not busy at every
attempt.

`StatusRequest`: weak fairness of the handlers (a collection goes on, a set timer
fires) and strong fairness of reading a record, whose lock is not busy every time: it
is held for a few copies only and recovered from a dead holder.

`UdpCheck`: a handler that runs goes on, the clock runs (both weak), and an expired
timer is served however many events are polled in between (strong). Interrupted calls
may go on for ever; the limit of the loops and the timer end the round all the same.

`Takeover`: the clock runs, the master starts and replaces workers and a watch goes on
(weak); the locks of the activation and of the records are not contended every time a
sound worker's watch comes to them (strong fairness of `Lock` or `Register`, `Choose`
and `Claim`). Nothing is assumed of the worker that has no memory, nor of an owner.

Nothing makes I/O answer, and `Schedule` does not make a takeover happen.

### Three disagreements

`record_pid_reuse`: recovery tests a pid and releases the lock by pid in a later step.
If the dead holder's pid is given to a new worker that takes the lock in between, a
live holder loses it; README.md:344 promises that live holders remain protected. It
needs the kernel to hand out a pid again within a lock attempt.

`schedule_spacing`: a regular claim waits for `started + interval`, a takeover only for
the published deadline and the grace. `runtime/ngx_healthcheck_state.h:40` says that
the next round is not earlier than `started + interval`.

`tcp_reconnect`: a kept connection is peeked at by `probe_start`, which reconnects when
that fails, and again by `tcp_event`, which fails the round. When the peer closes in
between, the round fails without the reconnect README.md:228 promises.

## Proofs

TLAPS checks the theorems below for every number of processes, workers and peers and
for every value of the other constants that satisfies the assumptions of their
modules.

### SharedRecordProofs

Under the assumption that a pid is not handed out again (`PidReuse = FALSE`):

- `HolderSafety`: `HolderProtected`. The strengthening (`LockInv`) says that the pid a
  contender is about to release is spent or not alive, that live pids are distinct and
  that the place of a dead process is empty.
- `RoutingSafety`: `RoutingBit`. `DataInv` adds what each process in the critical section
  has copied and filled so far, which no other process disturbs.
- `RecordIsAtomic`: `SharedRecord` implements `AtomicRecord`, step by step.

### ScheduleProofs

The only assumption is `ScheduleAssumption`: the timeout is below the interval, the
thresholds are positive and fit their counters, and the bounds are natural numbers
(their values do not matter: every theorem holds for clocks that run as long as one
likes and for readings as old as one likes).

- `TypeSafety`: `TypeOK`. This is where the limits of instance, term and round matter.
- `TimerSafety`: `NoLostTimer`, and `WorkSafety`: `RunningIffWorking`. Neither is
  inductive. `OwnershipInv` adds that a running process keeps its registration, that a
  dead one has no busy probe, that no peer names an instance that was not handed out
  yet (so a new process owns nothing), and that the owner's probe has the identity of
  the published round. From these the owner passes every test of `owned_lock`
  (`OwnerOwns`), so no refusal can drop its timer or its probe.
- `RoundBudgetSafety`: `RoundBudget`, and `DeadlineSafety`: `DeadlineMovesWithPhase`.
  `BudgetInv` bounds the published deadline together with the one inside the probe that
  will be published later, and ties the phase to whether that has happened.
- `TakeoverSafety`: `NoEarlyTakeover`, from both invariants: a working owner's published
  deadline is its probe's, and `Publications` says that only a takeover can make
  another process the owner.
- `RoundsRefinement`: `Schedule` implements `PeerRounds`. A claim is `Start`, a counted
  submission is `Count` and every other step at most ends somebody's work (`Leave`).

The proofs follow the code: one step per handler, and lemmas for what handlers share
(`ClaimEffect`, `SubmitEffect`, `FinishEffect`), for steps that concern one peer
(`PeerStepFrame`, `BudgetFrame`) and for steps of a whole process (`ProcessStepFrame`).

### StatusRequestProofs

Under `StatusAssumption` (one or two sources of any size, a positive batch):
`RequestTypeSafety`, `RequestTimerSafety`, `RequestReferenceSafety` and
`ReportsSafety` for `TypeOK`, `TimerIffWaiting`, `HeldUntilEnd` and `ReportsApart`. The
invariant `RequestInv` adds that the request holds exactly one reference until it ends,
and that the time of the next report lies behind the start of the wait by the warning
delay and behind the last report by the log interval (`ReportsSpaced`), which is what
the `ngx_max` in `request_wait` is for.

`ReportRefinement`: `StatusRequest` implements `StatusReport`, for sources of any size and
any batch. The mapping makes the one instant at which `StatusReport` reads a peer out of
what the request has collected over several steps, so the invariant `CollectInv` says
what that is: no peer beyond the next one has been looked at (`RowsRead`), a record and
its place in a snapshot belong together (`SnapshotsFollow`), the peers of the second source
wait for those of the first (`InOrder`), and an answer follows the last record (`AnswerAtEnd`).
`ReadEffect` relates one `snapshot_step` to one reading of the abstract specification. The
selection of the rows is a recursive function: `Iteration` proves that such a function
exists, `ChosenLoop` that `Chosen` is it, by induction over the peers.

### TcpCheckProofs and UdpCheckProofs

Under `TcpAssumption` and `UdpAssumption` (a positive timeout and natural bounds), for
every timeout, age, discard limit, number of tries and amount of data:

- `RoundStructureSafety`, `FailureFromRoundSafety`, `SampleSafety`, `TcpEventSafety`,
  `SuccessSafety` and `DiscardSafety` for the six properties of `tcp_check`. The
  invariant `TcpInv` says which handler runs when (`PlaceInv`), what a connection can be
  like in each of its states (`ConnInv`), that what has arrived is with the kernel or
  marked ready also inside a handler (`EventInv`), and that within a round a broken
  connection was broken in this round (`RoundInv`). The properties speak of the time
  between handlers, so none of them is inductive alone.
- `SentOnceSafety`, `RefusalSafety`, `EventSafety`, `FailureSafety` for the safety
  properties of `udp_check`, from `UdpInv`: `SendInv` ties the sending flag to the number
  of datagrams, `RefusalInv` says where the refusal is (in the socket, or in `returned`
  while it is being judged), and `EventInv` that an error which arrives after SO_ERROR took
  the previous one brings a new event.

### SequentialProofs

Of `CheckConfig`, under `ConfigAssumption` (the relations between the limits of the code), for directives
of any length and parameters of any value:

- `ConfSafety`: `ConfSound`, with `DirectiveInv`: the arguments keep their types and the
  limits every parameter is tested for, whatever was parsed before.
- `OrderFreeSafety`: `OrderFree`. Parameters of different names write different fields
  (`ParsedCommutes`).
- `LastCountsSafety`: `LastCounts`. What an earlier value leaves behind is only read
  where the later one wrote it (`ParsedTwice`, `SameOutcome`).

Of `DelayStats`, under `DelayAssumption` (twice the largest delay fits the width), for
delays and widths of any size:

- `StatisticsSafety`: `StatisticsSound`. The inductive invariant `DelayInv` is the type of
  the fields and `MeanWithinExtremes`: the average is the total divided by the number, and
  lies, like the last delay, between the extremes. From it follow the bounds of the
  rescaling (`HalfCountFits`, `BaseFits`), which leave room for the next sample. The loop
  that halves the number is a recursive function; that it exists, ends and fits is shown
  by a smallest counterexample (`HalvedExists`, `HalvedFits`).
- `WidthSafety`: the halved number and the total rebuilt from it stay within the width.
- `AverageSafety`: `AverageFollowsSample`, across rescaling too (`AverageBetween`).

Of `StatusOutput`, under `OutputAssumption` (a block has room for something), for peers of
any number and verdict, every format and filter, and blocks of any size:

- `AnswerSafety`: `AnswerSound`. What a reader finds in a text (`Reading`) is composed:
  the reading of two texts is that of each, if the first does not end within a row
  (`ReadingCat`, `Closed`). So every formatter is proved call by call: `Says` states for
  one label what is read of a sequence of calls, `RowsSay` and `JsonRowsSay` for the rows of
  a source, `HtmlSays` to `LegacyJsonSays` for the formats. That what a filter kept passes
  it again (`KeptTwice`), and that the rows up and down are all rows (`KeptSplit`), makes
  the totals match. The commas are a property of adjacent units (`MayFollow`), which two
  texts keep if the second fits the end of the first (`NeatCat`); `JsonRowsNeat` shows it for
  any number of rows. The inductive invariant `OutputInv` says of the writer that its full
  blocks and the calls that are left make up the answer (`Written`, `PartWritten`,
  `LeftOver`). The loops of the model are recursive functions; what they compute is shown
  by a smallest counterexample (`Induction`, `Iteration`).

### ReloadProofs

Under `ReloadAssumption` (a hash for every identity, natural bounds), for any modules,
identities, hashes, numbers of peers and sequence of loads:

- `ReloadTypeSafety`, `OneHeirSafety` and `HistorySafety`: `TypeOK`, `OneHeir` and
  `HistoryOfIdentity`. Neither of the last two is inductive. `LoadInv` adds that a module has
  one zone in force and one new zone (`OneZone`), that a history began in a zone of its
  module and no later than the zone it is in (`Born`), that a new zone is later than the
  one in force and takes every history that did not begin in it from there, with its
  identity (`Descends`), and that a record inherited so far is no longer in the index
  (`Loading`). `OldOrigin` draws the consequences for a match, `InitPeerEffect` says what one
  turn of the loop does.
- `NoneForgottenSafety`: `NoneForgotten`. `BalanceInv` relates the heirs of an identity to the
  old records they took: they are equally many, and one of the two sides is exhausted.
  That a bucket holds every old record of the identity is what makes an unsuccessful
  search mean that the old side is (`TakeMatch`).

### TakeoverProofs

Under `TakeoverAssumption`, for any number of processes and peers: `TakeoverTypeSafety` for
`TypeOK` and `ActivationSafety` for `ActivatedOnce`. The invariant `TakeoverInv` adds that
only the holder of a peer's lock activates it (`HolderActivates`) and that a process which
has visited its peers has none left (`VisitsLeft`).

### Model-checked only

Liveness (`OrphanReleased`, `RoundEnds`, `RequestEnds`, `PeersFound`) is beyond the prover
and rests on the runs. `HolderProtected` with reused pids, `RoundSpacing` and
`FailureOnNewConnection` do not hold. The type invariants of `Schedule`,
`StatusRequest`, `TcpCheck`, `UdpCheck`, `CheckConfig`, `Reload` and `Takeover` are proved
(`TypeSafety`, `RequestTypeSafety`, `TcpTypeSafety`, `UdpTypeSafety`, `DirectiveTypeSafety`,
`ReloadTypeSafety`, `TakeoverTypeSafety`); that of `SharedRecord` is a part of its `LockInv`,
that of `DelayStats` a part of `StatisticsSound`.

## Not modelled

- *Selection loops of the patch*: routing is the one unlocked look at the published word
  (`RoutingBit`); the load balancers' loops around it are nginx's own, and the patch only
  adds a condition to them.
- *Builds without atomic operations*, where the lock is a file lock: `SharedRecord` is the
  build with `NGX_HAVE_ATOMIC_OPS`.
- *The rest of the configuration*: `check_shm_size`, adding the peers of an upstream and
  the directives of locations store a value each. So do the hooks of the two modules,
  except for the start and the end of a process, which are in `Schedule`.
- *Text*: names, addresses, log messages, markup, and reading the text of a parameter.
- *Build files and the example configuration*.

An empty answer (`check_status csv` without a row) has no block, and then only a header
is sent and no last buffer; what nginx makes of that lies outside this code.
